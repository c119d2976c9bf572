------------------------- MODULE HermesRunsInduction -------------------------
(***************************************************************************)
(* The inductive invariant of HermesRuns.  Accounted is what it is for: a  *)
(* run that is going, or that a POST still on its way may start, is in     *)
(* the record on disk, in the write in progress and in memory, unless a    *)
(* start found it lost and reported it, is about to, or was killed before  *)
(* it could.  The other parts say why no step loses it.                    *)
(***************************************************************************)
EXTENDS HermesRuns

Posted(d) == \E w \in wire : w[1] = d

(* The work of d is going, or a POST on its way may start it.              *)
MayRun(d) == IF starts[d] = 0 THEN Posted(d) ELSE <<d, 1>> \notin ended

Named1(d, pending, admitted) == d \in pending \/ <<d, 1>> \in admitted

Up == host \in {"started", "closing", "emptying", "saving"}

Early   == {"ahead", "send", "post", "resend"}
Tracked == {"promote", "promoted", "stopping", "leftover"} \union Published

Types ==
  /\ host \in Hosts /\ pc \in [Dispatches -> Stages]
  /\ got \in [Dispatches -> Nat] /\ attempt \in [Dispatches -> Nat]
  /\ abandoned \subseteq Dispatches /\ pend \subseteq Dispatches /\ adm \subseteq Runs
  /\ saver \in [by : SUBSET (Dispatches \union {Session}), pending : SUBSET Dispatches,
                admitted : SUBSET Runs]
  /\ disk \in [pending : SUBSET Dispatches, admitted : SUBSET Runs]
  /\ answer \in [Dispatches -> {"none", "accepted", "rejected", "failed"}]
  /\ told \in [Dispatches -> Nat]
  /\ unknown \subseteq Dispatches /\ unreported \subseteq Dispatches /\ keyed \subseteq Dispatches /\ old \subseteq Dispatches
  /\ durable \in BOOLEAN /\ retained \subseteq Dispatches
  /\ starts \in [Dispatches -> Nat] /\ ended \subseteq Runs /\ wire \subseteq Runs
  /\ restarts \in Nat /\ failedSaves \in Nat

(* Why no admission starts work again: a key is retained while a POST that *)
(* bears it may arrive, and a dispatch without one is sent once.           *)
Once ==
  /\ \A w \in wire : 1 <= w[2] /\ w[2] <= attempt[w[1]]
  /\ \A r \in ended : starts[r[1]] > 0
  /\ retained \subseteq keyed /\ \A d \in retained : starts[d] = 1
  /\ keyed # {} => durable
  /\ \A d \in Dispatches :
       /\ starts[d] <= 1
       /\ Posted(d) /\ starts[d] > 0 => d \in retained
       /\ d \in keyed /\ d \notin old /\ starts[d] > 0 => d \in retained
       /\ d \notin keyed => attempt[d] <= 1
       /\ pc[d] \in {"new", "ahead", "send"} => attempt[d] = 0 /\ starts[d] = 0
       /\ pc[d] = "post" => attempt[d] = 1 /\ (Posted(d) => starts[d] = 0)

(* What the stage of a dispatch says of its run and of memory.             *)
Places ==
  /\ \A r \in adm : r[2] = 1 /\ pc[r[1]] \in Tracked
  /\ \A d \in Dispatches :
       /\ pc[d] \in Tracked => got[d] = 1 /\ starts[d] = 1 /\ <<d, 1>> \in adm
       /\ pc[d] \in Early => d \in pend
       /\ d \in pend => pc[d] \in Early \union {"over"}
       /\ pc[d] \in {"restopping", "restopped"} => got[d] = 1 /\ starts[d] = 1
       /\ pc[d] = "restopped" => <<d, 1>> \in ended

(* What the state of the session says of the stages.                       *)
Phases ==
  /\ ~Up => pend = {} /\ adm = {} /\ saver = NoSave
  /\ host = "settling" =>
       \A r \in disk.admitted : pc[r[1]] \in {"restopping", "restopped", "refailed"}
  /\ host = "reporting" =>
       \A d \in Dispatches : pc[d] \in {"new", "over"} \union Recovered
  /\ \A d \in Dispatches :
       /\ host \in {"down", "closed", "saving"} => pc[d] \in {"new", "over"}
       /\ host = "emptying" =>
            pc[d] \notin Early \union {"promote", "promoted", "refused", "forget", "live"}
       /\ host = "settling" =>
            /\ pc[d] \in {"new", "over"} \union Recovering \union Recovered
            /\ d \in disk.pending => pc[d] \in Recovering \union Recovered
            /\ pc[d] \in {"replaying", "lost"} => d \in disk.pending
       /\ host \notin {"settling", "reporting"} => pc[d] \notin Recovering \union Recovered

(* A write holds what memory held, and only names runs that were started.  *)
Writes ==
  /\ saver # NoSave =>
       \/ saver.by = {Session} /\ host = "saving" /\ saver.admitted = {}
       \/ \E d \in Dispatches : /\ saver.by = {d} /\ pc[d] \in Saving
                                /\ pc[d] = "ahead" => d \in saver.pending
  /\ \A r \in disk.admitted \union saver.admitted : r[2] = 1 /\ starts[r[1]] = 1

(* A dispatch that may have been sent is in the record on disk, and stays  *)
(* there, for as long as memory holds it pending.                          *)
Noted ==
  \A d \in pend : pc[d] # "ahead" =>
    d \in disk.pending /\ (saver # NoSave => d \in saver.pending)

Accounted ==
  \A d \in Dispatches : MayRun(d) /\ d \notin unknown \union unreported \union Owed =>
    /\ Named1(d, disk.pending, disk.admitted)
    /\ saver # NoSave => Named1(d, saver.pending, saver.admitted)
    /\ Up => Named1(d, pend, adm)
    /\ host = "closed" => d \in disk.pending

Reports ==
  \A d \in Dispatches :
    /\ told[d] > 0 => told[d] = 1 /\ starts[d] = 1 /\ <<d, 1>> \in ended
    /\ pc[d] \in {"new"} \union Early \union Tracked => told[d] = 0

(* A refused dispatch leaves memory at once and the disk before it is      *)
(* answered; only a failed removal leaves it where a start would send it.  *)
Refusals ==
  /\ \A d \in disk.pending \union saver.pending : pc[d] # "new"
  /\ failedSaves = 0 => \A d \in Dispatches :
       /\ pc[d] = "refused" \/ answer[d] = "rejected" =>
            /\ starts[d] = 0 /\ ~Posted(d) /\ d \notin pend
            /\ d \in saver.by => d \notin saver.pending
       /\ answer[d] = "rejected" =>
            pc[d] = "over" /\ d \notin disk.pending \union saver.pending

Fits(pending, admitted) ==
  /\ IsFiniteSet(pending) /\ IsFiniteSet(admitted)
  /\ Cardinality(pending) + Cardinality(admitted) <= MaxActive

(* No more entries than slots: in memory, in a write, and on disk.         *)
Slots ==
  /\ Fits(pend, adm)
  /\ Fits(saver.pending, saver.admitted)
  /\ Fits(disk.pending, disk.admitted)

Unnamed(d, pending, admitted) == d \notin pending /\ \A r \in admitted : r[1] # d

(* A dispatch whose note a start gave up is never noted again.             *)
Dropped ==
  \A d \in Dispatches : d \in unknown \union unreported \union Owed =>
    /\ pc[d] # "new"
    /\ Unnamed(d, pend, adm)
    /\ Unnamed(d, saver.pending, saver.admitted)
    /\ Unnamed(d, disk.pending, disk.admitted)

LedgerInductive ==
  /\ Types /\ Once /\ Places /\ Phases /\ Writes /\ Noted /\ Accounted /\ Reports /\ Refusals

RunsInductive == LedgerInductive /\ Slots /\ Dropped
=============================================================================
