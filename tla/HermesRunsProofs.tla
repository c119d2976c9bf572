-------------------------- MODULE HermesRunsProofs --------------------------
(***************************************************************************)
(* Theorems about HermesRuns, for every set of dispatches, every number of *)
(* slots and every bound: its inductive invariant, the safety properties   *)
(* that follow from it, and that it implements DispatchPromise.  There is  *)
(* one lemma per action or group of like actions, a step for each part of  *)
(* the invariant the action can disturb.                                   *)
(***************************************************************************)
EXTENDS HermesRunsInduction, FiniteSetTheorems, TLAPS

USE HermesRunsAssumption
USE DEF Hosts, InFlight, Published, Recovering, Recovered, Stages, Early, Tracked, Saving, Up,
        Runs, At, losses, Owed, RunsInductive, LedgerInductive

-----------------------------------------------------------------------------
(* Steps whose frame carries most of the invariant.                          *)

(* No slot: the dispatch is over before anything names it.                   *)
LEMMA RefuseDispatchKeeps ==
  ASSUME RunsInductive, NEW d \in Dispatches, RefuseDispatch(d)
  PROVE  LedgerInductive'
<1>1. Types'
  BY DEF RefuseDispatch, Types, hermes, time, bounds
<1>2. Once' /\ Places'
  BY DEF RefuseDispatch, Types, Once, Posted, Places, hermes, time
<1>3. Phases' /\ Writes'
  BY DEF RefuseDispatch, Types, Phases, Writes, hermes
<1>4. Noted' /\ Accounted'
  BY DEF RefuseDispatch, Types, Noted, Accounted, Posted, MayRun, Named1, hermes
<1>5. Reports'
  BY DEF RefuseDispatch, Types, Reports, hermes
<1>6. Refusals'
  <2>1. d \notin pend /\ d \notin saver.pending \union disk.pending
    BY DEF RefuseDispatch, Types, Places, Refusals
  <2>2. ~Posted(d) /\ starts[d] = 0
    BY DEF RefuseDispatch, Types, Once, Posted
  <2> QED
    BY <2>1, <2>2 DEF RefuseDispatch, Types, Posted, Refusals, NoSave, hermes, bounds
<1> QED
  BY <1>1, <1>2, <1>3, <1>4, <1>5, <1>6

(* A dispatch is minted and becomes pending in memory.                       *)
LEMMA DispatchKeeps ==
  ASSUME RunsInductive, NEW d \in Dispatches, Dispatch(d)
  PROVE  LedgerInductive'
<1>1. Types'
  BY DEF Dispatch, Types, hermes, said, bounds
<1>2. Once' /\ Places'
  BY DEF Dispatch, Types, Once, Posted, Places, hermes
<1>3. Phases' /\ Writes'
  BY DEF Dispatch, Types, Phases, Writes, hermes
<1>4. Noted' /\ Accounted'
  BY DEF Dispatch, Types, Noted, Accounted, Posted, MayRun, Named1, hermes, said
<1>5. Reports'
  BY DEF Dispatch, Types, Reports, hermes, said
<1>6. Refusals'
  BY DEF Dispatch, Types, Posted, Refusals, hermes, said, bounds
<1> QED
  BY <1>1, <1>2, <1>3, <1>4, <1>5, <1>6

(* An entry that was never sent is dropped from memory.                      *)
LEMMA ReadinessFailsKeeps ==
  ASSUME RunsInductive, NEW d \in Dispatches, ReadinessFails(d)
  PROVE  LedgerInductive'
<1>1. Types'
  BY DEF ReadinessFails, Types, hermes, said, time, bounds
<1>2. Once' /\ Places'
  BY DEF ReadinessFails, Types, Once, Posted, Places, hermes, time
<1>3. Phases' /\ Writes'
  BY DEF ReadinessFails, Types, Phases, Writes, hermes
<1>4. Noted' /\ Accounted'
  BY DEF ReadinessFails, Types, Places, Phases, Writes, Noted, Once, Accounted, Posted,
         MayRun, Named1, NoSave, hermes, said
<1>5. Reports'
  BY DEF ReadinessFails, Types, Reports, hermes, said
<1>6. Refusals'
  BY DEF ReadinessFails, Types, Posted, Refusals, hermes, said, bounds
<1> QED
  BY <1>1, <1>2, <1>3, <1>4, <1>5, <1>6

(* The first POST: the write that holds the entry has landed.                *)
LEMMA PostKeeps ==
  ASSUME RunsInductive, NEW d \in Dispatches, Post(d)
  PROVE  LedgerInductive'
<1>1. Types'
  BY DEF Post, Types, said, time, bounds
<1>2. Once' /\ Places'
  BY DEF Post, Types, Once, Posted, Places, time
<1>3. Phases' /\ Writes'
  BY DEF Post, Types, Phases, Writes
<1>4. Noted' /\ Accounted'
  BY DEF Post, Types, Places, Phases, Writes, Noted, Once, Accounted, Posted, MayRun,
         Named1, NoSave, said
<1>5. Reports'
  BY DEF Post, Types, Reports, said
<1>6. Refusals'
  BY DEF Post, Types, Posted, Refusals, said, bounds
<1> QED
  BY <1>1, <1>2, <1>3, <1>4, <1>5, <1>6

(* The cancellation of a caller changes no run.                              *)
LEMMA AbandonKeeps ==
  ASSUME RunsInductive, NEW d \in Dispatches, Abandon(d)
  PROVE  LedgerInductive'
<1>1. Types'
  BY DEF Abandon, Types, hermes, said, time, bounds
<1>2. Once' /\ Places'
  BY DEF Abandon, Types, Once, Posted, Places, hermes, time
<1>3. Phases' /\ Writes'
  BY DEF Abandon, Types, Phases, Writes, hermes
<1>4. Noted' /\ Accounted'
  BY DEF Abandon, Types, Noted, Accounted, Posted, MayRun, Named1, hermes, said
<1>5. Reports'
  BY DEF Abandon, Types, Reports, hermes, said
<1>6. Refusals'
  BY DEF Abandon, Types, Posted, Refusals, hermes, said, bounds
<1> QED
  BY <1>1, <1>2, <1>3, <1>4, <1>5, <1>6

(* A resend bears a retained key, or nothing is sent and the entry stays.    *)
LEMMA NoResponseKeeps ==
  ASSUME RunsInductive, NEW d \in Dispatches, NoResponse(d)
  PROVE  LedgerInductive'
<1>1. Types'
  BY DEF NoResponse, Puzzled, MayResend, Types, time, bounds
<1>2. Once' /\ Places'
  BY DEF NoResponse, Puzzled, MayResend, Types, Once, Posted, Places, time
<1>3. Phases' /\ Writes'
  BY DEF NoResponse, Puzzled, MayResend, Types, Phases, Writes
<1>4. Noted' /\ Accounted'
  BY DEF NoResponse, Puzzled, MayResend, Types, Places, Phases, Writes, Noted, Once,
         Accounted, Posted, MayRun, Named1, NoSave
<1>5. Reports'
  BY DEF NoResponse, Puzzled, MayResend, Types, Reports
<1>6. Refusals'
  BY DEF NoResponse, Puzzled, MayResend, Types, Posted, Refusals, bounds
<1> QED
  BY <1>1, <1>2, <1>3, <1>4, <1>5, <1>6

(* The steps that only move a tracked run on.                                *)
LEMMA AdvanceKeeps ==
  ASSUME RunsInductive, NEW d \in Dispatches, 
         \/ RefuseAdmission(d) \/ Publish(d) \/ PublishAbandoned(d)
         \/ StopFails(d) \/ StreamFails(d) \/ SettleFails(d)
  PROVE  LedgerInductive'
<1>1. Types'
  BY DEF RefuseAdmission, RunFrame, Publish, PublishAbandoned, StopFails, StreamFails,
         SettleFails, Types, hermes, time, bounds
<1>2. Once' /\ Places'
  BY DEF RefuseAdmission, RunFrame, Publish, PublishAbandoned, StopFails, StreamFails,
         SettleFails, Types, Once, Posted, Places, hermes, time
<1>3. Phases' /\ Writes'
  BY DEF RefuseAdmission, RunFrame, Publish, PublishAbandoned, StopFails, StreamFails,
         SettleFails, Types, Phases, Writes, hermes
<1>4. Noted' /\ Accounted'
  BY DEF RefuseAdmission, RunFrame, Publish, PublishAbandoned, StopFails, StreamFails,
         SettleFails, Types, Noted, Accounted, Posted, MayRun, Named1, hermes
<1>5. Reports'
  BY DEF RefuseAdmission, RunFrame, Publish, PublishAbandoned, StopFails, StreamFails,
         SettleFails, Types, Reports, hermes
<1>6. Refusals'
  BY DEF RefuseAdmission, RunFrame, Publish, PublishAbandoned, StopFails, StreamFails,
         SettleFails, Types, Posted, Refusals, hermes, bounds
<1> QED
  BY <1>1, <1>2, <1>3, <1>4, <1>5, <1>6

(* A run that ended leaves memory.                                           *)
LEMMA StoppedKeeps ==
  ASSUME RunsInductive, NEW d \in Dispatches, Stopped(d)
  PROVE  LedgerInductive'
<1>1. Types'
  BY DEF Stopped, RunFrame, Run, Types, hermes, time, bounds
<1>2. Once' /\ Places'
  BY DEF Stopped, RunFrame, Run, Types, Once, Posted, Places, hermes, time
<1>3. Phases' /\ Writes'
  BY DEF Stopped, RunFrame, Run, Types, Phases, Writes, hermes
<1>4. Noted' /\ Accounted'
  BY DEF Stopped, RunFrame, Run, Types, Places, Phases, Writes, Noted, Once, Accounted,
         Posted, MayRun, Named1, NoSave, hermes
<1>5. Reports'
  BY DEF Stopped, RunFrame, Run, Types, Reports, hermes
<1>6. Refusals'
  BY DEF Stopped, RunFrame, Run, Types, Posted, Refusals, hermes, bounds
<1> QED
  BY <1>1, <1>2, <1>3, <1>4, <1>5, <1>6

(* A recorded run is stopped, or stays for the next start.                   *)
LEMMA RecoverKeeps ==
  ASSUME RunsInductive, NEW d \in Dispatches, Restopped(d) \/ RestopFails(d)
  PROVE  LedgerInductive'
<1>1. Types'
  BY DEF Restopped, RunFrame, Run, RestopFails, Types, hermes, time, bounds
<1>2. Once' /\ Places'
  BY DEF Restopped, RunFrame, Run, RestopFails, Types, Once, Posted, Places, hermes, time
<1>3. Phases' /\ Writes'
  BY DEF Restopped, RunFrame, Run, RestopFails, Types, Phases, Writes, hermes
<1>4. Noted' /\ Accounted'
  BY DEF Restopped, RunFrame, Run, RestopFails, Types, Phases, Noted, Accounted, Posted, MayRun,
         Named1, hermes
<1>5. Reports'
  <2>1. \A e \in Dispatches : pc'[e] \in {"restopped", "refailed"} \/ pc'[e] = pc[e]
    BY DEF Restopped, RestopFails, Types
  <2> QED
    BY <2>1 DEF Restopped, RunFrame, RestopFails, Reports, hermes
<1>6. Refusals'
  BY DEF Restopped, RunFrame, Run, RestopFails, Types, Posted, Refusals, hermes, bounds
<1> QED
  BY <1>1, <1>2, <1>3, <1>4, <1>5, <1>6

(* A lost POST starts nothing.                                               *)
LEMMA LoseKeeps ==
  ASSUME RunsInductive, NEW d \in Dispatches, NEW k \in Nat, Lose(d, k)
  PROVE  LedgerInductive'
<1>1. Types'
  BY DEF Lose, NoAnswer, HermesFrame, Types, time, bounds
<1>2. Once' /\ Places'
  BY DEF Lose, NoAnswer, HermesFrame, Types, Once, Posted, Places, time
<1>3. Phases' /\ Writes'
  BY DEF Lose, NoAnswer, HermesFrame, Types, Phases, Writes
<1>4. Noted' /\ Accounted'
  BY DEF Lose, NoAnswer, HermesFrame, Types, Noted, Accounted, Posted, MayRun, Named1
<1>5. Reports'
  BY DEF Lose, NoAnswer, HermesFrame, Types, Reports
<1>6. Refusals'
  BY DEF Lose, NoAnswer, HermesFrame, Types, Posted, Refusals, bounds
<1> QED
  BY <1>1, <1>2, <1>3, <1>4, <1>5, <1>6

(* Close changes no run.                                                     *)
LEMMA BeginCloseKeeps ==
  ASSUME RunsInductive, BeginClose
  PROVE  LedgerInductive'
<1>1. Types'
  BY DEF BeginClose, HostFrame, Types, said, time
<1>2. Once' /\ Places'
  BY DEF BeginClose, HostFrame, Types, Once, Posted, Places, time
<1>3. Phases' /\ Writes'
  BY DEF BeginClose, HostFrame, Types, Phases, Writes
<1>4. Noted' /\ Accounted'
  BY DEF BeginClose, HostFrame, Types, Noted, Accounted, Posted, MayRun, Named1, said
<1>5. Reports'
  BY DEF BeginClose, HostFrame, Types, Reports, said
<1>6. Refusals'
  BY DEF BeginClose, HostFrame, Types, Posted, Refusals, said
<1> QED
  BY <1>1, <1>2, <1>3, <1>4, <1>5, <1>6

(* Close begins once every dispatch has settled.                             *)
LEMMA EmptyKeeps ==
  ASSUME RunsInductive, Empty
  PROVE  LedgerInductive'
<1>1. Types'
  BY DEF Empty, HostFrame, At, Types, said, time
<1>2. Once' /\ Places'
  BY DEF Empty, HostFrame, At, Types, Once, Posted, Places, time
<1>3. Phases' /\ Writes'
  BY DEF Empty, HostFrame, At, Types, Phases, Writes
<1>4. Noted' /\ Accounted'
  BY DEF Empty, HostFrame, At, Types, Noted, Accounted, Posted, MayRun, Named1, said
<1>5. Reports'
  BY DEF Empty, HostFrame, At, Types, Reports, said
<1>6. Refusals'
  BY DEF Empty, HostFrame, At, Types, Posted, Refusals, said
<1> QED
  BY <1>1, <1>2, <1>3, <1>4, <1>5, <1>6

(* Close goes on to the last write once no run is tracked.                   *)
LEMMA EmptiedKeeps ==
  ASSUME RunsInductive, Emptied
  PROVE  LedgerInductive'
<1>1. Types'
  BY DEF Emptied, HostFrame, At, Types, said, time
<1>2. Once' /\ Places'
  BY DEF Emptied, HostFrame, At, Types, Once, Posted, Places, time
<1>3. Phases' /\ Writes'
  BY DEF Emptied, HostFrame, At, Types, Phases, Writes
<1>4. Noted' /\ Accounted'
  BY DEF Emptied, HostFrame, At, Types, Noted, Accounted, Posted, MayRun, Named1, said
<1>5. Reports'
  BY DEF Emptied, HostFrame, At, Types, Reports, said
<1>6. Refusals'
  BY DEF Emptied, HostFrame, At, Types, Posted, Refusals, said
<1> QED
  BY <1>1, <1>2, <1>3, <1>4, <1>5, <1>6

(* A start drops the entries of runs that ended, and of lost ones, whose   *)
(* report it then owes.                                                    *)
LEMMA SettleRecordKeeps ==
  ASSUME RunsInductive, SettleRecord
  PROVE  LedgerInductive'
<1>1. Types'
  BY DEF SettleRecord, Kept, At, Types, hermes, said, time, bounds
<1>2. Once' /\ Places'
  BY DEF SettleRecord, Types, Once, Posted, Places, hermes, time
<1>3. Phases' /\ Writes'
  BY DEF SettleRecord, Kept, At, Types, Phases, Writes, hermes
<1>4. Noted'
  BY DEF SettleRecord, Types, Phases, Noted
<1>5. Accounted'
  <2> SUFFICES ASSUME NEW d \in Dispatches, MayRun(d)', d \notin (unknown \union unreported \union Owed)'
               PROVE  Named1(d, Kept.pending, Kept.admitted)
    BY DEF SettleRecord, Phases, Accounted, Named1
  <2>1. MayRun(d) /\ d \notin unknown \union unreported /\ pc[d] # "lost"
    BY DEF SettleRecord, MayRun, Posted, At, hermes, said
  <2>2. Named1(d, disk.pending, disk.admitted)
    BY <2>1 DEF SettleRecord, Accounted
  <2>3. pc[d] \in Recovering \union Recovered
    BY <2>2 DEF SettleRecord, Phases, Named1
  <2>4. pc[d] # "restopped"
    BY <2>1 DEF Places, MayRun
  <2>5. pc[d] = "refailed"
    BY <2>1, <2>3, <2>4 DEF SettleRecord, At
  <2> QED
    BY <2>2, <2>5 DEF Named1, Kept, At
<1>6. Reports'
  BY DEF SettleRecord, Types, Reports, hermes, said
<1>7. Refusals'
  BY DEF SettleRecord, Kept, At, Types, Posted, Refusals, hermes, said, bounds
<1> QED
  BY <1>1, <1>2, <1>3, <1>4, <1>5, <1>6, <1>7

(* A start that comes up has reported every dispatch it dropped.           *)
LEMMA ReportSettlementKeeps ==
  ASSUME RunsInductive, ReportSettlement
  PROVE  LedgerInductive'
<1>1. Types'
  BY DEF ReportSettlement, AfterRecovery, At, Types, hermes, time
<1>2. Once' /\ Places'
  BY DEF ReportSettlement, AfterRecovery, Types, Once, Posted, Places, Phases, hermes, time
<1>3. Phases' /\ Writes'
  BY DEF ReportSettlement, AfterRecovery, Types, Phases, Writes, hermes
<1>4. Noted' /\ Accounted'
  BY DEF ReportSettlement, AfterRecovery, NoEntries, Types, Phases, Noted, Accounted, Posted,
         MayRun, Named1, hermes
<1>5. Reports'
  BY DEF ReportSettlement, AfterRecovery, Types, Reports, hermes
<1>6. Refusals'
  BY DEF ReportSettlement, AfterRecovery, Types, Posted, Refusals, hermes
<1> QED
  BY <1>1, <1>2, <1>3, <1>4, <1>5, <1>6

(* A start that cannot write leaves the record as it was.                    *)
LEMMA SettleRecordFailsKeeps ==
  ASSUME RunsInductive, SettleRecordFails
  PROVE  LedgerInductive'
<1>1. Types'
  BY DEF SettleRecordFails, AfterRecovery, Types, hermes, time, bounds
<1>2. Once' /\ Places'
  BY DEF SettleRecordFails, AfterRecovery, At, Types, Once, Posted, Places, Phases, hermes,
         time
<1>3. Phases' /\ Writes'
  BY DEF SettleRecordFails, AfterRecovery, At, Types, Phases, Writes, hermes
<1>4. Noted' /\ Accounted'
  BY DEF SettleRecordFails, AfterRecovery, At, Types, Places, Phases, Writes, Noted, Once,
         Accounted, Posted, MayRun, Named1, NoSave, hermes
<1>5. Reports'
  BY DEF SettleRecordFails, AfterRecovery, At, Types, Reports, hermes
<1>6. Refusals'
  BY DEF SettleRecordFails, AfterRecovery, At, Types, Posted, Refusals, hermes
<1> QED
  BY <1>1, <1>2, <1>3, <1>4, <1>5, <1>6

(* A kill leaves the disk, the wire and Hermes.                              *)
LEMMA CrashKeeps ==
  ASSUME RunsInductive, Crash
  PROVE  LedgerInductive'
<1>1. Types'
  BY DEF Crash, NoSave, Types, hermes, said, time, bounds
<1>2. Once' /\ Places'
  BY DEF Crash, NoSave, Types, Once, Posted, Places, hermes, time
<1>3. Phases' /\ Writes'
  BY DEF Crash, NoSave, Types, Phases, Writes, hermes
<1>4. Noted' /\ Accounted'
  BY DEF Crash, NoSave, Types, Noted, Accounted, Posted, MayRun, Named1, hermes, said
<1>5. Reports'
  BY DEF Crash, NoSave, Types, Reports, hermes, said
<1>6. Refusals'
  BY DEF Crash, NoSave, Types, Posted, Refusals, hermes, said, bounds
<1> QED
  BY <1>1, <1>2, <1>3, <1>4, <1>5, <1>6

(* Time only forbids resends.                                                *)
LEMMA AgeKeeps ==
  ASSUME RunsInductive, NEW d \in Dispatches, Age(d)
  PROVE  LedgerInductive'
<1>1. Types'
  BY DEF Age, Types, memory, hermes, said, bounds
<1>2. Once' /\ Places'
  BY DEF Age, Types, Once, Posted, Places, memory, hermes
<1>3. Phases' /\ Writes'
  BY DEF Age, Types, Phases, Writes, memory, hermes
<1>4. Noted' /\ Accounted'
  BY DEF Age, Types, Noted, Accounted, Posted, MayRun, Named1, memory, hermes, said
<1>5. Reports'
  BY DEF Age, Types, Reports, memory, hermes, said
<1>6. Refusals'
  BY DEF Age, Types, Posted, Refusals, memory, hermes, said, bounds
<1> QED
  BY <1>1, <1>2, <1>3, <1>4, <1>5, <1>6

(* A key is dropped when no POST that bears it is under way.                 *)
LEMMA PruneKeeps ==
  ASSUME RunsInductive, NEW d \in Dispatches, Prune(d)
  PROVE  LedgerInductive'
<1>1. Types'
  BY DEF Prune, Types, memory, said, time, bounds
<1>2. Once' /\ Places'
  BY DEF Prune, Types, Once, Posted, Places, memory, time
<1>3. Phases' /\ Writes'
  BY DEF Prune, Types, Phases, Writes, memory
<1>4. Noted' /\ Accounted'
  BY DEF Prune, Types, Noted, Accounted, Posted, MayRun, Named1, memory, said
<1>5. Reports'
  BY DEF Prune, Types, Reports, memory, said
<1>6. Refusals'
  BY DEF Prune, Types, Posted, Refusals, memory, said, bounds
<1> QED
  BY <1>1, <1>2, <1>3, <1>4, <1>5, <1>6

(* A run that ended needs no entry.                                          *)
LEMMA RunEndsKeeps ==
  ASSUME RunsInductive, NEW d \in Dispatches, RunEnds(d)
  PROVE  LedgerInductive'
<1>1. Types'
  BY DEF RunEnds, Going, Types, memory, said, time, bounds
<1>2. Once' /\ Places'
  BY DEF RunEnds, Going, Types, Once, Posted, Places, memory, time
<1>3. Phases' /\ Writes'
  BY DEF RunEnds, Going, Types, Phases, Writes, memory
<1>4. Noted' /\ Accounted'
  BY DEF RunEnds, Going, Types, Noted, Accounted, Posted, MayRun, Named1, memory, said
<1>5. Reports'
  BY DEF RunEnds, Going, Types, Reports, memory, said
<1>6. Refusals'
  BY DEF RunEnds, Going, Types, Posted, Refusals, memory, said, bounds
<1> QED
  BY <1>1, <1>2, <1>3, <1>4, <1>5, <1>6

(* Durable idempotency only allows keys.                                     *)
LEMMA UpgradeKeeps ==
  ASSUME RunsInductive, Upgrade
  PROVE  LedgerInductive'
<1>1. Types'
  BY DEF Upgrade, Types, memory, said, time, bounds
<1>2. Once' /\ Places'
  BY DEF Upgrade, Types, Once, Posted, Places, memory, time
<1>3. Phases' /\ Writes'
  BY DEF Upgrade, Types, Phases, Writes, memory
<1>4. Noted' /\ Accounted'
  BY DEF Upgrade, Types, Noted, Accounted, Posted, MayRun, Named1, memory, said
<1>5. Reports'
  BY DEF Upgrade, Types, Reports, memory, said
<1>6. Refusals'
  BY DEF Upgrade, Types, Posted, Refusals, memory, said, bounds
<1> QED
  BY <1>1, <1>2, <1>3, <1>4, <1>5, <1>6

-----------------------------------------------------------------------------
(* The end of a run, and the writes of the record.                           *)

(* The end of a run is reported once, and then nothing tracks it.          *)
LEMMA CommitKeeps ==
  ASSUME RunsInductive, NEW d \in Dispatches, pc[d] \in {"live", "settling"}, Run(d) \in ended,
         CommitTerminal(d), RunFrame
  PROVE  LedgerInductive'
<1>1. told[d] = 0 /\ got[d] = 1 /\ starts[d] = 1 /\ <<d, 1>> \in ended
  BY DEF Places, Reports, Run
<1>2. /\ pc'[d] = "ending" /\ told'[d] = 1
      /\ \A e \in Dispatches : e # d => pc'[e] = pc[e] /\ told'[e] = told[e]
  BY <1>1 DEF CommitTerminal, Types
<1>3. Types'
  BY DEF CommitTerminal, RunFrame, Types, hermes, time, bounds
<1>4. Once' /\ Places'
  BY DEF CommitTerminal, RunFrame, Run, Types, Once, Posted, Places, hermes, time
<1>5. Phases' /\ Writes'
  BY DEF CommitTerminal, RunFrame, Run, Types, Places, Phases, Writes, NoSave, hermes
<1>6. Noted' /\ Accounted'
  BY <1>1 DEF CommitTerminal, RunFrame, Run, Types, Noted, Accounted, MayRun, Posted, Named1,
     NoSave, hermes
<1>7. Reports'
  BY <1>1, <1>2 DEF RunFrame, Reports, hermes
<1>8. Refusals'
  BY DEF CommitTerminal, RunFrame, Types, Once, Posted, Places, Refusals, hermes, bounds
<1> QED
  BY <1>3, <1>4, <1>5, <1>6, <1>7, <1>8

(* A write takes what memory holds: the runs it names were started, and a  *)
(* dispatch that waits for it is in it.                                    *)
LEMMA BeginSaveKeeps ==
  ASSUME RunsInductive, NEW o \in Dispatches \union {Session}, BeginSave(o)
  PROVE  LedgerInductive'
<1>1. /\ saver' = [by |-> {o}, pending |-> pend, admitted |-> adm] /\ saver = NoSave
      /\ UNCHANGED <<host, pc, pend, adm, disk, starts>>
  BY DEF BeginSave, hermes
<1>2. Types'
  BY DEF BeginSave, WantsSave, Types, hermes, said, time, bounds
<1>3. Once' /\ Places' /\ Reports'
  BY DEF BeginSave, Once, Posted, Places, Reports, hermes, said, time
<1>4. Phases'
  BY <1>1 DEF BeginSave, WantsSave, Phases, Types
<1>5. Writes'
  <2>1. \A r \in adm : r[2] = 1 /\ starts[r[1]] = 1
    BY DEF Types, Places
  <2>2. CASE o = Session
    <3>1. host = "saving" /\ adm = {}
      BY <2>2 DEF BeginSave, WantsSave, Types, Places, Phases
    <3> QED
      BY <1>1, <2>1, <2>2, <3>1 DEF Writes
  <2>3. CASE o \in Dispatches
    <3>1. pc[o] \in Saving /\ (pc[o] = "ahead" => o \in pend)
      BY <2>3 DEF BeginSave, WantsSave, Places
    <3> QED
      BY <1>1, <2>1, <2>3, <3>1 DEF Writes
  <2> QED
    BY <2>2, <2>3
<1>6. Noted' /\ Accounted'
  <2>1. Up
    BY DEF BeginSave, WantsSave, Types, Phases
  <2> QED
    BY <1>1, <2>1 DEF BeginSave, Noted, Accounted, MayRun, Posted, Named1, hermes, said
<1>7. Refusals'
  BY DEF BeginSave, Types, Places, Refusals, Posted, hermes, said, bounds
<1> QED
  BY <1>2, <1>3, <1>4, <1>5, <1>6, <1>7

(* A write that lands: the disk is what memory was when it began.          *)
LEMMA SaveLandsKeeps ==
  ASSUME RunsInductive, SaveLands
  PROVE  LedgerInductive'
<1>1. /\ saver # NoSave /\ saver' = NoSave
      /\ disk' = [pending |-> saver.pending, admitted |-> saver.admitted]
      /\ UNCHANGED <<got, attempt, told, losses, time, hermes, bounds>>
  BY DEF SaveLands
<1>2. CASE Session \in saver.by /\ AfterLastSave /\ adm' = {}
  <2>1. host = "saving" /\ saver.admitted = {}
    BY <1>1, <1>2 DEF Writes
  <2>2. Types'
    BY <1>1, <1>2 DEF AfterLastSave, Types, NoSave, time, hermes, bounds
  <2>3. Once' /\ Places'
    BY <1>1, <1>2 DEF AfterLastSave, Types, Once, Posted, Places, time, hermes
  <2>4. Phases' /\ Writes'
    BY <1>1, <1>2, <2>1 DEF AfterLastSave, Types, Phases, Writes, NoSave, hermes
  <2>5. Noted' /\ Accounted'
    BY <1>1, <1>2, <2>1 DEF AfterLastSave, Noted, Accounted, MayRun, Posted, Named1, hermes
  <2>6. Reports'
    BY <1>1, <1>2 DEF AfterLastSave, Types, Reports, hermes
  <2>7. Refusals'
    BY <1>1, <1>2, <2>1 DEF AfterLastSave, Types, Phases, Refusals, Posted, NoSave, hermes, bounds
  <2> QED
    BY <2>2, <2>3, <2>4, <2>5, <2>6, <2>7
<1>3. ASSUME NEW d \in Dispatches, d \in saver.by, AfterSave(d), UNCHANGED adm
      PROVE  LedgerInductive'
  <2>1. /\ saver.by = {d} /\ pc[d] \in Saving /\ (pc[d] = "ahead" => d \in saver.pending)
        /\ UNCHANGED <<host, pend, abandoned>>
    BY <1>1, <1>3 DEF Writes, AfterSave
  <2>2. /\ \A e \in Dispatches : e # d => pc'[e] = pc[e]
        /\ pc[d] = "ahead" => pc'[d] = "send"
        /\ pc[d] = "promote" => pc'[d] = "promoted"
        /\ pc[d] \notin {"ahead", "promote"} => pc'[d] = "over"
    BY <1>3 DEF AfterSave, Types
  <2>3. Types'
    BY <1>1, <1>3 DEF AfterSave, Types, NoSave, time, hermes, bounds
  <2>4. Once' /\ Places'
    BY <1>1, <1>3, <2>1, <2>2 DEF Types, Once, Posted, Places, time, hermes
  <2>5. Phases' /\ Writes'
    BY <1>1, <1>3, <2>1, <2>2 DEF Types, Phases, Writes, NoSave, hermes
  <2>6. Noted' /\ Accounted'
    BY <1>1, <1>3, <2>1, <2>2 DEF Types, Places, Phases, Noted, Accounted, MayRun, Posted, Named1, hermes
  <2>7. Reports'
    BY <1>1, <2>1, <2>2 DEF Types, Reports, hermes
  <2>8. Refusals'
    BY <1>1, <1>3, <2>1, <2>2 DEF AfterSave, Types, Once, Refusals, Posted, NoSave, hermes, bounds
  <2> QED
    BY <2>3, <2>4, <2>5, <2>6, <2>7, <2>8
<1> QED
  BY <1>2, <1>3 DEF SaveLands

(* A write that fails: the disk still holds what it held.                  *)
LEMMA SaveFailsKeeps ==
  ASSUME RunsInductive, SaveFails
  PROVE  LedgerInductive'
<1>1. /\ saver # NoSave /\ saver' = NoSave
      /\ failedSaves' = failedSaves + 1 /\ failedSaves' # 0
      /\ UNCHANGED <<got, attempt, disk, told, losses, time, hermes, restarts>>
  BY DEF SaveFails, Types
<1>2. CASE Session \in saver.by /\ AfterLastSave /\ adm' = {}
  <2>1. host = "saving"
    BY <1>1, <1>2 DEF Writes
  <2>2. Types'
    BY <1>1, <1>2 DEF AfterLastSave, Types, NoSave, time, hermes
  <2>3. Once' /\ Places'
    BY <1>1, <1>2 DEF AfterLastSave, Types, Once, Posted, Places, time, hermes
  <2>4. Phases' /\ Writes'
    BY <1>1, <1>2, <2>1 DEF AfterLastSave, Types, Phases, Writes, NoSave, hermes
  <2>5. Noted' /\ Accounted'
    <3>1. adm = {}
      BY <2>1 DEF Types, Places, Phases
    <3>2. \A d \in pend : d \in disk.pending
      BY <2>1 DEF Types, Phases, Noted
    <3> QED
      BY <1>1, <1>2, <2>1, <3>1, <3>2
      DEF AfterLastSave, Noted, Accounted, MayRun, Posted, Named1, hermes
  <2>6. Reports'
    BY <1>1, <1>2 DEF AfterLastSave, Types, Reports, hermes
  <2>7. Refusals'
    BY <1>1, <1>2, <2>1 DEF AfterLastSave, Types, Phases, Refusals, NoSave
  <2> QED
    BY <2>2, <2>3, <2>4, <2>5, <2>6, <2>7
<1>3. ASSUME NEW d \in Dispatches, d \in saver.by, AfterFailedSave(d), UNCHANGED adm
      PROVE  LedgerInductive'
  <2>1. /\ saver.by = {d} /\ pc[d] \in Saving /\ UNCHANGED <<host, abandoned>>
        /\ pend' = IF pc[d] = "ahead" THEN pend \ {d} ELSE pend
    BY <1>1, <1>3 DEF Writes, AfterFailedSave
  <2>2. /\ \A e \in Dispatches : e # d => pc'[e] = pc[e]
        /\ pc[d] = "promote" => pc'[d] = "stopping"
        /\ pc[d] # "promote" => pc'[d] = "over"
    BY <1>3 DEF AfterFailedSave, Types
  <2>3. Types'
    BY <1>1, <1>3 DEF AfterFailedSave, Types, NoSave, time, hermes
  <2>4. Once' /\ Places'
    BY <1>1, <1>3, <2>1, <2>2 DEF Types, Once, Posted, Places, time, hermes
  <2>5. Phases' /\ Writes'
    BY <1>1, <1>3, <2>1, <2>2 DEF Types, Phases, Writes, NoSave, hermes
  <2>6. Noted' /\ Accounted'
    BY <1>1, <1>3, <2>1, <2>2
    DEF Types, Once, Places, Noted, Accounted, MayRun, Posted, Named1, hermes
  <2>7. Reports'
    BY <1>1, <2>1, <2>2 DEF Types, Reports, hermes
  <2>8. Refusals'
    BY <1>1, <2>1, <2>2 DEF Types, Refusals, NoSave
  <2> QED
    BY <2>3, <2>4, <2>5, <2>6, <2>7, <2>8
<1> QED
  BY <1>2, <1>3 DEF SaveFails

-----------------------------------------------------------------------------
(* Hermes' answers, and the start.                                           *)

(* Hermes handles a POST: the work starts only if it never did, and then   *)
(* the record on disk and in memory already hold the dispatch.             *)
LEMMA AdmitKeeps ==
  ASSUME RunsInductive, NEW d \in Dispatches, NEW k \in Nat, Admit(d, k)
  PROVE  LedgerInductive'
<1>1. Types'
  BY DEF Admit, Waits, Named, Puzzled, NoAnswer, HermesFrame, Types, Once, said, time, bounds
<1>2. Once'
  BY DEF Admit, Waits, Named, Puzzled, NoAnswer, HermesFrame, Types, Once, Posted, time
<1>3. Places'
  BY DEF Admit, Waits, Named, Puzzled, NoAnswer, HermesFrame, Types, Once, Posted, Places, Phases
<1>4. Phases' /\ Writes'
  BY DEF Admit, Waits, Named, Puzzled, NoAnswer, HermesFrame, Types, Once, Posted, Places, Phases,
     Writes, NoSave
<1>5. Noted'
  BY DEF Admit, Waits, Named, Puzzled, NoAnswer, HermesFrame, Types, Noted
<1>6. Accounted'
  <2>1. Posted(d) /\ starts'[d] = 1 /\ \A e \in Dispatches : e # d => starts'[e] = starts[e]
    BY <1>1 DEF Admit, Types, Once, Posted
  <2>2. \A e \in Dispatches : MayRun(e)' => MayRun(e)
    BY <2>1 DEF Admit, HermesFrame, Types, Once, Posted, MayRun
  <2>3. \A e \in Dispatches : Named1(e, pend, adm) => Named1(e, pend', adm')
    <3>1. CASE UNCHANGED <<pend, adm>>
      BY <3>1
    <3>2. CASE pend' = pend \ {d} /\ adm' = adm \union {<<d, 1>>}
      BY <3>2 DEF Named1
    <3> QED
      BY <2>1, <3>1, <3>2 DEF Admit, Named, Puzzled, NoAnswer
  <2>4. UNCHANGED <<host, losses, saver, disk>>
    BY DEF Admit, HermesFrame
  <2>5. Owed' = Owed
    <3>1. host = "reporting" => pc[d] \in {"new", "over"} \union Recovered
      BY DEF Phases
    <3>2. host = "reporting" => UNCHANGED pc
      BY <3>1 DEF Admit, Waits, NoAnswer
    <3> QED
      BY <2>4, <3>2
  <2> QED
    BY <2>2, <2>3, <2>4, <2>5 DEF Accounted
<1>7. Reports'
  <2>1. Posted(d) /\ starts' \in [Dispatches -> Nat] /\ starts'[d] = 1
        /\ \A e \in Dispatches : e # d => starts'[e] = starts[e]
    BY <1>1 DEF Admit, Types, Once, Posted
  <2>2. \A e \in Dispatches : pc'[e] \in {"new"} \union Early \union Tracked =>
          pc[e] \in {"new"} \union Early \union Tracked
    BY DEF Admit, Waits, Named, Puzzled, NoAnswer, HermesFrame, Types
  <2> QED
    BY <2>1, <2>2 DEF Admit, HermesFrame, Reports
<1>8. Refusals'
  BY DEF Admit, Waits, Named, Puzzled, NoAnswer, HermesFrame, Types, Once, Posted, Places, Writes,
     Refusals, NoSave, bounds
<1> QED
  BY <1>1, <1>2, <1>3, <1>4, <1>5, <1>6, <1>7, <1>8

(* A refusal of the only POST means that the work never starts.            *)
LEMMA RefuseKeeps ==
  ASSUME RunsInductive, NEW d \in Dispatches, NEW k \in Nat, Refuse(d, k)
  PROVE  LedgerInductive'
<1>1. Types'
  BY DEF Refuse, Waits, Refused, Puzzled, NoAnswer, HermesFrame, Types, said, time, bounds
<1>2. Once' /\ Places'
  BY DEF Refuse, Waits, Refused, Puzzled, NoAnswer, HermesFrame, Types, Once, Posted, Places, time
<1>3. Phases' /\ Writes'
  BY DEF Refuse, Waits, Refused, Puzzled, NoAnswer, HermesFrame, Types, Phases, Writes, NoSave
<1>4. Noted' /\ Accounted'
  BY DEF Refuse, Waits, Refused, Puzzled, NoAnswer, HermesFrame, Types, Once, Posted, Noted,
     Accounted, MayRun, Named1
<1>5. Reports'
  BY DEF Refuse, Waits, Refused, Puzzled, NoAnswer, HermesFrame, Types, Reports
<1>6. Refusals'
  BY DEF Refuse, Waits, Refused, Puzzled, NoAnswer, HermesFrame, Types, Once, Posted, Places, Writes,
     Refusals, NoSave, bounds
<1> QED
  BY <1>1, <1>2, <1>3, <1>4, <1>5, <1>6

(* A start replays only what Hermes can answer without starting it again,  *)
(* and a session that comes up at once had an empty record.                *)
LEMMA StartKeeps ==
  ASSUME RunsInductive, Start
  PROVE  LedgerInductive'
<1>1. \A d \in Dispatches : AdmittedOf(d) # {} =>
        (CHOOSE r \in AdmittedOf(d) : TRUE)[2] = 1 /\ starts[d] = 1 /\ <<d, 1>> \in disk.admitted
  <2> SUFFICES ASSUME NEW d \in Dispatches, AdmittedOf(d) # {}
               PROVE  /\ (CHOOSE r \in AdmittedOf(d) : TRUE)[2] = 1
                      /\ starts[d] = 1 /\ <<d, 1>> \in disk.admitted
    OBVIOUS
  <2> DEFINE c == CHOOSE r \in AdmittedOf(d) : TRUE
  <2>1. c \in AdmittedOf(d)
    OBVIOUS
  <2> HIDE DEF c
  <2>2. c[2] = 1 /\ starts[d] = 1 /\ <<d, 1>> \in disk.admitted
    BY <2>1 DEF AdmittedOf, Types, Writes
  <2> QED
    BY <2>2 DEF c
<1>2. /\ host \in {"down", "closed"} /\ pend = {} /\ adm = {} /\ saver = NoSave
      /\ host' = IF disk = NoEntries THEN "started" ELSE "settling"
      /\ UNCHANGED <<abandoned, pend, adm, saver, disk, said, time, durable, retained, starts,
                     ended, failedSaves>>
  BY DEF Start, Phases
<1>3. Types'
  <2>1. \A d \in Dispatches : got'[d] \in Nat
    BY <1>1 DEF Start, Types
  <2>2. got' \in [Dispatches -> Nat]
    BY <2>1 DEF Start
  <2>3. attempt' \in [Dispatches -> Nat] /\ wire' \subseteq Runs
    BY DEF Start, Types
  <2>4. pc' \in [Dispatches -> Stages] /\ host' \in Hosts /\ restarts' \in Nat
    BY DEF Start, Types
  <2> QED
    BY <1>2, <2>2, <2>3, <2>4 DEF Types, said, time
<1>4. Once'
  BY <1>2 DEF Start, Types, Once, Posted, Replays, MayResend, time
<1>5. Places'
  BY <1>1, <1>2 DEF Start, Types, Places
<1>6. Phases'
  BY <1>2 DEF Start, Types, Phases, AdmittedOf, NoEntries, Replays
<1>7. Writes' /\ Noted'
  BY <1>2 DEF Writes, Noted, NoSave
<1>8. Accounted'
  BY <1>2 DEF Start, Types, Accounted, MayRun, Posted, Named1, Replays, NoEntries, said
<1>9. Reports'
  <2>1. \A d \in Dispatches : pc'[d] \in {"restopping", "replaying", "lost", pc[d]}
    BY DEF Start, Types
  <2> QED
    BY <1>2, <2>1 DEF Reports, said
<1>10. Refusals'
  <2>1. \A d \in disk.pending : pc'[d] # "new"
    BY DEF Start, Types, Refusals
  <2>2. \A d \in Dispatches : pc'[d] # "refused"
    BY <1>2 DEF Start, Types, Phases
  <2>3. ASSUME NEW d \in Dispatches, starts[d] = 0, d \notin disk.pending
        PROVE  pc'[d] = pc[d]
    <3>1. AdmittedOf(d) = {} /\ ~Replays(d)
      BY <2>3 DEF Replays, AdmittedOf, Types, Writes
    <3> QED
      BY <2>3, <3>1 DEF Start, Types
  <2>4. \A d \in Dispatches : d \notin disk.pending /\ Posted(d)' => Posted(d)
    BY DEF Start, Types, Replays, Posted
  <2> QED
    BY <1>2, <2>1, <2>2, <2>3, <2>4 DEF Refusals, NoSave, said
<1> QED
  BY <1>3, <1>4, <1>5, <1>6, <1>7, <1>8, <1>9, <1>10

-----------------------------------------------------------------------------
(* The slots: finite sets no larger than MaxActive.                        *)

(* Removing entries keeps them within the slots.                           *)
LEMMA FitsShrinks ==
  ASSUME NEW p, NEW a, Fits(p, a), NEW q \in SUBSET p, NEW b \in SUBSET a
  PROVE  Fits(q, b)
<1>1. IsFiniteSet(q) /\ Cardinality(q) <= Cardinality(p)
  BY FS_Subset DEF Fits
<1>2. IsFiniteSet(b) /\ Cardinality(b) <= Cardinality(a)
  BY FS_Subset DEF Fits
<1>3. /\ Cardinality(q) \in Nat /\ Cardinality(b) \in Nat
      /\ Cardinality(p) \in Nat /\ Cardinality(a) \in Nat
  BY <1>1, <1>2, FS_CardinalityType DEF Fits
<1> QED
  BY <1>1, <1>2, <1>3 DEF Fits

(* A free slot takes one entry more.                                       *)
LEMMA FitsGrows ==
  ASSUME NEW p, NEW a, Fits(p, a), NEW d, ~(Cardinality(p) + Cardinality(a) >= MaxActive)
  PROVE  Fits(p \union {d}, a)
<1>1. /\ IsFiniteSet(p \union {d})
      /\ Cardinality(p \union {d}) = IF d \in p THEN Cardinality(p) ELSE Cardinality(p) + 1
  BY FS_AddElement DEF Fits
<1>2. Cardinality(p) \in Nat /\ Cardinality(a) \in Nat
  BY FS_CardinalityType DEF Fits
<1> QED
  BY <1>1, <1>2 DEF Fits

(* An admitted run takes the slot of its pending entry.                    *)
LEMMA FitsSwaps ==
  ASSUME NEW p, NEW a, Fits(p, a), NEW d \in p, NEW r
  PROVE  Fits(p \ {d}, a \union {r})
<1>1. IsFiniteSet(p \ {d}) /\ Cardinality(p \ {d}) = Cardinality(p) - 1
  BY FS_RemoveElement DEF Fits
<1>2. /\ IsFiniteSet(a \union {r})
      /\ Cardinality(a \union {r}) = IF r \in a THEN Cardinality(a) ELSE Cardinality(a) + 1
  BY FS_AddElement DEF Fits
<1>3. Cardinality(p) \in Nat /\ Cardinality(a) \in Nat
  BY FS_CardinalityType DEF Fits
<1> QED
  BY <1>1, <1>2, <1>3 DEF Fits

(* What a step may do to the record in memory, in the write and on disk,   *)
(* to what was reported, and to the runs.                                  *)
LEMMA StepShape ==
  ASSUME Next
  PROVE  /\ \/ pend' \subseteq pend /\ adm' \subseteq adm
            \/ \E d \in Dispatches : Dispatch(d)
            \/ \E w \in wire : Admit(w[1], w[2])
         /\ \/ saver' \in {saver, NoSave}
            \/ saver'.pending = pend /\ saver'.admitted = adm
         /\ disk' = disk \/ SaveLands \/ SettleRecord
         /\ UNCHANGED losses \/ ReportSettlement \/ Crash
         /\ host' = "reporting" => host = "reporting" \/ SettleRecord
         /\ starts' = starts \/ \E w \in wire : Admit(w[1], w[2])
         /\ ended' = ended \/ \E d \in Dispatches : RunEnds(d)
<1>1. CASE \E d \in Dispatches : SendStep(d) \/ Age(d)
  BY <1>1 DEF SendStep, RefuseDispatch, Dispatch, ReadinessFails, Post, Abandon, NoResponse, Puzzled,
     Age, memory, said, time, hermes
<1>2. CASE \E d \in Dispatches : RunStep(d)
  BY <1>2 DEF RunStep, RefuseAdmission, Publish, PublishAbandoned, Stopped, StopFails, StreamEnds,
     StreamFails, Settled, SettleFails, CommitTerminal, RunFrame, hermes
<1>3. CASE Write
  BY <1>3 DEF Write, BeginSave, SaveLands, SaveFails, AfterSave, AfterFailedSave, AfterLastSave,
     said, hermes
<1>4. CASE CloseStep
  BY <1>4 DEF CloseStep, BeginClose, Empty, Emptied, HostFrame, said
<1>5. CASE StartStep
  BY <1>5 DEF StartStep, Start, SettleRecord, SettleRecordFails, ReportSettlement, AfterRecovery,
     Restopped, RestopFails, RunFrame, said, hermes
<1>6. CASE HermesStep
  <2>1. CASE \E w \in wire : Admit(w[1], w[2])
    BY <2>1 DEF Admit, HermesFrame
  <2>2. CASE \E w \in wire : Refuse(w[1], w[2]) \/ Lose(w[1], w[2])
    BY <2>2 DEF Refuse, Refused, Lose, Puzzled, NoAnswer, HermesFrame
  <2>3. CASE (\E d \in Dispatches : Prune(d) \/ RunEnds(d)) \/ Upgrade
    BY <2>3 DEF Prune, RunEnds, Upgrade, memory, said
  <2> QED
    BY <1>6, <2>1, <2>2, <2>3 DEF HermesStep
<1>7. CASE Crash
  BY <1>7 DEF Crash, said, hermes
<1> QED
  BY <1>1, <1>2, <1>3, <1>4, <1>5, <1>6, <1>7 DEF Next

(* No step overfills the record: a dispatch takes a free slot, a promotion *)
(* swaps, everything else copies or removes.                               *)
LEMMA SlotsStep ==
  ASSUME RunsInductive, Next
  PROVE  Slots'
<1>1. Fits(pend, adm) /\ Fits(saver.pending, saver.admitted) /\ Fits(disk.pending, disk.admitted)
  BY DEF Slots
<1>2. Fits(pend', adm')
  <2>1. CASE pend' \subseteq pend /\ adm' \subseteq adm
    BY <1>1, <2>1, FitsShrinks
  <2>2. CASE \E d \in Dispatches : Dispatch(d)
    <3> SUFFICES ASSUME NEW d \in Dispatches, Dispatch(d) PROVE Fits(pend', adm')
      BY <2>2
    <3>1. /\ pend' = pend \union {d} /\ adm' = adm
          /\ ~(Cardinality(pend) + Cardinality(adm) >= MaxActive)
      BY DEF Dispatch, Full, Recorded
    <3> QED
      BY <1>1, <3>1, FitsGrows, Zenon
  <2>3. ASSUME NEW d \in Dispatches, NEW k \in Nat, Admit(d, k)
        PROVE  Fits(pend', adm')
    <3>1. CASE UNCHANGED <<pend, adm>>
      BY <1>1, <3>1
    <3>2. CASE Waits(d, k) /\ Named(d, starts'[d]) /\ pc[d] # "replaying"
      <4>1. d \in pend
        BY <3>2 DEF Waits, Places
      <4>2. pend' = pend \ {d} /\ adm' = adm \union {<<d, starts'[d]>>}
        BY <3>2 DEF Named
      <4> QED
        BY <1>1, <4>1, <4>2, FitsSwaps, Zenon
    <3> QED
      BY <2>3, <3>1, <3>2 DEF Admit, Named, Puzzled, NoAnswer
  <2>4. \A w \in wire : w[1] \in Dispatches /\ w[2] \in Nat
    BY DEF Types
  <2> QED
    BY <2>1, <2>2, <2>3, <2>4, StepShape
<1>3. Fits(saver'.pending, saver'.admitted)
  <2>1. Fits({}, {})
    BY <1>1, FitsShrinks
  <2> QED
    BY <1>1, <2>1, StepShape DEF NoSave
<1>4. Fits(disk'.pending, disk'.admitted)
  <2>1. CASE UNCHANGED disk
    BY <1>1, <2>1
  <2>2. CASE SaveLands
    BY <1>1, <2>2 DEF SaveLands
  <2>3. CASE SettleRecord
    <3>1. disk'.pending \in SUBSET disk.pending /\ disk'.admitted \in SUBSET disk.admitted
      BY <2>3 DEF SettleRecord, Kept
    <3> QED
      BY <1>1, <3>1, FitsShrinks
  <2> QED
    BY <2>1, <2>2, <2>3, StepShape
<1> QED
  BY <1>2, <1>3, <1>4 DEF Slots

-----------------------------------------------------------------------------
(* A note that was given up stays given up.                                *)

(* No step makes a dispatch new again.                                     *)
LEMMA NewIsFirst ==
  ASSUME RunsInductive, Next, NEW e \in Dispatches, pc[e] # "new"
  PROVE  pc'[e] # "new"
<1> USE DEF Types
<1>1. CASE \E d \in Dispatches : SendStep(d) \/ Age(d)
  BY <1>1 DEF SendStep, RefuseDispatch, Dispatch, ReadinessFails, Post, Abandon, NoResponse, Puzzled,
     Age, memory
<1>2. CASE \E d \in Dispatches : RunStep(d)
  BY <1>2 DEF RunStep, RefuseAdmission, Publish, PublishAbandoned, Stopped, StopFails, StreamEnds,
     StreamFails, Settled, SettleFails, CommitTerminal
<1>3. CASE Write
  BY <1>3 DEF Write, BeginSave, SaveLands, SaveFails, AfterSave, AfterFailedSave, AfterLastSave
<1>4. CASE CloseStep
  BY <1>4 DEF CloseStep, BeginClose, Empty, Emptied
<1>5. CASE StartStep
  BY <1>5 DEF StartStep, Start, SettleRecord, SettleRecordFails, ReportSettlement, AfterRecovery,
     Restopped, RestopFails
<1>6. CASE HermesStep
  <2>1. \A w \in wire : w[1] \in Dispatches
    OBVIOUS
  <2>2. CASE \E w \in wire : Admit(w[1], w[2])
    BY <2>1, <2>2 DEF Admit, Named, Puzzled, NoAnswer
  <2>3. CASE \E w \in wire : Refuse(w[1], w[2]) \/ Lose(w[1], w[2])
    BY <2>1, <2>3 DEF Refuse, Refused, Lose, Puzzled, NoAnswer
  <2>4. CASE (\E d \in Dispatches : Prune(d) \/ RunEnds(d)) \/ Upgrade
    BY <2>4 DEF Prune, RunEnds, Upgrade, memory
  <2> QED
    BY <1>6, <2>2, <2>3, <2>4 DEF HermesStep
<1>7. CASE Crash
  BY <1>7 DEF Crash
<1> QED
  BY <1>1, <1>2, <1>3, <1>4, <1>5, <1>6, <1>7 DEF Next

(* While a report is due, nothing but it or a kill touches the start.      *)
LEMMA ReportIsNext ==
  ASSUME RunsInductive, Next, host = "reporting"
  PROVE  ReportSettlement \/ Crash \/ UNCHANGED <<host, pc>>
<1>1. /\ \A d \in Dispatches : pc[d] \in {"new", "over"} \union Recovered
      /\ saver = NoSave
  BY DEF RunsInductive, LedgerInductive, Phases
<1>2. CASE \E d \in Dispatches : SendStep(d) \/ Age(d)
  BY <1>1, <1>2 DEF SendStep, RefuseDispatch, Dispatch, ReadinessFails, Post, Abandon, NoResponse,
     Age, memory
<1>3. CASE \E d \in Dispatches : RunStep(d)
  BY <1>1, <1>3 DEF RunStep, RefuseAdmission, Publish, PublishAbandoned, Stopped, StopFails,
     StreamEnds, StreamFails, Settled, SettleFails
<1>4. CASE Write
  BY <1>1, <1>4 DEF Write, BeginSave, SaveLands, SaveFails
<1>5. CASE CloseStep
  BY <1>5 DEF CloseStep, BeginClose, Empty, Emptied
<1>6. CASE StartStep
  BY <1>1, <1>6 DEF StartStep, Start, SettleRecord, SettleRecordFails, Restopped, RestopFails
<1>7. CASE HermesStep
  <2>1. CASE \E w \in wire : Admit(w[1], w[2]) \/ Refuse(w[1], w[2]) \/ Lose(w[1], w[2])
    <3>1. \A w \in wire : w[1] \in Dispatches
      BY DEF RunsInductive, LedgerInductive, Types
    <3> QED
      BY <1>1, <2>1, <3>1 DEF Admit, Refuse, Lose, Waits, NoAnswer, HermesFrame
  <2>2. CASE (\E d \in Dispatches : Prune(d) \/ RunEnds(d)) \/ Upgrade
    BY <2>2 DEF Prune, RunEnds, Upgrade, memory
  <2> QED
    BY <1>7, <2>1, <2>2 DEF HermesStep
<1> QED
  BY <1>2, <1>3, <1>4, <1>5, <1>6, <1>7 DEF Next

(* What is owed changes only with a settled record, its report and a kill. *)
LEMMA OwedStays ==
  ASSUME RunsInductive, Next, ~SettleRecord, ~ReportSettlement, ~Crash
  PROVE  Owed' = Owed
<1>1. CASE host = "reporting"
  <2>1. UNCHANGED <<host, pc>>
    BY <1>1, ReportIsNext
  <2> QED
    BY <2>1 DEF At
<1>2. CASE host # "reporting"
  BY <1>2, StepShape
<1> QED
  BY <1>1, <1>2

(* No record names a dispatch that a start gave up: no step notes a        *)
(* dispatch that is not new, and every write copies a record.              *)
LEMMA DroppedStep ==
  ASSUME RunsInductive, Next
  PROVE  Dropped'
<1> SUFFICES ASSUME NEW d \in Dispatches, d \in (unknown \union unreported \union Owed)'
             PROVE  /\ pc'[d] # "new"
                    /\ Unnamed(d, pend', adm') /\ Unnamed(d, saver'.pending, saver'.admitted)
                    /\ Unnamed(d, disk'.pending, disk'.admitted)
  BY DEF Dropped
<1>1. CASE SettleRecord /\ d \in Owed'
  BY <1>1 DEF SettleRecord, Kept, Phases, Unnamed, NoSave, Types
<1>2. CASE ~(SettleRecord /\ d \in Owed')
  <2>1. d \in unknown \union unreported \union Owed
    <3>1. CASE SettleRecord
      BY <1>2, <3>1 DEF SettleRecord, said
    <3>2. CASE ReportSettlement
      BY <3>2 DEF ReportSettlement, AfterRecovery
    <3>3. CASE Crash
      BY <3>3 DEF Crash
    <3> QED
      BY <3>1, <3>2, <3>3, OwedStays, StepShape
  <2>2. /\ pc[d] # "new" /\ Unnamed(d, pend, adm)
        /\ Unnamed(d, saver.pending, saver.admitted) /\ Unnamed(d, disk.pending, disk.admitted)
    BY <2>1 DEF Dropped
  <2>3. pc'[d] # "new"
    BY <2>2, NewIsFirst
  <2>4. Unnamed(d, pend', adm')
    <3>1. CASE pend' \subseteq pend /\ adm' \subseteq adm
      BY <2>2, <3>1 DEF Unnamed
    <3>2. CASE \E e \in Dispatches : Dispatch(e)
      BY <2>2, <3>2 DEF Dispatch, Unnamed
    <3>3. CASE \E w \in wire : Admit(w[1], w[2])
      <4> SUFFICES ASSUME NEW w \in wire, Admit(w[1], w[2]) PROVE Unnamed(d, pend', adm')
        BY <3>3
      <4>1. w[1] \in Dispatches
        BY DEF Types
      <4>2. CASE UNCHANGED <<pend, adm>>
        BY <2>2, <4>2
      <4>3. CASE /\ pc[w[1]] \in {"post", "resend"}
                 /\ pend' = pend \ {w[1]} /\ adm' = adm \union {<<w[1], starts'[w[1]]>>}
        <5>1. w[1] \in pend
          BY <4>1, <4>3 DEF Places
        <5> QED
          BY <2>2, <4>3, <5>1 DEF Unnamed
      <4> QED
        BY <4>2, <4>3 DEF Admit, Waits, Named, Puzzled, NoAnswer
    <3> QED
      BY <3>1, <3>2, <3>3, StepShape
  <2>5. Unnamed(d, saver'.pending, saver'.admitted)
    BY <2>2, StepShape DEF Unnamed, NoSave
  <2>6. Unnamed(d, disk'.pending, disk'.admitted)
    BY <2>2, StepShape DEF SaveLands, SettleRecord, Kept, Unnamed
  <2> QED
    BY <2>3, <2>4, <2>5, <2>6
<1> QED
  BY <1>1, <1>2

-----------------------------------------------------------------------------
(* The inductive invariant.                                                *)

(* A host that never ran: an empty record and no run.                        *)
LEMMA RunsInit == Init => RunsInductive
<1> SUFFICES ASSUME Init PROVE RunsInductive
  OBVIOUS
<1>1. Types
  BY DEF Init, Types, NoSave, NoEntries
<1>2. Once /\ Places /\ Phases
  BY DEF Init, Once, Posted, Places, Phases, NoEntries
<1>3. Writes /\ Noted /\ Accounted /\ Reports /\ Refusals
  BY DEF Init, Writes, Noted, Accounted, MayRun, Posted, Reports, Refusals, NoSave, NoEntries
<1>4. Slots
  BY FS_EmptySet DEF Init, Slots, Fits, NoSave, NoEntries
<1>5. Dropped
  BY DEF Init, Dropped, Unnamed, NoSave, NoEntries
<1> QED
  BY <1>1, <1>2, <1>3, <1>4, <1>5

(* Every step keeps the parts about the ledger.                              *)
LEMMA LedgerStep ==
  ASSUME RunsInductive, Next
  PROVE  LedgerInductive'
<1>1. CASE \E d \in Dispatches : SendStep(d) \/ Age(d)
  BY <1>1, RefuseDispatchKeeps, DispatchKeeps, ReadinessFailsKeeps, PostKeeps, AbandonKeeps,
     NoResponseKeeps, AgeKeeps, Zenon DEF SendStep
<1>2. CASE \E d \in Dispatches : RunStep(d)
  <2> SUFFICES ASSUME NEW d \in Dispatches, RunStep(d) PROVE LedgerInductive'
    BY <1>2
  <2>1. CASE StreamEnds(d) \/ Settled(d)
    BY <2>1, CommitKeeps DEF StreamEnds, Settled
  <2> QED
    BY <2>1, AdvanceKeeps, StoppedKeeps, Zenon DEF RunStep
<1>3. CASE Write
  BY <1>3, BeginSaveKeeps, SaveLandsKeeps, SaveFailsKeeps, Zenon DEF Write
<1>4. CASE CloseStep
  BY <1>4, BeginCloseKeeps, EmptyKeeps, EmptiedKeeps, Zenon DEF CloseStep
<1>5. CASE StartStep
  BY <1>5, StartKeeps, SettleRecordKeeps, SettleRecordFailsKeeps,
     ReportSettlementKeeps, RecoverKeeps, Zenon DEF StartStep
<1>6. CASE HermesStep
  <2>1. \A w \in wire : w[1] \in Dispatches /\ w[2] \in Nat
    BY DEF Types
  <2> QED
    BY <1>6, <2>1, AdmitKeeps, RefuseKeeps, LoseKeeps, PruneKeeps, RunEndsKeeps, UpgradeKeeps, Zenon
    DEF HermesStep
<1>7. CASE Crash
  BY <1>7, CrashKeeps
<1> QED
  BY <1>1, <1>2, <1>3, <1>4, <1>5, <1>6, <1>7 DEF Next

(* A step of something else keeps the invariant.                             *)
LEMMA StutterKeeps ==
  ASSUME RunsInductive, UNCHANGED vars
  PROVE  RunsInductive'
<1>1. Types' /\ Once' /\ Places' /\ Phases'
  BY DEF vars, memory, hermes, said, time, bounds, Types, Once, Posted, Places, Phases
<1>2. Writes' /\ Noted' /\ Accounted' /\ Reports' /\ Refusals'
  BY DEF vars, memory, hermes, said, time, bounds, Writes, Noted, Accounted, MayRun, Posted, Reports,
     Refusals
<1>3. Slots'
  BY DEF vars, memory, Slots
<1>4. Dropped'
  BY DEF vars, memory, said, Dropped
<1> QED
  BY <1>1, <1>2, <1>3, <1>4

HIDE DEF RunsInductive, LedgerInductive

(* Every reachable state is typed, and every run that is going, or that a  *)
(* POST on its way may start, is accounted for in memory, in the write in  *)
(* progress and on disk, unless a start gave its note up: then that start  *)
(* has reported it, or owes the report, or was killed while it owed it     *)
(* (dispatch, _submit_run, _persist_record_owned, _settle_run_record).     *)
THEOREM RunsInvariant == Spec => []RunsInductive
<1>1. RunsInductive /\ [Next]_vars => RunsInductive'
  BY LedgerStep, SlotsStep, DroppedStep, StutterKeeps DEF RunsInductive
<1> QED
  BY <1>1, RunsInit, PTL DEF Spec

(* A run that is going is the first of its dispatch, so the invariant      *)
(* speaks of it.                                                           *)
LEMMA GoingMayRun ==
  ASSUME RunsInductive, NEW d \in Dispatches
  PROVE  /\ Going(d) \subseteq {<<d, 1>>}
         /\ Going(d) # {} <=> starts[d] = 1 /\ <<d, 1>> \notin ended
         /\ Going(d) # {} => MayRun(d)
         /\ starts[d] \in {0, 1}
<1>1. starts[d] \in {0, 1}
  BY DEF RunsInductive, LedgerInductive, Types, Once
<1>2. CASE starts[d] = 0
  BY <1>2 DEF Going, MayRun
<1>3. CASE starts[d] = 1
  BY <1>3 DEF Going, MayRun
<1> QED
  BY <1>1, <1>2, <1>3

(* A session that is up has every run that is going in its record, unless  *)
(* a start reported it as of unknown outcome or was killed between         *)
(* dropping its note and reporting it (start, _settle_run_record).         *)
THEOREM UpKnowsItsRuns == Spec => []StartedClean
<1>1. RunsInductive => StartedClean
  <2> SUFFICES ASSUME RunsInductive, Up, NEW d \in Dispatches, Going(d) # {}
               PROVE  d \in pend \union unknown \union unreported \/ Going(d) \subseteq adm
    BY DEF StartedClean
  <2> QED
    BY GoingMayRun DEF RunsInductive, LedgerInductive, Accounted, Named1
<1> QED
  BY <1>1, RunsInvariant, PTL

(* After a close without an error nothing is going but what the record     *)
(* holds as of unknown outcome, what a start reported as such, and what a  *)
(* start was killed before it could report (_close_owned).                 *)
THEOREM CloseLeavesNothing == Spec => []CloseClean
<1>1. RunsInductive => CloseClean
  <2> SUFFICES ASSUME RunsInductive, host = "closed", NEW d \in Dispatches, Going(d) # {}
               PROVE  d \in disk.pending \union unknown \union unreported
    BY DEF CloseClean
  <2> QED
    BY GoingMayRun DEF RunsInductive, LedgerInductive, Accounted
<1> QED
  BY <1>1, RunsInvariant, PTL

(* The end of a run is reported once, when the run has ended, and nothing  *)
(* starts the work again (_commit_terminal, _settle_recorded_dispatch).    *)
THEOREM ReportIsFinal == Spec => []ReportedIsOver
<1>1. RunsInductive => ReportedIsOver
  BY GoingMayRun DEF ReportedIsOver, RunsInductive, LedgerInductive, Types, Reports
<1> QED
  BY <1>1, RunsInvariant, PTL

(* As long as no record write failed, the work of a dispatch reported      *)
(* rejected never starts (_dispatch_admitted, _submit_run).                *)
THEOREM RejectionIsFinal == Spec => []RejectedNeverStarts
<1>1. RunsInductive => RejectedNeverStarts
  BY DEF RejectedNeverStarts, RunsInductive, LedgerInductive, Refusals
<1> QED
  BY <1>1, RunsInvariant, PTL

(* The record on disk never outgrows the slots the next start accepts      *)
(* (dispatch, parse_run_record).                                           *)
THEOREM RecordAlwaysFits == Spec => []RecordFits
<1>1. RunsInductive => RecordFits
  BY DEF RecordFits, RunsInductive, Slots, Fits
<1> QED
  BY <1>1, RunsInvariant, PTL

-----------------------------------------------------------------------------
(* The session implements DispatchPromise.                                 *)

(* Nothing is noted, reported or started yet.                                *)
LEMMA PromiseInit == Init => Promise!Init
  BY DEF Init, Promise!Init, Going, NoEntries

(* The promise's going work is the run that is going.                      *)
LEMMA PromiseGoing ==
  ASSUME RunsInductive, NEW d \in Dispatches
  PROVE  Promise!Going(d) <=> Going(d) # {}
<1>1. Going(d) # {} => starts[d] = 1
  BY GoingMayRun, Zenon
<1>2. Going(d) # {} => starts[d] > 0
  BY <1>1
<1> QED
  BY <1>2, Zenon DEF Promise!Going

(* Every step is one of the promise's, or does not touch what the promise  *)
(* speaks of.                                                              *)
LEMMA PromiseStep ==
  ASSUME RunsInductive, RunsInductive', [Next]_vars
  PROVE  [Promise!Next]_(Promise!vars)
<1> DEFINE kept == disk.pending \union {r[1] : r \in disk.admitted}
           over == {d \in Dispatches : starts[d] > 0 /\ Going(d) = {}}
           settled == unknown \union unreported \union Owed
<1>1. \A d \in Dispatches : MayRun(d) => d \in kept \union settled
  <2> SUFFICES ASSUME NEW d \in Dispatches, MayRun(d), d \notin settled PROVE d \in kept
    OBVIOUS
  <2>1. d \in disk.pending \/ <<d, 1>> \in disk.admitted
    BY DEF RunsInductive, LedgerInductive, Accounted, Named1
  <2>2. <<d, 1>>[1] = d
    OBVIOUS
  <2> QED
    BY <2>1, <2>2, Zenon
<1>2. kept \subseteq Dispatches
  BY DEF RunsInductive, LedgerInductive, Types
<1>3. ASSUME UNCHANGED <<starts, ended>> PROVE over' = over
  BY <1>3 DEF Going
<1>4. CASE UNCHANGED <<disk, losses, starts, ended>> /\ Owed' = Owed
  BY <1>3, <1>4 DEF Promise!vars
<1>5. CASE SaveLands \/ SettleRecord
  <2>1. UNCHANGED <<losses, starts, ended>>
    BY <1>5 DEF SaveLands, SettleRecord, hermes, said
  <2>2. Owed = {} /\ Owed' \subseteq kept
    <3>1. CASE SaveLands
      <4>1. host # "reporting"
        BY <3>1 DEF SaveLands, RunsInductive, LedgerInductive, Phases
      <4>2. host' # "reporting"
        BY <3>1, <4>1 DEF SaveLands, AfterSave, AfterLastSave
      <4> QED
        BY <4>1, <4>2
    <3>2. CASE SettleRecord
      BY <3>2 DEF SettleRecord, At, RunsInductive, LedgerInductive, Phases
    <3> QED
      BY <1>5, <3>1, <3>2
  <2>3. \A d \in Dispatches : Going(d) # {} /\ d \in kept => d \in (kept \union Owed)'
    <3> SUFFICES ASSUME NEW d \in Dispatches, Going(d) # {}, d \in kept, d \notin kept'
                 PROVE  d \in Owed'
      OBVIOUS
    <3>1. starts[d] = 1 /\ <<d, 1>> \notin ended
      BY GoingMayRun
    <3>2. starts'[d] = 1 /\ <<d, 1>> \notin ended'
      BY <2>1, <3>1
    <3>3. MayRun(d)'
      BY <3>2 DEF MayRun
    <3>4. d \in settled'
      <4>1. d \in disk'.pending \/ <<d, 1>> \in disk'.admitted => d \in kept'
        <5>1. <<d, 1>>[1] = d
          OBVIOUS
        <5> QED
          BY <5>1, Zenon
      <4> QED
        BY <3>3, <4>1 DEF RunsInductive, LedgerInductive, Accounted, Named1
    <3>5. d \notin unknown \union unreported
      <4>1. d \in disk.pending \/ \E r \in disk.admitted : r[1] = d
        OBVIOUS
      <4> QED
        BY <4>1 DEF RunsInductive, Dropped, Unnamed
    <3> QED
      BY <2>1, <3>4, <3>5
  <2>4. \A d \in kept \ kept' : Promise!Going(d) => d \in Owed'
    BY <1>2, <2>3, PromiseGoing
  <2>5. kept' \subseteq Dispatches
    BY DEF RunsInductive, LedgerInductive, Types
  <2>6. over' = over
    BY <1>3, <2>1
  <2> HIDE DEF kept, over
  <2>7. Promise!Note
    BY <2>1, <2>2, <2>4, <2>5, <2>6 DEF Promise!Note, kept, over
  <2> QED
    BY <2>7 DEF Promise!Next
<1>a. CASE ReportSettlement
  <2>1. /\ unknown' = unknown \union Owed /\ host' # "reporting"
        /\ UNCHANGED <<disk, unreported, starts, ended>>
    BY <1>a DEF ReportSettlement, AfterRecovery, hermes
  <2>2. over' = over
    BY <1>3, <2>1
  <2>3. Promise!Report
    BY <2>1, <2>2 DEF Promise!Report
  <2> QED
    BY <2>3 DEF Promise!Next
<1>b. CASE Crash
  <2>1. /\ unreported' = unreported \union Owed /\ host' # "reporting"
        /\ UNCHANGED <<disk, unknown, starts, ended>>
    BY <1>b DEF Crash, hermes
  <2>2. over' = over
    BY <1>3, <2>1
  <2>3. Promise!Kill
    BY <2>1, <2>2 DEF Promise!Kill
  <2> QED
    BY <2>3 DEF Promise!Next
<1>6. ASSUME NEW w \in wire, Admit(w[1], w[2])
      PROVE  Promise!Next \/ UNCHANGED Promise!vars
  <2> DEFINE d == w[1]
  <2>1. d \in Dispatches /\ Posted(d)
    BY DEF RunsInductive, LedgerInductive, Types, Posted
  <2>2. /\ UNCHANGED <<disk, losses, ended>> /\ Owed' = Owed
        /\ starts' = IF d \in retained THEN starts ELSE [starts EXCEPT ![d] = @ + 1]
    <3>1. UNCHANGED <<host, disk, losses, ended>>
      BY <1>6 DEF Admit, HermesFrame
    <3>2. host = "reporting" => UNCHANGED pc
      <4>1. host = "reporting" => pc[d] \in {"new", "over"} \union Recovered
        BY <2>1 DEF RunsInductive, LedgerInductive, Phases
      <4> QED
        BY <1>6, <4>1 DEF Admit, Waits, NoAnswer
    <3> QED
      BY <1>6, <3>1, <3>2 DEF Admit, At
  <2>3. CASE starts' = starts
    BY <1>4, <2>2, <2>3
  <2>4. CASE starts' # starts
    <3>1. starts[d] = 0 /\ starts' = [starts EXCEPT ![d] = 1] /\ <<d, 1>> \notin ended
      <4> HIDE DEF d
      <4>1. starts[d] = 0
        BY <2>1, <2>2, <2>4 DEF RunsInductive, LedgerInductive, Types, Once
      <4>2. \A r \in ended : starts[r[1]] > 0
        BY DEF RunsInductive, LedgerInductive, Once
      <4>3. <<d, 1>> \notin ended
        BY <4>1, <4>2
      <4> QED
        BY <2>2, <2>4, <4>1, <4>3
    <3>2. d \in kept \union settled
      BY <1>1, <2>1, <3>1 DEF MayRun
    <3>3. over' = over
      <4>1. ASSUME NEW e \in Dispatches, e # d
            PROVE  starts'[e] = starts[e] /\ Going(e)' = Going(e)
        BY <2>2, <3>1, <4>1 DEF RunsInductive, LedgerInductive, Types, Going
      <4>2. d \notin over /\ <<d, 1>> \in Going(d)'
        BY <2>1, <2>2, <3>1 DEF RunsInductive, LedgerInductive, Types, Going
      <4> QED
        BY <4>1, <4>2
    <3>4. Promise!Begin(d)
      BY <2>2, <3>1, <3>2, <3>3 DEF Promise!Begin
    <3> QED
      BY <2>1, <3>4 DEF Promise!Next
  <2> QED
    BY <2>3, <2>4
<1>7. ASSUME NEW d \in Dispatches, RunEnds(d)
      PROVE  Promise!Next
  <2>1. /\ Going(d) = {<<d, 1>>} /\ starts[d] = 1 /\ ended' = ended \union {<<d, 1>>}
        /\ UNCHANGED <<disk, losses, starts>> /\ Owed' = Owed
    BY <1>7, GoingMayRun DEF RunEnds, said, memory, At
  <2>2. over' = over \union {d}
    <3>1. ASSUME NEW e \in Dispatches, e # d PROVE Going(e)' = Going(e)
      BY <2>1, <3>1 DEF Going
    <3>2. Going(d)' = {}
      BY <2>1 DEF Going
    <3> QED
      BY <2>1, <3>1, <3>2
  <2>3. Promise!Finish(d)
    BY <2>1, <2>2, PromiseGoing DEF Promise!Finish
  <2> QED
    BY <2>3 DEF Promise!Next
<1>8. CASE UNCHANGED vars
  BY <1>4, <1>8 DEF vars, memory, said, hermes, At
<1> QED
  <2>1. CASE Next
    BY <2>1, <1>4, <1>5, <1>a, <1>b, <1>6, <1>7, StepShape, OwedStays
  <2> QED
    BY <2>1, <1>8

(* Over lost answers, failed writes, kills and restarts, the work of a     *)
(* dispatch begins at most once and only after the session noted it        *)
(* durably, and the note of work that is going is dropped only by a start  *)
(* that then owes the report of it, which only a kill keeps it from        *)
(* (dispatch, _submit_run, _persist_record_owned, _settle_run_record).     *)
THEOREM SessionKeepsPromise == Spec => PromiseKept
<1>1. RunsInductive /\ RunsInductive' /\ [Next]_vars => [Promise!Next]_(Promise!vars)
  BY PromiseStep
<1> QED
  BY <1>1, PromiseInit, RunsInvariant, PTL DEF Spec, PromiseKept, Promise!Spec
=============================================================================
