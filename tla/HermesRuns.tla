----------------------------- MODULE HermesRuns -----------------------------
(***************************************************************************)
(* The Hermes task session (integration/api.py, HermesApiTaskSession) with *)
(* its durable run record (integration/run_record.py), and the Hermes it   *)
(* talks to, modelled from how the session uses it.                        *)
(*                                                                         *)
(* A dispatch is written into the record before its POST, its entry is     *)
(* replaced by the run's name once Hermes admits it, and removed when the  *)
(* run has ended.  A POST or its answer may be lost, a record write may    *)
(* fail, and the host may be killed between any two steps; the next start  *)
(* finds in the record what it must stop.  Every dispatch has a task       *)
(* identity of its own, so a dispatch stands for its task, its pending     *)
(* entry and its idempotency key.                                          *)
(***************************************************************************)
EXTENDS Naturals, FiniteSets

CONSTANTS
  Dispatches,     \* the dispatches a controller may ask for
  Session,        \* the session itself, as the owner of its last record write
  MaxActive,      \* run slots: runs tracked, and entries of the record
  Durable,        \* whether Hermes first advertises durable idempotency
  MaxRestarts,    \* bound: starts of the host
  MaxFailedSaves  \* bound: record writes that fail

ASSUME HermesRunsAssumption ==
  /\ Session \notin Dispatches
  /\ MaxActive \in Nat \ {0}
  /\ Durable \subseteq BOOLEAN
  /\ MaxRestarts \in Nat /\ MaxFailedSaves \in Nat

VARIABLES
  host,       \* the session: see Hosts
  pc,         \* where each dispatch is: see Stages
  got,        \* the number of the run each dispatch was given, or 0
  attempt,    \* POSTs of each dispatch sent so far
  abandoned,  \* dispatches whose caller was cancelled
  pend, adm,  \* the record in memory: dispatches pending, runs admitted
  saver,      \* the record write in progress: [by, pending, admitted]
  disk,       \* the record file: [pending, admitted]
  answer,     \* what each caller was told
  told,       \* terminal updates published for each dispatch
  unknown,    \* dispatches a restart reported as of unknown outcome
  unreported, \* history: dispatches whose report of that a kill prevented
  keyed,      \* dispatches minted with an idempotency key
  old,        \* dispatches minted a retention window ago or more
  \* Hermes, and the wire to it:
  durable,    \* it retains idempotency records durably
  retained,   \* dispatches whose idempotency record it retains
  starts,     \* how often it started the work of each dispatch
  ended,      \* runs that have ended
  wire,       \* POSTs on their way: <<dispatch, attempt>>
  restarts, failedSaves

memory == <<host, pc, got, attempt, abandoned, pend, adm, saver>>
hermes == <<durable, retained, starts, ended, wire>>
losses == <<unknown, unreported>>
said   == <<answer, told, losses>>
time   == <<keyed, old>>
bounds == <<restarts, failedSaves>>
vars   == <<memory, disk, said, time, hermes, bounds>>

-----------------------------------------------------------------------------

Hosts == {"down",      \* not running; the record may name runs
          "settling",  \* starting: stopping what the record names
          "reporting", \* starting: the record is written, the report is due
          "started", "closing",
          "emptying",  \* closing: stopping every run still tracked
          "saving",    \* closing: the last record write
          "closed"}

(* A dispatch of this process on its way to a published run.               *)
InFlight == {"ahead", "send", "post", "resend", "promote", "promoted",
             "stopping", "dropping", "refused", "forget"}

(* A published run the session tracks for its task.                        *)
Published == {"live", "settling", "stuck"}

(* An entry a starting session has found in the record.                    *)
Recovering == {"replaying", "restopping"}
Recovered  == {"lost", "restopped", "refailed"}

Stages == {"new", "over", "ending", "leftover"} \union InFlight \union Published
            \union Recovering \union Recovered

Run(d)  == <<d, got[d]>>
Runs    == Dispatches \X Nat
NoSave  == [by |-> {}, pending |-> {}, admitted |-> {}]
NoEntries == [pending |-> {}, admitted |-> {}]

(* Runs of a dispatch Hermes started and that have not ended.              *)
Going(d) == {r \in {d} \X (1..starts[d]) : r \notin ended}

At(stages) == {d \in Dispatches : pc[d] \in stages}

Init ==
  /\ host = "down" /\ pc = [d \in Dispatches |-> "new"]
  /\ got = [d \in Dispatches |-> 0] /\ attempt = [d \in Dispatches |-> 0]
  /\ abandoned = {} /\ pend = {} /\ adm = {} /\ saver = NoSave /\ disk = NoEntries
  /\ answer = [d \in Dispatches |-> "none"] /\ told = [d \in Dispatches |-> 0]
  /\ unknown = {} /\ unreported = {} /\ keyed = {} /\ old = {}
  /\ durable \in Durable /\ retained = {} /\ starts = [d \in Dispatches |-> 0]
  /\ ended = {} /\ wire = {}
  /\ restarts = 0 /\ failedSaves = 0

-----------------------------------------------------------------------------
(* A dispatch, up to its first POST.                                       *)

Active   == At(InFlight \union Published)
Recorded == Cardinality(pend) + Cardinality(adm)

(* Every slot is taken.  A recorded run may be running until a restart     *)
(* settles it, so the entries of the record hold slots too.                *)
Full == Cardinality(Active) >= MaxActive \/ Recorded >= MaxActive

RefuseDispatch(d) ==
  /\ host = "started" /\ pc[d] = "new" /\ Full
  /\ pc' = [pc EXCEPT ![d] = "over"]
  /\ answer' = [answer EXCEPT ![d] = "rejected"]
  /\ UNCHANGED <<host, got, attempt, abandoned, pend, adm, saver, disk, told, losses, time,
                 hermes, bounds>>

(* A plausible bug: the POST does not wait for the record.                 *)
DispatchUnwritten(d) ==
  /\ host = "started" /\ pc[d] = "new" /\ ~Full
  /\ pc' = [pc EXCEPT ![d] = "send"]
  /\ pend' = pend \union {d}
  /\ keyed' = IF durable THEN keyed \union {d} ELSE keyed
  /\ UNCHANGED <<host, got, attempt, abandoned, adm, saver, disk, said, old, hermes, bounds>>

(* Mint the pending entry: with a key if Hermes can answer a resend.       *)
Dispatch(d) ==
  /\ host = "started" /\ pc[d] = "new" /\ ~Full
  /\ pc' = [pc EXCEPT ![d] = "ahead"]
  /\ pend' = pend \union {d}
  /\ keyed' = IF durable THEN keyed \union {d} ELSE keyed
  /\ UNCHANGED <<host, got, attempt, abandoned, adm, saver, disk, said, old, hermes, bounds>>

(* The lookup policy is not ready: nothing was sent, the entry goes.       *)
ReadinessFails(d) ==
  /\ pc[d] = "ahead" /\ d \notin saver.by
  /\ pc' = [pc EXCEPT ![d] = "forget"]
  /\ pend' = pend \ {d}
  /\ UNCHANGED <<host, got, attempt, abandoned, adm, saver, disk, said, time, hermes, bounds>>

(* The POST, once the write that holds the entry landed.                   *)
Post(d) ==
  /\ pc[d] = "send"
  /\ pc' = [pc EXCEPT ![d] = "post"]
  /\ attempt' = [attempt EXCEPT ![d] = @ + 1]
  /\ wire' = wire \union {<<d, attempt[d] + 1>>}
  /\ UNCHANGED <<host, got, abandoned, pend, adm, saver, disk, said, time, durable, retained,
                 starts, ended, bounds>>

(* The caller is cancelled; the dispatch goes on without it, and only the  *)
(* publication of its run asks whether it was.                             *)
Abandon(d) ==
  /\ host \in {"started", "closing"}
  /\ pc[d] \in {"ahead", "send", "post", "resend", "promote", "promoted"}
  /\ abandoned' = abandoned \union {d}
  /\ UNCHANGED <<host, pc, got, attempt, pend, adm, saver, disk, said, time, hermes, bounds>>

-----------------------------------------------------------------------------
(* The record's writer: one write at a time, of what memory holds when it  *)
(* takes the record's lock.                                                *)

Saving == {"ahead", "promote", "dropping", "refused", "forget", "ending"}

WantsSave(o) == IF o = Session THEN host = "saving" ELSE pc[o] \in Saving

BeginSave(o) ==
  /\ saver = NoSave /\ WantsSave(o)
  /\ saver' = [by |-> {o}, pending |-> pend, admitted |-> adm]
  /\ UNCHANGED <<host, pc, got, attempt, abandoned, pend, adm, disk, said, time, hermes, bounds>>

(* What follows a write that landed.                                       *)
AfterSave(d) ==
  /\ pc' = [pc EXCEPT ![d] = CASE pc[d] = "ahead"   -> "send"
                               [] pc[d] = "promote" -> "promoted"
                               [] OTHER             -> "over"]
  /\ answer' = IF pc[d] = "refused" THEN [answer EXCEPT ![d] = "rejected"]
               ELSE IF pc[d] \in {"forget", "dropping"} THEN [answer EXCEPT ![d] = "failed"]
               ELSE answer
  /\ UNCHANGED <<host, pend, abandoned>>

(* What follows a write that failed: an unwritten entry is never sent, an  *)
(* unwritten promotion is stopped at once, and a removal is best effort.   *)
AfterFailedSave(d) ==
  /\ pc' = [pc EXCEPT ![d] = CASE pc[d] = "ahead"   -> "over"
                               [] pc[d] = "promote" -> "stopping"
                               [] OTHER             -> "over"]
  /\ pend' = IF pc[d] = "ahead" THEN pend \ {d} ELSE pend
  /\ answer' = IF pc[d] = "refused" THEN [answer EXCEPT ![d] = "rejected"]
               ELSE IF pc[d] \in {"ahead", "forget", "dropping"}
               THEN [answer EXCEPT ![d] = "failed"] ELSE answer
  /\ UNCHANGED <<host, abandoned>>

(* After the last write, failed or not, the session is gone.               *)
AfterLastSave ==
  /\ host' = "closed"
  /\ pc' = [d \in Dispatches |-> IF pc[d] = "new" THEN "new" ELSE "over"]
  /\ pend' = {} /\ abandoned' = {}
  /\ UNCHANGED answer

SaveLands ==
  /\ saver # NoSave
  /\ disk' = [pending |-> saver.pending, admitted |-> saver.admitted]
  /\ saver' = NoSave
  /\ \/ Session \in saver.by /\ AfterLastSave /\ adm' = {}
     \/ \E d \in saver.by \intersect Dispatches : AfterSave(d) /\ UNCHANGED adm
  /\ UNCHANGED <<got, attempt, told, losses, time, hermes, bounds>>

SaveFails ==
  /\ saver # NoSave /\ failedSaves < MaxFailedSaves
  /\ failedSaves' = failedSaves + 1
  /\ saver' = NoSave
  /\ \/ Session \in saver.by /\ AfterLastSave /\ adm' = {}
     \/ \E d \in saver.by \intersect Dispatches : AfterFailedSave(d) /\ UNCHANGED adm
  /\ UNCHANGED <<got, attempt, disk, told, losses, time, hermes, restarts>>

-----------------------------------------------------------------------------
(* Hermes' answers to a POST, and what the waiting caller does with them.  *)

Waits(d, k) == pc[d] \in {"post", "resend", "replaying"} /\ attempt[d] = k

(* Not an answer the session can use: it may or may not have been admitted.*)
Puzzled(d) ==
  /\ pc' = [pc EXCEPT ![d] = IF @ = "replaying" THEN "lost" ELSE "over"]
  /\ answer' = IF pc[d] = "replaying" THEN answer ELSE [answer EXCEPT ![d] = "failed"]
  /\ UNCHANGED <<got, pend, adm>>

(* A plausible bug: the promotion adds the run's entry and leaves the      *)
(* pending one.                                                            *)
NamedKeepsPending(d, n) ==
  /\ got' = [got EXCEPT ![d] = n]
  /\ IF pc[d] = "replaying"
     THEN pc' = [pc EXCEPT ![d] = "restopping"] /\ UNCHANGED adm
     ELSE pc' = [pc EXCEPT ![d] = "promote"] /\ adm' = adm \union {<<d, n>>}
  /\ UNCHANGED <<pend, answer>>

(* The run's name: claim it and let it replace the pending entry, or, in a *)
(* restart, stop the run.                                                  *)
Named(d, n) ==
  /\ got' = [got EXCEPT ![d] = n]
  /\ IF pc[d] = "replaying"
     THEN /\ pc' = [pc EXCEPT ![d] = "restopping"]
          /\ UNCHANGED <<pend, adm>>
     ELSE /\ pc' = [pc EXCEPT ![d] = "promote"]
          /\ pend' = pend \ {d}
          /\ adm' = adm \union {<<d, n>>}
  /\ UNCHANGED answer

(* A plausible bug: a refused resend counts as a rejection.                *)
RefusedAny(d) ==
  /\ IF pc[d] = "replaying"
     THEN pc' = [pc EXCEPT ![d] = "lost"] /\ UNCHANGED pend
     ELSE pc' = [pc EXCEPT ![d] = "refused"] /\ pend' = pend \ {d}
  /\ UNCHANGED <<got, adm, answer>>

(* A refusal of the only attempt is a rejection.  A refused resend proves  *)
(* nothing about the attempt before it.                                    *)
Refused(d) ==
  \/ /\ pc[d] = "post"
     /\ pc' = [pc EXCEPT ![d] = "refused"]
     /\ pend' = pend \ {d}
     /\ UNCHANGED <<got, adm, answer>>
  \/ /\ pc[d] # "post"
     /\ Puzzled(d)

NoAnswer == UNCHANGED <<pc, got, pend, adm, answer>>

HermesFrame ==
  UNCHANGED <<host, attempt, abandoned, saver, disk, told, losses, time, durable, ended, bounds>>

(* Hermes handles a POST.  While it retains the key it names the run it    *)
(* started for it; otherwise it starts one.                                *)
Admit(d, k) ==
  /\ <<d, k>> \in wire
  /\ wire' = wire \ {<<d, k>>}
  /\ starts' = IF d \in retained THEN starts ELSE [starts EXCEPT ![d] = @ + 1]
  /\ retained' = IF durable /\ d \in keyed THEN retained \union {d} ELSE retained
  /\ \/ Waits(d, k) /\ Named(d, starts'[d])
     \/ Waits(d, k) /\ Puzzled(d)
     \/ NoAnswer
  /\ HermesFrame

Refuse(d, k) ==
  /\ <<d, k>> \in wire
  /\ wire' = wire \ {<<d, k>>}
  /\ \/ Waits(d, k) /\ Refused(d)
     \/ Waits(d, k) /\ Puzzled(d)
     \/ NoAnswer
  /\ UNCHANGED <<starts, retained>>
  /\ HermesFrame

(* A POST that never arrives.                                              *)
Lose(d, k) ==
  /\ <<d, k>> \in wire
  /\ wire' = wire \ {<<d, k>>}
  /\ NoAnswer
  /\ UNCHANGED <<starts, retained>>
  /\ HermesFrame

(* A plausible bug: a resend is sent however old its key.                  *)
MayResendAnyAge(d) == d \in keyed

(* Whether sending the POST again cannot start the work again.             *)
MayResend(d) == durable /\ d \in keyed /\ d \notin old

(* A plausible bug: only the first attempt times out.                      *)
NoResponseOnce(d) ==
  /\ pc[d] = "post"
  /\ IF MayResend(d)
     THEN /\ pc' = [pc EXCEPT ![d] = "resend"]
          /\ attempt' = [attempt EXCEPT ![d] = @ + 1]
          /\ wire' = wire \union {<<d, attempt[d] + 1>>}
          /\ UNCHANGED answer
     ELSE /\ pc' = [pc EXCEPT ![d] = "over"]
          /\ answer' = [answer EXCEPT ![d] = "failed"]
          /\ UNCHANGED <<attempt, wire>>
  /\ UNCHANGED <<host, got, abandoned, pend, adm, saver, disk, told, losses, time, durable,
                 retained, starts, ended, bounds>>

(* No answer came in time.  A first attempt is sent again, once, if that   *)
(* is safe; otherwise the outcome is unknown and the entry stays.          *)
NoResponse(d) ==
  /\ pc[d] \in {"post", "resend", "replaying"}
  /\ IF pc[d] = "post" /\ MayResend(d)
     THEN /\ pc' = [pc EXCEPT ![d] = "resend"]
          /\ attempt' = [attempt EXCEPT ![d] = @ + 1]
          /\ wire' = wire \union {<<d, attempt[d] + 1>>}
          /\ UNCHANGED <<answer, got, pend, adm>>
     ELSE /\ Puzzled(d)
          /\ UNCHANGED <<attempt, wire>>
  /\ UNCHANGED <<host, abandoned, saver, disk, told, losses, time, durable,
                 retained, starts, ended, bounds>>

-----------------------------------------------------------------------------
(* From an admitted run to its end.                                        *)

RunFrame == UNCHANGED <<host, got, attempt, abandoned, pend, saver, disk, losses, time, hermes, bounds>>

(* The admission lacks exact authority, or its binding is not vouched for. *)
RefuseAdmission(d) ==
  /\ pc[d] = "promoted"
  /\ pc' = [pc EXCEPT ![d] = "stopping"]
  /\ UNCHANGED <<adm, answer, told>> /\ RunFrame

(* Publish the run for its task, unless the caller or the session is gone. *)
Publish(d) ==
  /\ pc[d] = "promoted"
  /\ IF d \in abandoned \/ host # "started"
     THEN pc' = [pc EXCEPT ![d] = "stopping"] /\ UNCHANGED answer
     ELSE pc' = [pc EXCEPT ![d] = "live"] /\ answer' = [answer EXCEPT ![d] = "accepted"]
  /\ UNCHANGED <<adm, told>> /\ RunFrame

(* The caller is cancelled after the run is published and before it is     *)
(* told: it stops the run.                                                 *)
PublishAbandoned(d) ==
  /\ pc[d] = "promoted" /\ d \notin abandoned /\ host = "started"
  /\ pc' = [pc EXCEPT ![d] = "settling"]
  /\ UNCHANGED <<adm, answer, told>> /\ RunFrame

(* A run that is not published is stopped, and its end is waited for.      *)
Stopped(d) ==
  /\ pc[d] = "stopping" /\ Run(d) \in ended
  /\ pc' = [pc EXCEPT ![d] = "dropping"]
  /\ adm' = adm \ {Run(d)}
  /\ UNCHANGED <<answer, told>> /\ RunFrame

StopFails(d) ==
  /\ pc[d] = "stopping"
  /\ pc' = [pc EXCEPT ![d] = "leftover"]
  /\ answer' = [answer EXCEPT ![d] = "failed"]
  /\ UNCHANGED <<adm, told>> /\ RunFrame

CommitTerminal(d) ==
  /\ pc' = [pc EXCEPT ![d] = "ending"]
  /\ adm' = adm \ {Run(d)}
  /\ told' = [told EXCEPT ![d] = @ + 1]
  /\ UNCHANGED answer

(* The event stream delivers the run's terminal event.                     *)
StreamEnds(d) ==
  /\ host \in {"started", "closing"}
  /\ pc[d] = "live" /\ Run(d) \in ended
  /\ CommitTerminal(d) /\ RunFrame

(* A plausible bug: a broken stream just ends its task.                    *)
StreamDies(d) ==
  /\ host = "started" /\ pc[d] = "live"
  /\ pc' = [pc EXCEPT ![d] = "over"]
  /\ UNCHANGED <<adm, answer, told>> /\ RunFrame

(* The event stream breaks: stop the run and learn how it ended.           *)
StreamFails(d) ==
  /\ host = "started" /\ pc[d] = "live"
  /\ pc' = [pc EXCEPT ![d] = "settling"]
  /\ UNCHANGED <<adm, answer, told>> /\ RunFrame

(* A plausible bug: the acknowledgment of a stop counts as the end.        *)
SettledByStop(d) ==
  /\ pc[d] = "settling"
  /\ CommitTerminal(d) /\ RunFrame

Settled(d) ==
  /\ pc[d] = "settling" /\ Run(d) \in ended
  /\ CommitTerminal(d) /\ RunFrame

SettleFails(d) ==
  /\ pc[d] = "settling"
  /\ pc' = [pc EXCEPT ![d] = "stuck"]
  /\ UNCHANGED <<adm, answer, told>> /\ RunFrame

-----------------------------------------------------------------------------
(* Close.                                                                  *)

HostFrame ==
  UNCHANGED <<got, abandoned, pend, adm, saver, disk, said, time, durable, retained,
              starts, ended, failedSaves>>

BeginClose ==
  /\ host = "started"
  /\ host' = "closing"
  /\ UNCHANGED <<pc, attempt, wire, restarts>> /\ HostFrame

(* A plausible bug: a dispatch still on its way is not waited for.         *)
EmptyAtOnce ==
  /\ host = "closing"
  /\ host' = "emptying"
  /\ pc' = [d \in Dispatches |-> IF pc[d] \in {"live", "stuck"} THEN "settling"
                                 ELSE IF pc[d] = "leftover" THEN "stopping" ELSE pc[d]]
  /\ UNCHANGED <<attempt, wire, restarts>> /\ HostFrame

(* Once no dispatch is on its way, stop every run still tracked.           *)
Empty ==
  /\ host = "closing" /\ At(InFlight \union {"settling"}) = {}
  /\ host' = "emptying"
  /\ pc' = [d \in Dispatches |-> IF pc[d] \in {"live", "stuck"} THEN "settling"
                                 ELSE IF pc[d] = "leftover" THEN "stopping" ELSE pc[d]]
  /\ UNCHANGED <<attempt, wire, restarts>> /\ HostFrame

(* Either every run was seen to end, or the close fails and may be asked   *)
(* for again.                                                              *)
Emptied ==
  /\ host = "emptying" /\ At({"stopping", "dropping", "settling", "ending"}) = {}
  /\ host' = IF At({"stuck", "leftover"}) = {} THEN "saving" ELSE "closing"
  /\ UNCHANGED <<pc, attempt, wire, restarts>> /\ HostFrame

-----------------------------------------------------------------------------
(* Start, with whatever the record names.                                  *)

AdmittedOf(d) == {r \in disk.admitted : r[1] = d}
Replays(d)    == d \in disk.pending /\ MayResend(d)

(* The record is read and every entry's settlement begins: a run is        *)
(* stopped, a dispatch that cannot be replayed safely is lost, any other   *)
(* is sent again to learn its run.                                         *)
Start ==
  /\ host \in {"down", "closed"} /\ restarts < MaxRestarts
  /\ restarts' = restarts + 1
  /\ host' = IF disk = NoEntries THEN "started" ELSE "settling"
  /\ pc' = [d \in Dispatches |-> IF AdmittedOf(d) # {} THEN "restopping"
                                 ELSE IF Replays(d) THEN "replaying"
                                 ELSE IF d \in disk.pending THEN "lost" ELSE pc[d]]
  /\ got' = [d \in Dispatches |-> IF AdmittedOf(d) = {} THEN got[d]
                                  ELSE (CHOOSE r \in AdmittedOf(d) : TRUE)[2]]
  /\ attempt' = [d \in Dispatches |-> IF Replays(d) THEN attempt[d] + 1 ELSE attempt[d]]
  /\ wire' = wire \union {<<d, attempt[d] + 1>> : d \in {e \in Dispatches : Replays(e)}}
  /\ UNCHANGED <<abandoned, pend, adm, saver, disk, said, time, durable, retained, starts, ended,
                 failedSaves>>

Restopped(d) ==
  /\ pc[d] = "restopping" /\ Run(d) \in ended
  /\ pc' = [pc EXCEPT ![d] = "restopped"]
  /\ UNCHANGED <<adm, answer, told>> /\ RunFrame

RestopFails(d) ==
  /\ pc[d] = "restopping"
  /\ pc' = [pc EXCEPT ![d] = "refailed"]
  /\ UNCHANGED <<adm, answer, told>> /\ RunFrame

Kept == [pending  |-> disk.pending \intersect At({"refailed"}),
         admitted |-> {r \in disk.admitted : pc[r[1]] = "refailed"}]

(* Every entry is settled or failed: the record keeps those that failed.   *)
(* What became of the lost ones is reported only after this write.         *)
SettleRecord ==
  /\ host = "settling" /\ At(Recovering) = {}
  /\ host' = "reporting"
  /\ disk' = Kept
  /\ UNCHANGED <<pc, got, attempt, abandoned, pend, adm, saver, said, time, hermes, bounds>>

AfterRecovery(up) ==
  /\ host' = IF up THEN "started" ELSE "down"
  /\ pc' = [d \in Dispatches |-> IF pc[d] = "new" THEN "new" ELSE "over"]
  /\ UNCHANGED <<got, attempt, abandoned, pend, adm, saver, disk, answer, told, unreported,
                 time, hermes, restarts>>

(* The dispatches the record has dropped and whose report is due.          *)
Owed == IF host = "reporting" THEN At({"lost"}) ELSE {}

(* A plausible bug: the start goes on although a run could not be stopped. *)
ReportSettlementAnyway ==
  /\ host = "reporting"
  /\ unknown' = unknown \union Owed
  /\ AfterRecovery(TRUE)
  /\ UNCHANGED failedSaves

(* The lost ones are reported, and the start fails if any entry is left.   *)
ReportSettlement ==
  /\ host = "reporting"
  /\ unknown' = unknown \union Owed
  /\ AfterRecovery(disk = NoEntries)
  /\ UNCHANGED failedSaves

SettleRecordFails ==
  /\ host = "settling" /\ At(Recovering) = {} /\ failedSaves < MaxFailedSaves
  /\ failedSaves' = failedSaves + 1
  /\ AfterRecovery(FALSE)
  /\ UNCHANGED unknown

-----------------------------------------------------------------------------
(* The environment: kills, time and Hermes' own steps.                     *)

(* A kill.  A start that is cancelled after its write reports nothing      *)
(* either.                                                                 *)
Crash ==
  /\ host \notin {"down", "closed"}
  /\ host' = "down"
  /\ pc' = [d \in Dispatches |-> IF pc[d] = "new" THEN "new" ELSE "over"]
  /\ pend' = {} /\ adm' = {} /\ abandoned' = {} /\ saver' = NoSave
  /\ unreported' = unreported \union Owed
  /\ UNCHANGED <<got, attempt, disk, answer, told, unknown, time, hermes, bounds>>

(* The retention window passes since the key was minted.                   *)
Age(d) ==
  /\ d \in keyed
  /\ old' = old \union {d}
  /\ UNCHANGED <<memory, disk, said, keyed, hermes, bounds>>

(* Hermes drops a key.  It retains one for the window from its first use,  *)
(* which is later than its minting by more than a POST takes to arrive.    *)
Prune(d) ==
  /\ d \in old /\ \A w \in wire : w[1] # d
  /\ d \in retained
  /\ retained' = retained \ {d}
  /\ UNCHANGED <<memory, disk, said, time, durable, starts, ended, wire, bounds>>

(* A run ends: by itself, or because it was asked to stop.                 *)
RunEnds(d) ==
  /\ \E r \in Going(d) : ended' = ended \union {r}
  /\ UNCHANGED <<memory, disk, said, time, durable, retained, starts, wire, bounds>>

(* Hermes is replaced by one that retains idempotency records durably.     *)
Upgrade ==
  /\ host \in {"down", "closed"} /\ ~durable
  /\ durable' = TRUE
  /\ UNCHANGED <<memory, disk, said, time, retained, starts, ended, wire, bounds>>

-----------------------------------------------------------------------------

SendStep(d) ==
  RefuseDispatch(d) \/ Dispatch(d) \/ ReadinessFails(d) \/ Post(d) \/ Abandon(d) \/ NoResponse(d)

RunStep(d) ==
  \/ RefuseAdmission(d) \/ Publish(d) \/ PublishAbandoned(d) \/ Stopped(d) \/ StopFails(d)
  \/ StreamEnds(d) \/ StreamFails(d) \/ Settled(d) \/ SettleFails(d)

Write == (\E o \in Dispatches \union {Session} : BeginSave(o)) \/ SaveLands \/ SaveFails

CloseStep == BeginClose \/ Empty \/ Emptied

StartStep ==
  \/ Start \/ SettleRecord \/ SettleRecordFails \/ ReportSettlement
  \/ \E d \in Dispatches : Restopped(d) \/ RestopFails(d)

HermesStep ==
  \/ \E w \in wire : Admit(w[1], w[2]) \/ Refuse(w[1], w[2]) \/ Lose(w[1], w[2])
  \/ \E d \in Dispatches : Prune(d) \/ RunEnds(d)
  \/ Upgrade

Next ==
  \/ \E d \in Dispatches : SendStep(d) \/ RunStep(d) \/ Age(d)
  \/ Write \/ CloseStep \/ StartStep \/ HermesStep \/ Crash

Spec == Init /\ [][Next]_vars

(* What the event loop runs for a dispatch.  Its stage enables at most one *)
(* of these groups, and each takes it to another stage or begins its write.*)
Proceeds(d) ==
  \/ Post(d) \/ NoResponse(d) \/ Publish(d) \/ BeginSave(d)
  \/ Stopped(d) \/ StopFails(d) \/ Settled(d) \/ SettleFails(d) \/ StreamEnds(d)
  \/ Restopped(d) \/ RestopFails(d)

(* A request is answered or times out, a stop is seen to work or is given  *)
(* up, a record write ends, and a settled start goes on.  The event stream *)
(* has no timeout for reading (api.py:1174-1179): that it delivers the end *)
(* of a run or breaks is assumed, and excludes a half-open connection.     *)
FairSpec ==
  /\ Spec
  /\ \A d \in Dispatches : WF_vars(Proceeds(d))
  /\ WF_vars(SaveLands \/ SaveFails \/ SettleRecord \/ SettleRecordFails \/ ReportSettlement)

-----------------------------------------------------------------------------
(* Properties.                                                             *)

(* The session implements what it promises of the work it dispatches: work *)
(* begins at most once, only when it was durably noted before, and the     *)
(* note of going work is dropped only by a start that then owes its        *)
(* report, which only a kill before the report keeps it from (dispatch,    *)
(* _submit_run, _promote_pending, _settle_run_record).                     *)
Promise == INSTANCE DispatchPromise WITH
  kept      <- disk.pending \union {r[1] : r \in disk.admitted},
  owed      <- Owed,
  reported  <- unknown,
  forgotten <- unreported,
  over      <- {d \in Dispatches : starts[d] > 0 /\ Going(d) = {}}

PromiseKept == Promise!Spec

(* A session that is up knows every run that is going: it is in its record *)
(* or was reported unknown, so a start leaves no run of an earlier process *)
(* behind.  There is one exception: a start killed between the write of    *)
(* the settled record and its report, for the next start finds the record  *)
(* without the note (_settle_run_record, start).                           *)
StartedClean ==
  host \in {"started", "closing", "emptying", "saving"} =>
    \A d \in Dispatches : Going(d) # {} =>
      d \in pend \union unknown \union unreported \/ Going(d) \subseteq adm

(* After a close without an error nothing is going but dispatches of       *)
(* unknown outcome: one of this session's stays in the record if the       *)
(* record could be written, one of an earlier process was reported, or a   *)
(* kill kept its start from reporting it (_close_owned).                   *)
CloseClean ==
  host = "closed" =>
    \A d \in Dispatches : Going(d) # {} => d \in disk.pending \union unknown \union unreported

(* A result is reported only when the work is really over, and it stays    *)
(* over: no lost write, restart or replay starts it again                  *)
(* (_commit_terminal, _settle_recorded_dispatch).                          *)
ReportedIsOver ==
  \A d \in Dispatches : told[d] > 0 => Going(d) = {} /\ starts[d] = 1 /\ told[d] = 1

(* A dispatch is reported rejected only if its work never starts, then or  *)
(* later.  The removal of its entry must not have failed: then a restart   *)
(* may start the work to stop it (_dispatch_admitted, _submit_run).        *)
RejectedNeverStarts ==
  failedSaves = 0 => \A d \in Dispatches : answer[d] = "rejected" => starts[d] = 0

(* The record on disk is one the next start accepts: it never holds more   *)
(* entries than there are run slots (dispatch, parse_run_record).          *)
RecordFits ==
  Cardinality(disk.pending) + Cardinality(disk.admitted) <= MaxActive

(* Every call ends, whatever is lost or refused: a dispatch is answered or   *)
(* fails (_dispatch_admitted, _submit_run), and a start has settled every    *)
(* entry of the record or fails (_settle_run_record).                        *)
CallsEnd ==
  /\ \A d \in Dispatches : pc[d] \in InFlight ~> pc[d] \notin InFlight
  /\ host \in {"settling", "reporting"} ~> host \notin {"settling", "reporting"}

(* The end of a run is reported to its task, also when the event stream    *)
(* broke, unless Hermes cannot be asked, or the session is closed first;   *)
(* a stream that falls silent without breaking is not among the behaviours *)
(* that are fair (_consume_events, _settle_authority).                     *)
EndReported ==
  \A d \in Dispatches :
    pc[d] = "live" /\ Run(d) \in ended ~> told[d] > 0 \/ pc[d] = "stuck" \/ host # "started"
=============================================================================
