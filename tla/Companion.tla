----------------------------- MODULE Companion ------------------------------
(***************************************************************************)
(* The companion of one voice conversation: the archive of its rows in a   *)
(* Hermes session (companion/archive.py, store.py, integrity.py), the      *)
(* delete of that session (companion/forget.py), the review of archived    *)
(* rows (companion/review.py) and the service that owns them               *)
(* (companion/host.py), with realtime's archive and forget senders         *)
(* (integration/voice_archive.py, voice_forget.py) and the Hermes they     *)
(* share with whoever else uses it (hermes_compat.py).                     *)
(*                                                                         *)
(* One lock guards the conversation: whoever holds it has the turn, and a  *)
(* turn is a sequence of steps between which the process may be killed,    *)
(* Hermes may be changed by others and calls keep coming.  The chained     *)
(* hash of rows is modelled by the rows themselves, an option by a set of  *)
(* at most one element.                                                    *)
(***************************************************************************)
EXTENDS Naturals, Sequences, FiniteSets, Subsequence

CONSTANTS
  Calls,         \* archive requests the companion can be serving at a time
  Windows,       \* reviews realtime may ask for, each named by its last row
  Kin,           \* sessions Hermes may derive from the archive's
  Voice,         \* the archive's own session
  Other,         \* a lease holder that is not this companion
  Cap,           \* rows an archive may hold
  MaxSeq,        \* bound: numbers given to rows
  MaxBatch,      \* bound: rows of a batch
  MayForget,     \* bound: whether the user may delete the conversation
  MaxCrashes,    \* bound: companion processes that end, killed or closed
  MaxFaults,     \* bound: store writes and Hermes calls that fail
  MaxForeign,    \* bound: changes others make to Hermes
  MaxTimeouts    \* bound: requests realtime gives up waiting for, and its restarts

ASSUME CompanionAssumption ==
  /\ Calls \intersect {"review", "forget", "again", "load", "none"} = {} /\ Other # "ours"
  /\ Voice \notin Kin /\ Windows \subseteq Nat \ {0} /\ Cap \in Nat /\ MaxSeq \in Nat
  /\ MaxBatch \in Nat \ {0} /\ MayForget \in BOOLEAN
  /\ MaxCrashes \in Nat /\ MaxFaults \in Nat /\ MaxForeign \in Nat /\ MaxTimeouts \in Nat

VARIABLES
  \* Realtime:
  batch,      \* the frozen batch, or no rows
  acked,      \* the last number acknowledged
  waiting,    \* the call whose reply the sender awaits
  fence,      \* an integrity refusal has ended archiving in this process
  asked,      \* the user's delete: "no", "pending" or "complete"
  \* The companion process:
  host,       \* "down", "starting", "up" or "closing"
  turn,       \* who holds the conversation, at which step, with what
  calls,      \* each archive request: its stage and its rows
  rcall,      \* the review request: its stage and its window
  fcall,      \* a forget request is waiting for its turn
  again,      \* a reconciliation is to follow the end of a review
  live,       \* the open conversation, if any: whether it admits work
  fenced,     \* a quarantine could not be written: nothing more is admitted
  active,     \* the review owned by the coordinator, if any
  thread,     \* its thread
  callback,   \* its _finished is queued on the loop
  \* The companion's store:
  row,        \* the conversation's row
  deletion,   \* its delete
  ledger,     \* what is recorded of each review
  \* Hermes:
  session,    \* the rows of the archive's session, if it exists
  lease,      \* who holds the session's lease: the last open, or Other
  kin,        \* the derived sessions
  rotated,    \* sessions ended by compression
  \* What has happened:
  written,    \* the rows the companion has inserted
  tampered,   \* others have touched the session
  reviewed,   \* how often each review was started
  owed,       \* the copies the last capture found
  budget      \* what is left of each bound

realtime  == <<batch, acked, waiting, fence, asked>>
requests  == <<calls, rcall, fcall, again>>
reviews   == <<active, thread, callback>>
memory    == <<live, fenced>>
store     == <<row, deletion, ledger>>
hermes    == <<session, lease, kin, rotated>>
history   == <<written, tampered, reviewed, owed>>
vars == <<realtime, host, turn, requests, memory, reviews, store, hermes, history, budget>>

-----------------------------------------------------------------------------
(* Rows, batches and what a projection of the session shows.               *)

End(rows) == IF rows = <<>> THEN 0 ELSE rows[Len(rows)][2]

Elements(t) == {t[i] : i \in DOMAIN t}

(* Not a row of this conversation.                                         *)
Alien == <<0, 0>>

Sessions == Kin \union {Voice}
Exists(s) == IF s = Voice THEN session # {} ELSE kin[s].here
Children(s) == {k \in Kin : kin[k].here /\ kin[k].parent = {s}}

(* The session as a projection shows it.  A child, or an ended session, is *)
(* refused whatever the rows are, which a row more stands for.             *)
View == IF Children(Voice) = {} /\ Voice \notin rotated
          THEN session ELSE {Append(rows, Alien) : rows \in session}

(* A plausible bug: the rows of a retried batch are not told from new ones. *)
NewRowsAll(committed, rows) == rows

NewRows(committed, rows) == Sift(rows, {r \in Elements(rows) : r[2] > End(committed)})

(* The rows after the committed cursor must follow it without a hole.      *)
Continues(committed, rows) ==
  LET new == NewRows(committed, rows)
  IN  new # <<>> => new[1][1] = End(committed) + 1

(* What was committed is no longer what the session holds.                 *)
Spoiled ==
  row.committed # {} /\ (session = {} \/ Voice \in rotated
                         \/ \E rows \in session : Alien \in Elements(rows))

Log == INSTANCE ArchiveLog WITH shut <- Spoiled \/ deletion.recorded

-----------------------------------------------------------------------------
NoTurn == [by |-> "none", at |-> "free", seen |-> {}, targets |-> <<>>, copies |-> {},
           fencing |-> FALSE]
NoCall == [at |-> "none", rows |-> <<>>]
NoReview == [at |-> "none", window |-> 0]
NoRow == [bound |-> FALSE, committed |-> {}, pending |-> {}, quarantined |-> FALSE,
          tombstone |-> FALSE]
NoDelete == [recorded |-> FALSE, targets |-> {}, copies |-> {}, complete |-> FALSE]
Unborn == [here |-> FALSE, born |-> FALSE, parent |-> {}, branch |-> {}]

Init ==
  /\ batch = <<>> /\ acked = 0 /\ waiting = {} /\ fence = FALSE /\ asked = "no"
  /\ host = "up" /\ turn = NoTurn
  /\ calls = [c \in Calls |-> NoCall] /\ rcall = NoReview /\ fcall = FALSE /\ again = FALSE
  /\ live = {} /\ fenced = FALSE /\ active = {} /\ thread = "none" /\ callback = FALSE
  /\ row = NoRow /\ deletion = NoDelete /\ ledger = [w \in Windows |-> "none"]
  /\ session = {} /\ lease = {} /\ kin = [k \in Kin |-> Unborn] /\ rotated = {}
  /\ written = <<>> /\ tampered = FALSE
  /\ reviewed = [w \in Windows |-> 0] /\ owed = {}
  /\ budget = [crash |-> MaxCrashes, fault |-> MaxFaults, foreign |-> MaxForeign,
               timeout |-> MaxTimeouts]

Spend(kind) == budget[kind] > 0 /\ budget' = [budget EXCEPT ![kind] = @ - 1]

Ready == ~fenced /\ live = {TRUE}
Unready == live' = {FALSE : r \in live}

Goto(at) == turn' = [turn EXCEPT !.at = at]
Holds(b, at) == turn.by = b /\ turn.at = at
Free == turn = NoTurn

-----------------------------------------------------------------------------
(* Realtime's archive sender.  The batch it sends is frozen and durable    *)
(* before (VoiceTail), so a resend is the same rows.                       *)

FreezeBatch ==
  /\ batch = <<>> /\ asked = "no" /\ batch' \in Log!Batches(acked)
  /\ UNCHANGED <<acked, waiting, fence, asked, host, turn, requests, memory, reviews, store,
                 hermes, history, budget>>

Send(c) ==
  /\ host = "up" /\ batch # <<>> /\ asked = "no" /\ ~fence /\ waiting = {}
  /\ calls[c] = NoCall
  /\ waiting' = {c} /\ calls' = [calls EXCEPT ![c] = [at |-> "open", rows |-> batch]]
  /\ UNCHANGED <<batch, acked, fence, asked, host, turn, rcall, fcall, again, memory, reviews,
                 store, hermes, history, budget>>

(* No answer in time, or the connection is gone: the request goes on in    *)
(* the companion, and the sender will send the same rows again.            *)
GiveUp ==
  /\ waiting # {} /\ Spend("timeout") /\ waiting' = {}
  /\ UNCHANGED <<batch, acked, fence, asked, host, turn, requests, memory, reviews, store,
                 hermes, history>>

(* A new realtime process has the frozen batch, and no fence.              *)
RestartRealtime ==
  /\ Spend("timeout") /\ waiting' = {} /\ fence' = FALSE
  /\ UNCHANGED <<batch, acked, asked, host, turn, requests, memory, reviews, store, hermes,
                 history>>

(* The end of call c, with an acknowledgment, a transient or an integrity  *)
(* refusal, or no reply: realtime listens only if it still waits for it    *)
(* and still has the conversation.                                         *)
Reply(c, answer) ==
  /\ calls' = [calls EXCEPT ![c] = NoCall]
  /\ waiting' = waiting \ {c}
  /\ UNCHANGED asked
  /\ IF waiting = {c} /\ asked = "no"
     THEN /\ fence' = (fence \/ answer = "integrity")
          /\ acked' = IF answer = "ack" THEN End(batch) ELSE acked
          /\ batch' = IF answer = "ack" THEN <<>> ELSE batch
     ELSE UNCHANGED <<fence, acked, batch>>

(* The end of whatever request b is.                                       *)
Answer(b, answer) ==
  IF b \in Calls THEN Reply(b, answer) /\ UNCHANGED rcall
  ELSE rcall' = NoReview /\ UNCHANGED <<calls, realtime>>

(* The user deletes the conversation, which realtime has offered.          *)
AskForget ==
  /\ MayForget /\ asked = "no" /\ (acked > 0 \/ batch # <<>>)
  /\ asked' = "pending" /\ batch' = <<>>
  /\ UNCHANGED <<acked, waiting, fence, host, turn, requests, memory, reviews, store, hermes,
                 history, budget>>

(* The forget sender resends a pending delete until it is complete.        *)
SendForget ==
  /\ host = "up" /\ asked = "pending" /\ ~fcall /\ fcall' = TRUE
  /\ UNCHANGED <<realtime, host, turn, calls, rcall, again, memory, reviews, store, hermes,
                 history, budget>>

(* A window of archived rows is to be reviewed; realtime may ask again.    *)
(* What it sent before its timeout may be taken up at any time, after the  *)
(* delete too.  Two requests at once are two in a row: each waits for the  *)
(* conversation, and keeps nothing meanwhile.                              *)
AskReview(w) ==
  /\ host = "up" /\ rcall = NoReview /\ w <= acked
  /\ rcall' = [at |-> "open", window |-> w]
  /\ UNCHANGED <<realtime, host, turn, calls, fcall, again, memory, reviews, store, hermes,
                 history, budget>>

-----------------------------------------------------------------------------
(* Opening the conversation, for an archive call or a review.              *)

Openers == Calls \union {"review"}
Stage(b) == IF b = "review" THEN rcall.at ELSE calls[b].at

(* b has been opened for: on to what it asked.                             *)
Opened(b) ==
  /\ UNCHANGED realtime
  /\ IF b = "review" THEN rcall' = [rcall EXCEPT !.at = "take"] /\ UNCHANGED calls
     ELSE calls' = [calls EXCEPT ![b].at = "archive"] /\ UNCHANGED rcall

(* A review of a conversation without a row, or with a delete, is refused  *)
(* before anything is opened.                                              *)
RefuseReview ==
  /\ rcall.at = "open" /\ (deletion.recorded \/ ~row.bound) /\ turn.by # "review"
  /\ rcall' = NoReview
  /\ UNCHANGED <<realtime, host, turn, calls, fcall, again, memory, reviews, store, hermes,
                 history, budget>>

AlreadyOpen(b) ==
  /\ Stage(b) = "open" /\ turn.by # b /\ Ready /\ Opened(b)
  /\ UNCHANGED <<host, turn, fcall, again, memory, reviews, store, hermes, history, budget>>

StartsOpen(b) ==
  /\ host = "up" /\ Free /\ Stage(b) = "open" /\ ~Ready
  /\ b = "review" => row.bound /\ ~deletion.recorded

OpenRefused(b) ==
  /\ StartsOpen(b)
  /\ \/ fenced /\ Answer(b, "transient")
     \/ ~fenced /\ (row.quarantined \/ row.tombstone \/ (~row.bound /\ deletion.recorded))
                /\ Answer(b, "integrity")
  /\ UNCHANGED <<host, turn, fcall, again, memory, reviews, store, hermes, history, budget>>

(* A new conversation is bound with its creation pending, before the       *)
(* session exists.                                                         *)
Bind(b) ==
  /\ StartsOpen(b) /\ ~fenced /\ ~row.quarantined /\ ~row.tombstone
  /\ row.bound \/ ~deletion.recorded
  /\ row' = IF row.bound THEN row ELSE [NoRow EXCEPT !.bound = TRUE, !.pending = {<<>>}]
  /\ turn' = [NoTurn EXCEPT !.by = b, !.at = "holder"]
  /\ UNCHANGED <<realtime, host, requests, memory, reviews, deletion, ledger, hermes, history,
                 budget>>

(* The previous open gives its lease up before a new holder is recorded.   *)
ReleasePrevious(b) ==
  /\ Holds(b, "holder") /\ Goto("acquire") /\ live' = {} /\ lease' = lease \ {"ours"}
  /\ UNCHANGED <<realtime, host, requests, fenced, reviews, store, session, kin, rotated,
                 history, budget>>

Acquire(b) ==
  /\ Holds(b, "acquire") /\ lease = {}
  /\ Goto("read") /\ lease' = {"ours"} /\ live' = {FALSE}
  /\ UNCHANGED <<realtime, host, requests, fenced, reviews, store, session, kin, rotated,
                 history, budget>>

LeaseHeld(b) ==
  /\ Holds(b, "acquire") /\ lease # {} /\ turn' = NoTurn /\ Answer(b, "transient")
  /\ UNCHANGED <<host, fcall, again, memory, reviews, store, hermes, history, budget>>

(* The recorded creation never happened; it is the only one ever made.     *)
Create(b) ==
  /\ Holds(b, "read") /\ row.committed = {} /\ session = {} /\ session' = {<<>>}
  /\ UNCHANGED <<realtime, host, turn, requests, memory, reviews, store, lease, kin, rotated,
                 history, budget>>

Read(b) ==
  /\ Holds(b, "read") /\ (row.committed # {} \/ session # {})
  /\ turn' = [turn EXCEPT !.at = "settle", !.seen = View]
  /\ UNCHANGED <<realtime, host, requests, memory, reviews, store, hermes, history, budget>>

(* A plausible bug: an interrupted batch is always taken as not applied.   *)
OnlyCleared == row.pending # {} /\ row.committed = {} /\ turn.seen = row.pending

(* What the projection proves of the write-ahead state.                    *)
Cleared  == row.pending # {} /\ row.committed # {} /\ turn.seen = row.committed
Promoted == row.pending # {} /\ ~Cleared /\ turn.seen = row.pending
Intact   == row.pending = {} /\ row.committed # {} /\ turn.seen = row.committed

Settle(b) ==
  /\ Holds(b, "settle")
  /\ \/ Cleared /\ row' = [row EXCEPT !.pending = {}]
     \/ Promoted /\ row' = [row EXCEPT !.committed = row.pending, !.pending = {}]
     \/ Intact /\ UNCHANGED row
  /\ turn' = NoTurn /\ live' = {TRUE} /\ Opened(b)
  /\ UNCHANGED <<host, fcall, again, fenced, reviews, deletion, ledger, hermes, history, budget>>

(* The quarantine is durable before its refusal is told; what was opened   *)
(* is given up.                                                            *)
SettleFails(b) ==
  /\ Holds(b, "settle") /\ ~Cleared /\ ~Promoted /\ ~Intact
  /\ row' = [row EXCEPT !.quarantined = TRUE]
  /\ turn' = NoTurn /\ live' = {} /\ lease' = lease \ {"ours"} /\ Answer(b, "integrity")
  /\ UNCHANGED <<host, fcall, again, fenced, reviews, deletion, ledger, session, kin, rotated,
                 history, budget>>

(* Hermes or the store fails under an open; if the quarantine is what      *)
(* could not be written, the companion admits nothing more.                *)
OpenFails(b) ==
  /\ turn.by = b /\ turn.at \in {"holder", "acquire", "read", "settle"} /\ Spend("fault")
  /\ fenced' = (fenced \/ (turn.at = "settle" /\ ~Cleared /\ ~Promoted /\ ~Intact))
  /\ IF turn.at \in {"read", "settle"} THEN live' = {} /\ lease' = lease \ {"ours"}
     ELSE UNCHANGED <<live, lease>>
  /\ turn' = NoTurn /\ Answer(b, "none")
  /\ UNCHANGED <<host, fcall, again, reviews, store, session, kin, rotated, history>>

(* A refresh raised, or found the lease lost.                              *)
LeaseLost ==
  /\ live = {TRUE} /\ live' = {FALSE}
  /\ IF lease = {"ours"} THEN Spend("fault") ELSE UNCHANGED budget
  /\ UNCHANGED <<realtime, host, turn, requests, fenced, reviews, store, hermes, history>>

-----------------------------------------------------------------------------
(* Archiving a batch: record the intended state, write, record it done.    *)

Takes(c) == host = "up" /\ Free /\ calls[c].at = "archive"

Committed == CHOOSE rows \in row.committed : TRUE
Admits == Ready /\ row.bound /\ row.committed # {}

ArchiveRefused(c) ==
  /\ Takes(c)
  /\ \/ ~Admits /\ Reply(c, "transient")
     \/ /\ Admits
        /\ ~Continues(Committed, calls[c].rows) \/ row.quarantined \/ row.tombstone
        /\ Reply(c, "integrity")
     \/ /\ Admits /\ Continues(Committed, calls[c].rows) /\ ~row.quarantined /\ ~row.tombstone
        /\ row.pending # {} /\ Reply(c, "transient")
  /\ UNCHANGED <<host, turn, rcall, fcall, again, memory, reviews, store, hermes, history,
                 budget>>

BeginPending(c) ==
  /\ Takes(c) /\ Admits /\ Continues(Committed, calls[c].rows)
  /\ ~row.quarantined /\ ~row.tombstone /\ row.pending = {}
  /\ row' = [row EXCEPT !.pending = {Committed \o NewRows(Committed, calls[c].rows)}]
  /\ turn' = [NoTurn EXCEPT !.by = c, !.at = "write"]
  /\ UNCHANGED <<realtime, host, requests, memory, reviews, deletion, ledger, hermes, history,
                 budget>>

(* The store fails before anything is recorded.                            *)
BeginFails(c) ==
  /\ Takes(c) /\ Admits /\ Spend("fault") /\ Reply(c, "none")
  /\ UNCHANGED <<host, turn, rcall, fcall, again, memory, reviews, store, hermes, history>>

(* The rows of the batch the session does not hold.                        *)
Inserts(c) ==
  Sift(calls[c].rows, {r \in Elements(calls[c].rows) : \A rows \in session : r \notin Elements(rows)})

(* A plausible bug: the write is not compared with the committed state.    *)
WriteBlindly(c) ==
  /\ Holds(c, "write") /\ lease = {"ours"} /\ session # {}
  /\ session' = {rows \o Inserts(c) : rows \in session}
  /\ written' = written \o Inserts(c)
  /\ Goto("promote")
  /\ UNCHANGED <<realtime, host, requests, memory, reviews, store, lease, kin, rotated,
                 tampered, reviewed, owed, budget>>

(* One Hermes transaction: the lease, the projection against what is       *)
(* committed or already pending, the missing rows, and a second look.      *)
MayWrite(c) ==
  /\ Holds(c, "write") /\ lease = {"ours"} /\ View \in {row.committed, row.pending}
  /\ \A rows \in session : Len(rows) + Len(Inserts(c)) <= Cap

Applies(c) == MayWrite(c) /\ View # {} /\ {rows \o Inserts(c) : rows \in session} = row.pending

Write(c) ==
  /\ Applies(c)
  /\ session' = row.pending /\ written' = written \o Inserts(c)
  /\ Goto("promote")
  /\ UNCHANGED <<realtime, host, requests, memory, reviews, store, lease, kin, rotated,
                 tampered, reviewed, owed, budget>>

(* The transaction's end is not known: it applied, or it did not.          *)
WriteUnknown(c) ==
  /\ Holds(c, "write") /\ Spend("fault")
  /\ \/ UNCHANGED <<session, written>>
     \/ Applies(c) /\ session' = row.pending /\ written' = written \o Inserts(c)
  /\ turn' = NoTurn /\ Unready /\ Reply(c, "none")
  /\ UNCHANGED <<host, rcall, fcall, again, fenced, reviews, store, lease, kin, rotated,
                 tampered, reviewed, owed>>

(* Refused and rolled back: the archive still holds the committed state.   *)
RolledBack(c) ==
  /\ Holds(c, "write") /\ (lease # {"ours"} \/ (View = row.committed /\ ~MayWrite(c)))
  /\ turn' = [turn EXCEPT !.at = "clear", !.fencing = lease # {"ours"}]
  /\ UNCHANGED <<realtime, host, requests, memory, reviews, store, hermes, history, budget>>

(* Neither state: somebody else has changed the session.                   *)
Mismatch(c) ==
  /\ Holds(c, "write") /\ lease = {"ours"} /\ View \notin {row.committed, row.pending}
  /\ row' = [row EXCEPT !.quarantined = TRUE]
  /\ turn' = NoTurn /\ Unready /\ Reply(c, "integrity")
  /\ UNCHANGED <<host, rcall, fcall, again, fenced, reviews, deletion, ledger, hermes, history,
                 budget>>

MismatchUnwritten(c) ==
  /\ Holds(c, "write") /\ lease = {"ours"} /\ View \notin {row.committed, row.pending}
  /\ Spend("fault") /\ fenced' = TRUE /\ turn' = NoTurn /\ Unready /\ Reply(c, "none")
  /\ UNCHANGED <<host, rcall, fcall, again, reviews, store, hermes, history>>

ClearPending(c) ==
  /\ Holds(c, "clear") /\ turn' = NoTurn
  /\ row' = [row EXCEPT !.pending = {}]
  /\ IF turn.fencing THEN Unready ELSE UNCHANGED live
  /\ Reply(c, IF turn.fencing THEN "transient" ELSE "integrity")
  /\ UNCHANGED <<host, rcall, fcall, again, fenced, reviews, deletion, ledger, hermes, history,
                 budget>>

Promote(c) ==
  /\ Holds(c, "promote") /\ turn' = NoTurn /\ Reply(c, "ack")
  /\ row' = [row EXCEPT !.committed = row.pending, !.pending = {}]
  /\ UNCHANGED <<host, rcall, fcall, again, memory, reviews, deletion, ledger, hermes, history,
                 budget>>

(* The store fails: what is pending stays for the next open to settle.     *)
RecordFails(c) ==
  /\ turn.by = c /\ turn.at \in {"clear", "promote"} /\ Spend("fault")
  /\ turn' = NoTurn /\ Unready /\ Reply(c, "none")
  /\ UNCHANGED <<host, rcall, fcall, again, fenced, reviews, store, hermes, history>>

-----------------------------------------------------------------------------
(* Reviewing a window: verify and take the run, start its thread, record   *)
(* that it was accepted.                                                   *)

ThreadAlive == thread \in {"running", "finishing"}

RefusedReview ==
  /\ rcall' = NoReview
  /\ UNCHANGED <<realtime, calls, fcall, again>>

TakesReview == host = "up" /\ Free /\ rcall.at = "take"

(* What of the previous review the coordinator still owns.                 *)
Joined == active = {} \/ ~ThreadAlive

Reviewable ==
  /\ Ready /\ row.bound /\ row.committed # {} /\ ~row.quarantined /\ ~row.tombstone
  /\ row.pending = {} /\ rcall.window <= End(Committed)

(* The ended review whose outcome could not be recorded: it stays admitted *)
(* and nothing is on its way to change that.                               *)
Unrecorded ==
  ~ThreadAlive /\ ~callback /\ \E w \in active : ledger[w] \in {"reserved", "accepted"}

(* Refused, or answered from the ledger; or the outcome of the previous    *)
(* review cannot be recorded now either.                                   *)
ReviewAnswered ==
  /\ TakesReview
  /\ ~Reviewable \/ ledger[rcall.window] # "none" \/ ~Joined \/ Unrecorded
  /\ RefusedReview
  /\ UNCHANGED <<host, turn, memory, reviews, store, hermes, history, budget>>

(* The recorded outcome of an accepted review that has ended.              *)
Over(w) == IF ledger[w] = "accepted" THEN [ledger EXCEPT ![w] = "over"] ELSE ledger

(* The previous review is joined, its outcome recorded if its callback has *)
(* not yet, and forgotten.                                                 *)
JoinPrevious ==
  /\ TakesReview /\ Reviewable /\ ledger[rcall.window] = "none" /\ Joined
  /\ ledger' = IF active = {} THEN ledger ELSE Over(CHOOSE w \in active : TRUE)
  /\ active' = {} /\ thread' = "none" /\ callback' = FALSE
  /\ turn' = [NoTurn EXCEPT !.by = "review", !.at = "admit"]
  /\ UNCHANGED <<realtime, host, requests, memory, row, deletion, hermes, history, budget>>

(* Hermes verifies the archive and gives the run's token in one write.     *)
AdmitReview ==
  /\ Holds("review", "admit") /\ lease = {"ours"} /\ View = row.committed /\ Goto("start")
  /\ UNCHANGED <<realtime, host, requests, memory, reviews, store, hermes, history, budget>>

AdmitRefused ==
  /\ Holds("review", "admit") /\ turn' = NoTurn /\ RefusedReview
  /\ \/ lease # {"ours"} /\ UNCHANGED <<row, live, budget>>
     \/ lease = {"ours"} /\ View # row.committed
        /\ row' = [row EXCEPT !.quarantined = TRUE] /\ Unready /\ UNCHANGED budget
     \/ Spend("fault") /\ UNCHANGED <<row, live>>
  /\ UNCHANGED <<host, fenced, reviews, deletion, ledger, hermes, history>>

StartReview ==
  /\ Holds("review", "start") /\ turn' = NoTurn /\ RefusedReview
  /\ ledger' = [ledger EXCEPT ![rcall.window] = "accepted"]
  /\ active' = {rcall.window} /\ thread' = "running" /\ UNCHANGED callback
  /\ reviewed' = [reviewed EXCEPT ![rcall.window] = @ + 1]
  /\ UNCHANGED <<host, memory, row, deletion, hermes, written, tampered, owed, budget>>

(* The reservation is not written: the run's token is given back.          *)
ReserveFails ==
  /\ Holds("review", "start") /\ Spend("fault") /\ turn' = NoTurn /\ RefusedReview
  /\ UNCHANGED <<host, memory, reviews, store, hermes, history>>

(* The thread runs and its acceptance is not written: cancel and join it.  *)
AcceptFails ==
  /\ Holds("review", "start") /\ Spend("fault") /\ Goto("unwind")
  /\ ledger' = [ledger EXCEPT ![rcall.window] = "reserved"]
  /\ active' = {rcall.window} /\ thread' = "running" /\ UNCHANGED callback
  /\ reviewed' = [reviewed EXCEPT ![rcall.window] = @ + 1]
  /\ UNCHANGED <<realtime, host, requests, memory, row, deletion, hermes, written, tampered,
                 owed>>

(* The join may time out with the thread still running, and the outcome    *)
(* may not be written.                                                     *)
Unwind ==
  /\ Holds("review", "unwind") /\ turn' = NoTurn /\ RefusedReview
  /\ \/ ledger' = [ledger EXCEPT ![rcall.window] = "over"] /\ UNCHANGED budget
     \/ Spend("fault") /\ UNCHANGED ledger
  /\ IF ThreadAlive THEN UNCHANGED reviews
     ELSE active' = {} /\ thread' = "none" /\ callback' = FALSE
  /\ UNCHANGED <<host, memory, row, deletion, hermes, history>>

(* The review's thread: it queues its _finished, and exits after.          *)
ThreadFinishes ==
  /\ thread = "running" /\ thread' = "finishing" /\ callback' = TRUE
  /\ UNCHANGED <<realtime, host, turn, requests, memory, active, store, hermes, history, budget>>

ThreadExits ==
  /\ thread = "finishing" /\ thread' = "ended"
  /\ UNCHANGED <<realtime, host, turn, requests, memory, active, callback, store, hermes,
                 history, budget>>

(* The queued callback records the outcome of an accepted review, and a    *)
(* delete that waited for it is reconciled again.  If the outcome cannot   *)
(* be written, neither happens, and the watchdog is cancelled already.     *)
Finished ==
  /\ callback /\ callback' = FALSE
  /\ IF row.bound /\ (\E w \in active : ledger[w] = "accepted")
     THEN \/ /\ ledger' = Over(CHOOSE w \in active : TRUE)
             /\ again' = (again \/ deletion.recorded)
             /\ UNCHANGED budget
          \/ Spend("fault") /\ UNCHANGED <<ledger, again>>
     ELSE UNCHANGED <<ledger, again, budget>>
  /\ UNCHANGED <<realtime, host, turn, calls, rcall, fcall, memory, active, thread, row, deletion,
                 hermes, history>>

-----------------------------------------------------------------------------
(* Deleting: fence, freeze what is to go, delete, verify, record.          *)

Reconcilers == {"forget", "again", "load"}

(* The end of a reconciliation by b.                                       *)
Settled(b, answer) ==
  /\ turn' = NoTurn
  /\ asked' = IF b = "forget" /\ answer = "complete" /\ asked = "pending" THEN "complete" ELSE asked
  /\ fcall' = (fcall /\ b # "forget") /\ again' = (again /\ b # "again")
  /\ host' = IF b = "load" THEN "up" ELSE host
  /\ UNCHANGED <<batch, acked, waiting, fence, calls, rcall>>

(* A conversation the store never knew is neither fenced nor completed.    *)
ForgetUnbound ==
  /\ host = "up" /\ Free /\ fcall /\ ~row.bound /\ ~deletion.recorded
  /\ fcall' = FALSE
  /\ UNCHANGED <<realtime, host, turn, calls, rcall, again, memory, reviews, store, hermes,
                 history, budget>>

(* The fence is durable before anything is deleted.                        *)
Tombstone ==
  /\ host = "up" /\ Free /\ fcall /\ (row.bound \/ deletion.recorded)
  /\ deletion' = [deletion EXCEPT !.recorded = TRUE]
  /\ row' = [row EXCEPT !.tombstone = row.bound]
  /\ Unready /\ turn' = [NoTurn EXCEPT !.by = "forget", !.at = "check"]
  /\ UNCHANGED <<realtime, host, requests, fenced, reviews, ledger, hermes, history, budget>>

(* A review has ended and the thread is no longer admitted.                *)
ReconcileAgain ==
  /\ host \in {"up", "closing"} /\ Free /\ again /\ ~ThreadAlive
  /\ \A w \in active : ledger[w] \notin {"reserved", "accepted"}
  /\ turn' = [NoTurn EXCEPT !.by = "again", !.at = "check"]
  /\ UNCHANGED <<realtime, host, requests, memory, reviews, store, hermes, history, budget>>

(* A plausible bug: a review that has been accepted does not defer it.     *)
NothingAdmitted == FALSE

(* A plausible bug: a review stays admitted until the next one joins it.   *)
AdmittedUntilJoined == active # {}

(* A local review still owns admission or may still write.                 *)
Admitted == active # {} /\ (ThreadAlive \/ \E w \in active : ledger[w] \in {"reserved", "accepted"})

CheckDelete ==
  /\ turn.by \in Reconcilers /\ turn.at = "check" /\ ~deletion.complete /\ ~Admitted
  /\ turn' = IF deletion.targets = {} THEN [turn EXCEPT !.at = "capture"]
             ELSE [turn EXCEPT !.at = "delete", !.targets = CHOOSE t \in deletion.targets : TRUE]
  /\ UNCHANGED <<realtime, host, requests, memory, reviews, store, hermes, history, budget>>

DeferDelete ==
  /\ turn.by \in Reconcilers /\ turn.at = "check" /\ ~deletion.complete /\ Admitted
  /\ Settled(turn.by, "pending")
  /\ UNCHANGED <<memory, reviews, store, hermes, history, budget>>

AlreadyComplete ==
  /\ turn.by \in Reconcilers /\ turn.at = "check" /\ deletion.complete
  /\ Settled(turn.by, "complete")
  /\ UNCHANGED <<memory, reviews, store, hermes, history, budget>>

(* The children the compression rule takes for a continuation.             *)
Continuations(s) == {k \in Children(s) : kin[k].branch # {s}}

(* The segments from s on, last first, or none if they form no chain.      *)
Chain ==
  LET Next(s) == Continuations(s)
      one == CHOOSE k \in Next(Voice) : TRUE
      two == CHOOSE k \in Next(one) : TRUE
  IN  IF Voice \notin rotated THEN {<<Voice>>}
      ELSE IF Cardinality(Next(Voice)) # 1 THEN {}
      ELSE IF one \notin rotated THEN {<<one, Voice>>}
      ELSE IF Cardinality(Next(one)) # 1 \/ two \in rotated THEN {}
      ELSE {<<two, one, Voice>>}

(* An archive whose creation never happened has nothing to delete.         *)
MayBeMissing == row.committed = {} /\ row.pending = {<<>>}

CaptureTargets ==
  /\ turn.at = "capture" /\ row.bound
  /\ IF session = {} THEN MayBeMissing /\ turn' = [turn EXCEPT !.at = "copies"]
     ELSE \E t \in Chain : turn' = [turn EXCEPT !.at = "copies", !.targets = t]
  /\ UNCHANGED <<realtime, host, requests, memory, reviews, store, hermes, history, budget>>

CaptureRefused ==
  /\ turn.at = "capture"
  /\ \/ ~row.bound
     \/ session = {} /\ ~MayBeMissing
     \/ session # {} /\ Chain = {}
  /\ Settled(turn.by, "pending")
  /\ UNCHANGED <<memory, reviews, store, hermes, history, budget>>

(* Derived from s: a child, or a branch by its marker.                     *)
Derived(s) == Children(s) \union {k \in Kin : kin[k].here /\ kin[k].branch = {s}}

(* Everything derived from the sessions t, or from what is.                *)
CopiesOf(t) ==
  LET Closed == {S \in SUBSET Kin : \A s \in S \union t : Derived(s) \subseteq S}
  IN  {k \in Kin : \A S \in Closed : k \in S} \ t

(* Copies are frozen before the chain goes: the delete orphans them.       *)
CaptureCopies ==
  /\ turn.at = "copies"
  /\ owed' = CopiesOf(Elements(turn.targets))
  /\ turn' = [turn EXCEPT !.at = "manifest", !.copies = owed']
  /\ UNCHANGED <<realtime, host, requests, memory, reviews, store, hermes, written, tampered,
                 reviewed, budget>>

(* A plausible bug: only the chain is written down.                        *)
SetManifestChain ==
  /\ turn.at = "manifest" /\ Goto("delete")
  /\ deletion' = [deletion EXCEPT !.targets = {turn.targets}]
  /\ UNCHANGED <<realtime, host, requests, memory, reviews, row, ledger, hermes, history, budget>>

SetManifest ==
  /\ turn.at = "manifest" /\ Goto("delete")
  /\ deletion' = [deletion EXCEPT !.targets = {turn.targets}, !.copies = turn.copies]
  /\ UNCHANGED <<realtime, host, requests, memory, reviews, row, ledger, hermes, history, budget>>

(* Hermes removes s, its end with it; what hung on it hangs on nothing.    *)
Remove(s) ==
  /\ rotated' = rotated \ {s}
  /\ session' = IF s = Voice THEN {} ELSE session
  /\ kin' = [k \in Kin |-> IF k = s THEN [kin[k] EXCEPT !.here = FALSE, !.parent = {}, !.branch = {}]
                           ELSE IF kin[k].parent = {s} THEN [kin[k] EXCEPT !.parent = {}]
                           ELSE kin[k]]

(* An ended segment whose continuation is still there is refused.          *)
Held(s) == s \in rotated /\ Continuations(s) # {}

DeleteTarget ==
  /\ turn.at = "delete" /\ turn.targets # <<>> /\ ~Held(Head(turn.targets))
  /\ Remove(Head(turn.targets)) /\ turn' = [turn EXCEPT !.targets = Tail(@)]
  /\ UNCHANGED <<realtime, host, requests, memory, reviews, store, lease, history, budget>>

DeleteRefused ==
  /\ turn.at = "delete" /\ turn.targets # <<>> /\ Held(Head(turn.targets))
  /\ Settled(turn.by, "pending")
  /\ UNCHANGED <<memory, reviews, store, hermes, history, budget>>

Frozen == UNION {Elements(t) : t \in deletion.targets}

VerifyAbsent ==
  /\ turn.at = "delete" /\ turn.targets = <<>>
  /\ IF \E s \in Frozen : Exists(s) THEN Settled(turn.by, "pending")
     ELSE Goto("verify") /\ UNCHANGED <<realtime, host, requests>>
  /\ UNCHANGED <<memory, reviews, store, hermes, history, budget>>

(* What of the copies the verification finds: those frozen, and later ones *)
(* whose marker names a session of the manifest.                           *)
CopiesRemain ==
  \E k \in Kin :
     /\ kin[k].here
     /\ k \in deletion.copies \/ \E s \in Frozen \union deletion.copies : kin[k].branch = {s}

VerifyCopies ==
  /\ turn.at = "verify"
  /\ IF CopiesRemain THEN Settled(turn.by, "pending")
     ELSE Goto("retire") /\ UNCHANGED <<realtime, host, requests>>
  /\ UNCHANGED <<memory, reviews, store, hermes, history, budget>>

RetireLease ==
  /\ turn.at = "retire" /\ Goto("complete")
  /\ live' = {} /\ lease' = IF live = {} THEN lease ELSE lease \ {"ours"}
  /\ UNCHANGED <<realtime, host, requests, fenced, reviews, store, session, kin, rotated,
                 history, budget>>

(* The binding goes, with its review ledger; the delete's row stays.       *)
CompleteDelete ==
  /\ turn.at = "complete" /\ Settled(turn.by, "complete")
  /\ deletion' = [deletion EXCEPT !.complete = TRUE]
  /\ row' = NoRow /\ ledger' = [w \in Windows |-> "none"]
  /\ UNCHANGED <<memory, reviews, hermes, history, budget>>

(* A failure after the fence leaves the delete pending.                    *)
DeleteFails ==
  /\ turn.by \in Reconcilers /\ turn.at # "check" /\ Spend("fault")
  /\ Settled(turn.by, "pending")
  /\ UNCHANGED <<memory, reviews, store, hermes, history>>

-----------------------------------------------------------------------------
(* The process: killed at any step, or closed; and its next start.         *)

Gone ==
  /\ calls' = [c \in Calls |-> NoCall] /\ rcall' = NoReview /\ fcall' = FALSE /\ again' = FALSE
  /\ waiting' = {} /\ UNCHANGED <<batch, acked, fence, asked>>

Crash ==
  /\ host # "down" /\ Spend("crash") /\ host' = "down" /\ turn' = NoTurn /\ Gone
  /\ live' = {} /\ fenced' = FALSE /\ active' = {} /\ thread' = "none" /\ callback' = FALSE
  /\ UNCHANGED <<store, hermes, history>>

(* The bridge closes: requests that do not hold the conversation are gone. *)
BeginClose ==
  /\ host = "up" /\ Spend("crash") /\ host' = "closing" /\ waiting' = {}
  /\ calls' = [c \in Calls |-> IF turn.by = c THEN calls[c] ELSE NoCall]
  /\ rcall' = (IF turn.by = "review" THEN rcall ELSE NoReview) /\ fcall' = (fcall /\ turn.by = "forget")
  /\ UNCHANGED <<batch, acked, fence, asked, turn, again, memory, reviews, store, hermes, history>>

(* Each review the coordinator owns is cancelled and joined.  Its outcome  *)
(* is looked up in the conversation's row, and without the row there is no *)
(* telling that it has quiesced.                                           *)
CloseReviews ==
  /\ host = "closing" /\ Free /\ active # {} /\ thread = "ended" /\ row.bound
  /\ ledger' = Over(CHOOSE w \in active : TRUE)
  /\ again' = (again \/ (deletion.recorded /\ ledger' # ledger))
  /\ active' = {} /\ thread' = "none" /\ callback' = FALSE
  /\ UNCHANGED <<realtime, host, turn, calls, rcall, fcall, memory, row, deletion, hermes,
                 history, budget>>

(* The service ends: its leases are released, its store closed.            *)
Close ==
  /\ host = "closing" /\ Free /\ active = {} /\ ~again
  /\ host' = "down" /\ live' = {} /\ fenced' = FALSE
  /\ lease' = IF live = {} THEN lease ELSE lease \ {"ours"}
  /\ UNCHANGED <<realtime, turn, requests, reviews, store, session, kin, rotated, history, budget>>

(* A plausible bug: an interrupted review is forgotten.                    *)
StartForgetful ==
  /\ host = "down"
  /\ ledger' = [w \in Windows |-> IF ledger[w] \in {"reserved", "accepted"} THEN "none" ELSE ledger[w]]
  /\ IF deletion.recorded /\ ~deletion.complete
     THEN host' = "starting" /\ turn' = [NoTurn EXCEPT !.by = "load", !.at = "check"]
     ELSE host' = "up" /\ UNCHANGED turn
  /\ UNCHANGED <<realtime, requests, memory, reviews, row, deletion, hermes, history, budget>>

(* A review a former process admitted cannot be observed any more; a       *)
(* delete that is not complete is reconciled before anything is served.    *)
Start ==
  /\ host = "down"
  /\ ledger' = [w \in Windows |-> IF ledger[w] \in {"reserved", "accepted"} THEN "unknown" ELSE ledger[w]]
  /\ IF deletion.recorded /\ ~deletion.complete
     THEN host' = "starting" /\ turn' = [NoTurn EXCEPT !.by = "load", !.at = "check"]
     ELSE host' = "up" /\ UNCHANGED turn
  /\ UNCHANGED <<realtime, requests, memory, reviews, row, deletion, hermes, history, budget>>

-----------------------------------------------------------------------------
(* Whoever else uses Hermes.                                               *)

others == <<realtime, host, turn, requests, memory, reviews, store, written, reviewed, owed>>

(* A row of their own, in the archive's session.                           *)
OthersWrite ==
  /\ Spend("foreign") /\ session # {} /\ session' = {Append(rows, Alien) : rows \in session}
  /\ tampered' = TRUE
  /\ UNCHANGED <<others, lease, kin, rotated>>

(* The session is deleted in Hermes.                                       *)
OthersDelete ==
  /\ Spend("foreign") /\ session # {} /\ Remove(Voice)
  /\ tampered' = TRUE
  /\ UNCHANGED <<others, lease>>

(* A session derived from s: a branch bears a marker, a fork is a child    *)
(* and no more.                                                            *)
Derive(s, k, branch) ==
  /\ Exists(s) /\ ~kin[k].born
  /\ kin' = [kin EXCEPT ![k] = [here |-> TRUE, born |-> TRUE, parent |-> {s}, branch |-> branch]]

Branch(s, k) ==
  /\ Spend("foreign") /\ Derive(s, k, {s}) /\ tampered' = TRUE
  /\ UNCHANGED <<others, session, lease, rotated>>

Fork(s, k) ==
  /\ Spend("foreign") /\ Derive(s, k, {}) /\ tampered' = TRUE
  /\ UNCHANGED <<others, session, lease, rotated>>

(* s is compressed: it ends, and k continues it.                           *)
Compress(s, k) ==
  /\ Spend("foreign") /\ s \notin rotated /\ Derive(s, k, {}) /\ rotated' = rotated \union {s}
  /\ tampered' = TRUE
  /\ UNCHANGED <<others, session, lease>>

(* The user removes a derived session.                                     *)
RemoveKin(k) ==
  /\ kin[k].here /\ Remove(k)
  /\ UNCHANGED <<others, lease, tampered, budget>>

(* The lease has run out, and another takes it.                            *)
OthersLease ==
  /\ Spend("foreign") /\ lease' = {Other}
  /\ UNCHANGED <<others, session, kin, rotated, tampered>>

OthersRelease ==
  /\ lease = {Other} /\ lease' = {}
  /\ UNCHANGED <<others, session, kin, rotated, tampered, budget>>

-----------------------------------------------------------------------------
Opening(b) ==
  \/ AlreadyOpen(b) \/ OpenRefused(b) \/ Bind(b) \/ ReleasePrevious(b) \/ Acquire(b)
  \/ LeaseHeld(b) \/ Create(b) \/ Read(b) \/ Settle(b) \/ SettleFails(b)

Archiving(c) ==
  \/ ArchiveRefused(c) \/ BeginPending(c) \/ Write(c) \/ RolledBack(c) \/ Mismatch(c)
  \/ ClearPending(c) \/ Promote(c)

Reviewing ==
  \/ RefuseReview \/ ReviewAnswered \/ JoinPrevious \/ AdmitReview \/ AdmitRefused
  \/ StartReview \/ Unwind

Deleting ==
  \/ CheckDelete \/ DeferDelete \/ AlreadyComplete \/ CaptureTargets \/ CaptureRefused
  \/ CaptureCopies \/ SetManifest \/ DeleteTarget \/ DeleteRefused \/ VerifyAbsent
  \/ VerifyCopies \/ RetireLease \/ CompleteDelete

Failing ==
  \/ \E b \in Openers : OpenFails(b)
  \/ \E c \in Calls : BeginFails(c) \/ WriteUnknown(c) \/ MismatchUnwritten(c) \/ RecordFails(c)
  \/ ReserveFails \/ AcceptFails \/ DeleteFails \/ LeaseLost

Others ==
  \/ OthersWrite \/ OthersDelete \/ OthersLease \/ OthersRelease
  \/ \E s \in Sessions, k \in Kin : Branch(s, k) \/ Fork(s, k) \/ Compress(s, k)
  \/ \E k \in Kin : RemoveKin(k)

Next ==
  \/ FreezeBatch \/ GiveUp \/ RestartRealtime \/ AskForget \/ SendForget
  \/ \E c \in Calls : Send(c) \/ Archiving(c)
  \/ \E w \in Windows : AskReview(w)
  \/ \E b \in Openers : Opening(b)
  \/ Reviewing \/ ThreadFinishes \/ ThreadExits \/ Finished
  \/ ForgetUnbound \/ Tombstone \/ ReconcileAgain \/ Deleting
  \/ Failing \/ Others
  \/ Crash \/ BeginClose \/ CloseReviews \/ Close \/ Start

Spec == Init /\ [][Next]_vars

(* What a running system does go on with: the steps of the companion and   *)
(* of Hermes, the senders' retries, and the end of others' leases.         *)
FairSpec ==
  /\ Spec
  /\ WF_vars(FreezeBatch) /\ WF_vars(SendForget) /\ WF_vars(OthersRelease)
  /\ \A c \in Calls : WF_vars(Send(c)) /\ SF_vars(Opening(c) \/ Archiving(c))
  /\ SF_vars(Opening("review") \/ Reviewing)
  /\ WF_vars(ThreadFinishes \/ ThreadExits) /\ WF_vars(Finished)
  /\ SF_vars(Tombstone \/ ForgetUnbound) /\ SF_vars(ReconcileAgain)
  /\ WF_vars(Deleting)
  /\ WF_vars(CloseReviews \/ Close \/ Start)

-----------------------------------------------------------------------------
(* Properties.                                                             *)

Rows == (0..MaxSeq) \X (0..MaxSeq)
Option(S) == {{}} \union {{x} : x \in S}

TypeOK ==
  /\ batch \in Seq(Rows) /\ acked \in 0..MaxSeq /\ waiting \in Option(Calls)
  /\ fence \in BOOLEAN /\ asked \in {"no", "pending", "complete"}
  /\ host \in {"down", "starting", "up", "closing"}
  /\ turn.by \in Openers \union Reconcilers \union {"none"} /\ turn.fencing \in BOOLEAN
  /\ \A c \in Calls : calls[c].at \in {"none", "open", "archive"} /\ calls[c].rows \in Seq(Rows)
  /\ rcall.at \in {"none", "open", "take"} /\ rcall.window \in Windows \union {0}
  /\ fcall \in BOOLEAN /\ again \in BOOLEAN /\ live \in Option(BOOLEAN) /\ fenced \in BOOLEAN
  /\ active \in Option(Windows) /\ callback \in BOOLEAN
  /\ thread \in {"none", "running", "finishing", "ended"}
  /\ \A option \in {row.committed, row.pending, session} :
       Cardinality(option) <= 1 /\ option \subseteq Seq(Rows)
  /\ row.bound = (row.committed # {} \/ row.pending # {})
  /\ deletion.copies \subseteq Kin /\ deletion.targets \subseteq Seq(Sessions)
  /\ ledger \in [Windows -> {"none", "reserved", "accepted", "over", "unknown"}]
  /\ lease \in {{}, {"ours"}, {Other}}
  /\ kin \in [Kin -> [here : BOOLEAN, born : BOOLEAN, parent : Option(Sessions),
                      branch : Option(Sessions)]]
  /\ rotated \subseteq Sessions /\ written \in Seq(Rows)

(* The archive is an append-only log: whatever crashes, faults, resends    *)
(* and late duplicates there are, rows reach Hermes in order and once,     *)
(* nothing is acknowledged that was not written, and nothing is written    *)
(* after the delete was recorded or somebody changed the session.          *)
IsArchiveLog == Log!LogSpec

(* Write-ahead settles every interruption: the conversation is quarantined *)
(* or the sender fenced only if others did touch the session, or the       *)
(* archive is full.                                                        *)
HonestlyOpen ==
  /\ TypeOK
  /\ ~tampered /\ ~deletion.recorded =>
       /\ ~row.quarantined /\ ~fenced
       /\ fence => Len(written) + MaxBatch > Cap

(* A completed delete has left nothing of what was there to delete when    *)
(* its manifest was made, copies included, nor a later branch; and the     *)
(* session is not bound, opened or made again, by a late request either.   *)
CompleteMeansGone ==
  deletion.complete =>
     /\ session = {} /\ ~row.bound /\ ~Ready
     /\ \A k \in Kin : kin[k].here =>
          k \notin Frozen \union owed /\ \A s \in Frozen \union owed : kin[k].branch # {s}

(* No review runs on for a conversation whose delete is complete: a review *)
(* writes memory from the rows that were deleted.                          *)
NoReviewOfDeleted == deletion.complete => ~ThreadAlive

(* A window is reviewed once at most, whatever is asked again and whatever *)
(* of the first review was interrupted.                                    *)
ReviewedOnce == \A w \in Windows : reviewed[w] <= 1

(* A conversation nobody else touches is archived: each batch is           *)
(* acknowledged, or the user deletes it, or the archive may be full.       *)
BatchArchived ==
  batch # <<>> ~> (batch = <<>> \/ tampered \/ Len(written) + MaxBatch > Cap)

(* A delete settles, unless the chain can no longer be told or copies of   *)
(* it are kept; or unless the outcome of the last review could not be      *)
(* written when its callback ran (review.py:378-383): then that review     *)
(* counts as admitted, and every reconciliation is deferred (forget.py:105)*)
(* until a restart, after which the delete has to settle again.            *)
Kept ==
  \/ rotated # {} \/ \E k \in Kin : kin[k].here
  \/ session = {} /\ row.committed # {} /\ deletion.targets = {}

ForgetSettles ==
  (asked = "pending" /\ row.bound) ~> (deletion.complete \/ Kept \/ Unrecorded)

(* host.py says of close: "Stop the bridge, release every lease, close the *)
(* store; bounded."  Once begun, it ends.                                  *)
CloseEnds == host = "closing" ~> host # "closing"
=============================================================================
