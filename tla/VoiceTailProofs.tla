-------------------------- MODULE VoiceTailProofs --------------------------
(***************************************************************************)
(* Theorems about VoiceTail, for every value of its constants: first the   *)
(* delete record, where what Assign and Overflow do to the rows does not   *)
(* matter, then the rows, and last what a deleted conversation leaves.     *)
(***************************************************************************)
EXTENDS VoiceTailInduction, SubsequenceProofs, FiniteSetTheorems

(* A conversation made now is none of those any file or history names.     *)
LEMMA FreshBinding ==
  ASSUME NEW gen, NEW d, NEW previous
  PROVE  NewBinding(gen, d, previous).id = nextId
  BY DEF NewBinding

(* A change of one field of a delete record leaves the others.             *)
LEMMA RecordFields ==
  ASSUME NEW d, IsRecord(d), NEW x, NEW y
  PROVE  /\ [d EXCEPT !.live = x] = [pending |-> d.pending, outcome |-> d.outcome,
                                     live |-> x, lost |-> d.lost]
         /\ [d EXCEPT !.pending = x] = [pending |-> x, outcome |-> d.outcome,
                                        live |-> d.live, lost |-> d.lost]
         /\ [d EXCEPT !.outcome = x] = [pending |-> d.pending, outcome |-> x,
                                        live |-> d.live, lost |-> d.lost]
         /\ [d EXCEPT !.pending = x, !.outcome = y] = [pending |-> x, outcome |-> y,
                                        live |-> d.live, lost |-> d.lost]
<1> DEFINE p == d.pending  o == d.outcome  l == d.live  t == d.lost
<1>1. d = [pending |-> p, outcome |-> o, live |-> l, lost |-> t]
  BY DEF IsRecord
<1> HIDE DEF p, o, l, t
<1>2. [d EXCEPT !.live = x] = [pending |-> p, outcome |-> o, live |-> x, lost |-> t]
  BY <1>1
<1> DEFINE e == [d EXCEPT !.pending = x]
<1>3. e = [pending |-> x, outcome |-> o, live |-> l, lost |-> t]
  BY <1>1
<1>4. [d EXCEPT !.outcome = x] = [pending |-> p, outcome |-> x, live |-> l, lost |-> t]
  BY <1>1
<1>5. [e EXCEPT !.outcome = y] = [pending |-> x, outcome |-> y, live |-> l, lost |-> t]
  <2> HIDE DEF e
  <2> QED
    BY <1>3
<1> QED
  BY <1>2, <1>3, <1>4, <1>5, Zenon DEF p, o, l, t

LEMMA RecordReadShape ==
  ASSUME RecordShapes
  PROVE  /\ IsRecord(RecordRead)
         /\ \/ RecordRead = diskDeletes.deletes
            \/ RecordRead.pending = {} /\ RecordRead.live = NoBinding
<1>1. RecordRead \in {diskDeletes.deletes, LostDeletes}
  BY Zenon DEF RecordRead
<1>2. IsRecord(LostDeletes)
  BY Zenon DEF LostDeletes, IsRecord
<1>3. LostDeletes.pending = {} /\ LostDeletes.live = NoBinding
  BY DEF LostDeletes
<1> QED
  BY <1>1, <1>2, <1>3 DEF RecordShapes

(* Moving a version-4 tail's delete into the record adds at most that one. *)
LEMMA AdoptedAdds ==
  ASSUME RecordShapes, NEW tail
  PROVE  /\ IsRecord(Adopted(tail))
         /\ Adopted(tail).live = RecordRead.live
         /\ Adopted(tail).lost = RecordRead.lost
         /\ \/ Adopted(tail) = RecordRead
            \/ /\ tail.kind = "archive" /\ tail.forget # NoBinding
               /\ Adopted(tail).pending = RecordRead.pending \union {tail.forget}
<1>1. IsRecord(RecordRead)
  BY RecordReadShape
<1>2. [RecordRead EXCEPT !.pending = RecordRead.pending \union {tail.forget}] =
        [pending |-> RecordRead.pending \union {tail.forget}, outcome |-> RecordRead.outcome,
         live |-> RecordRead.live, lost |-> RecordRead.lost]
  BY <1>1, RecordFields
<1> QED
  BY <1>1, <1>2 DEF Adopted, IsRecord

(* What every open leaves: a record whose live binding is the one adopted, *)
(* which is fresh, or is the tail's and then not a pending delete.         *)
LEMMA OpenFacts ==
  ASSUME RecordShapes, LiveIsKept, Open
  PROVE  /\ pc = "down" /\ pc' = "idle"
         /\ UNCHANGED <<diskTail, diskDeletes, offered, acked, released>>
         /\ IsRecord(deletes') /\ deletes'.live = binding'
         /\ \A b \in deletes'.pending :
              \/ b \in diskDeletes.deletes.pending
              \/ diskTail.kind = "archive" /\ diskTail.forget # NoBinding /\ b = diskTail.forget
         /\ version' \in Nat /\ forgetVer' \in {0, version'}
         /\ written' = 0 /\ frozenVer' = 0
         /\ deletes'.pending # {} => forgetVer' >= 1
         /\ \/ binding'.id = nextId /\ nextId' = nextId + 1 /\ flight' = <<>>
            \/ /\ diskTail.kind = "archive" /\ nextId' = nextId
               /\ binding' = diskTail.binding /\ flight' = diskTail.flight
               /\ binding' \notin deletes'.pending
<1> DEFINE Adoptable(d) ==
      /\ IsRecord(d)
      /\ \A b \in d.pending :
           \/ b \in diskDeletes.deletes.pending
           \/ diskTail.kind = "archive" /\ diskTail.forget # NoBinding /\ b = diskTail.forget
<1>1. Adoptable(RecordRead) /\ Adoptable(Adopted(diskTail))
  BY RecordReadShape, AdoptedAdds
<1>2. ASSUME NEW d, Adoptable(d), NEW x
      PROVE  /\ [d EXCEPT !.live = x] = [pending |-> d.pending, outcome |-> d.outcome,
                                         live |-> x, lost |-> d.lost]
             /\ Adoptable([d EXCEPT !.live = x])
             /\ [d EXCEPT !.live = x].live = x /\ [d EXCEPT !.live = x].pending = d.pending
  <2>1. [d EXCEPT !.live = x] = [pending |-> d.pending, outcome |-> d.outcome,
                                live |-> x, lost |-> d.lost]
    BY <1>2, RecordFields
  <2> QED
    BY <1>2, <2>1 DEF IsRecord
<1> HIDE DEF Adoptable
<1>3. ASSUME NEW d, NEW n \in {0, 1}, Opened(d, n), deletes'.pending = d.pending
      PROVE  /\ pc' = "idle" /\ UNCHANGED <<diskTail, diskDeletes, offered, acked, released>>
             /\ version' \in Nat /\ forgetVer' \in {0, version'}
             /\ written' = 0 /\ frozenVer' = 0
             /\ deletes'.pending # {} => forgetVer' >= 1
  BY <1>3 DEF Opened, disk
<1>4. ASSUME NEW d, NEW gen, NEW previous, Adoptable(d),
             Retire(d, NewBinding(gen, d, previous)), Opened(d, 0), pc = "down"
      PROVE  /\ Adoptable(deletes') /\ deletes'.live = binding'
             /\ binding'.id = nextId /\ nextId' = nextId + 1 /\ flight' = <<>>
             /\ deletes'.pending = d.pending
  <2> DEFINE new == NewBinding(gen, d, previous)
  <2>1. /\ deletes' = [d EXCEPT !.live = new] /\ binding' = new
        /\ nextId' = nextId + 1 /\ flight' = <<>>
    BY <1>4 DEF Retire
  <2>2. new.id = nextId
    BY FreshBinding
  <2> HIDE DEF new
  <2> QED
    BY <1>2, <1>4, <2>1, <2>2
<1>5. CASE OpenFresh
  BY <1>1, <1>3, <1>4, <1>5 DEF OpenFresh, Adoptable
<1>6. CASE OpenRetired
  BY <1>1, <1>3, <1>4, <1>6 DEF OpenRetired, Adoptable
<1>7. CASE OpenLegacy
  <2> DEFINE d   == RecordRead
             new == NewBinding(0, d, NoBinding)
  <2>1. /\ deletes' = [d EXCEPT !.live = new] /\ binding' = new
        /\ nextId' = nextId + 1 /\ flight' = <<>> /\ Opened(d, 1) /\ pc = "down"
    BY <1>7 DEF OpenLegacy
  <2>2. new.id = nextId /\ Adoptable(d)
    BY FreshBinding, <1>1
  <2> HIDE DEF d, new
  <2>3. Adoptable(deletes') /\ deletes'.live = new /\ deletes'.pending = d.pending
    BY <1>2, <2>1, <2>2
  <2> QED
    BY <1>3, <2>1, <2>2, <2>3 DEF Adoptable
<1>8. CASE OpenArchive
  <2>1. diskTail.binding \notin Adopted(diskTail).pending
    <3>1. diskTail.forget # NoBinding => diskTail.forget # diskTail.binding
      BY <1>8 DEF OpenArchive, Parses
    <3>2. RecordRead.pending # {} => RecordRead.live = diskTail.binding
      BY <1>8, Zenon DEF OpenArchive, Unproven, HoldsDeletes, TailBinding
    <3>3. RecordRead.live \notin RecordRead.pending
      BY RecordReadShape DEF LiveIsKept
    <3> QED
      BY <3>1, <3>2, <3>3, AdoptedAdds
  <2> QED
    BY <1>1, <1>2, <1>3, <1>8, <2>1 DEF OpenArchive, Adoptable
<1>9. CASE OpenRefused
  <2> DEFINE d == IF diskTail.kind = "legacy" THEN RecordRead
                  ELSE [Adopted(diskTail) EXCEPT !.live = diskTail.binding]
  <2>1. Adoptable(d)
    BY <1>1, <1>2
  <2> HIDE DEF d
  <2>2. pc = "down" /\ Retire(d, NewBinding(0, d, NoBinding)) /\ Opened(d, 0)
    BY <1>9, Zenon DEF OpenRefused, d
  <2> QED
    BY <1>3, <1>4, <2>1, <2>2 DEF Adoptable
<1> QED
  BY <1>5, <1>6, <1>7, <1>8, <1>9 DEF Open

(* A finite set of numbers that is not empty has a greatest one.           *)
LEMMA FiniteHasMax ==
  ASSUME NEW S, IsFiniteSet(S), S # {}, S \subseteq Nat
  PROVE  Max(S) \in S /\ \A y \in S : Max(S) >= y
<1> DEFINE HasMax(U) == \E x \in U : \A y \in U : x >= y
           T == {n \in Nat : \E U \in SUBSET S : U # {} /\ Cardinality(U) = n /\ ~HasMax(U)}
<1>1. HasMax(S)
  <2>1. SUFFICES ASSUME ~HasMax(S) PROVE FALSE
    OBVIOUS
  <2>2. Cardinality(S) \in T
    <3>1. Cardinality(S) \in Nat
      BY FS_CardinalityType
    <3> QED BY <2>1, <3>1
  <2>3. PICK m \in T : \A k \in T : m <= k
    <3>1. T # {} /\ T \subseteq Nat
      BY <2>2
    <3> HIDE DEF T
    <3> QED BY <3>1, LeastNumber
  <2>4. PICK U \in SUBSET S : U # {} /\ Cardinality(U) = m /\ ~HasMax(U)
    BY <2>3
  <2>5. PICK z \in U : TRUE
    BY <2>4
  <2> DEFINE V == U \ {z}
  <2>6. IsFiniteSet(U) /\ m \in Nat
    BY FS_Subset, <2>3
  <2>7. Cardinality(V) = m - 1 /\ m - 1 \in Nat
    <3>1. IsFiniteSet(V) /\ Cardinality(V) = m - 1
      BY <2>4, <2>5, <2>6, FS_RemoveElement
    <3>2. Cardinality(V) \in Nat
      BY <3>1, FS_CardinalityType
    <3> QED BY <3>1, <3>2
  <2>8. m - 1 \notin T
    <3> HIDE DEF T
    <3> QED BY <2>3, <2>6, <2>7
  <2>9. V = {} \/ HasMax(V)
    <3>1. V \in SUBSET S
      BY <2>4
    <3> HIDE DEF V, HasMax
    <3> QED BY <2>7, <2>8, <3>1
  <2>10. CASE V = {}
    <3>1. \A y \in U : y = z
      BY <2>10
    <3>2. z \in Nat
      BY <2>5
    <3> QED BY <2>4, <2>5, <3>1, <3>2
  <2>11. CASE HasMax(V)
    <3>1. PICK x \in V : \A y \in V : x >= y
      BY <2>11
    <3>2. \A y \in U : y \in V \/ y = z
      OBVIOUS
    <3>3. x \in Nat /\ z \in Nat /\ x \in U /\ V \subseteq Nat
      BY <2>5
    <3>4. (\A y \in U : x >= y) \/ (\A y \in U : z >= y)
      <4> HIDE DEF V
      <4> QED BY <3>1, <3>2, <3>3
    <3> QED BY <2>4, <2>5, <3>3, <3>4
  <2> QED BY <2>9, <2>10, <2>11
<1> QED
  BY <1>1 DEF Max

(* The generation of a new conversation is after that of every recorded    *)
(* delete, and right after only that of the conversation it replaces.      *)
LEMMA RetireGenSkips ==
  ASSUME NEW gen \in Nat, NEW d, NEW previous, IsFiniteSet(d.pending),
         d.pending \subseteq Bindings, d.outcome \in Bindings, d.live \in Bindings
  PROVE  /\ RetireGen(gen, d, previous) \in Nat
         /\ RetireGen(gen, d, previous) >= gen
         /\ \A r \in Listed(d) :
              \/ r.gen + 1 < RetireGen(gen, d, previous)
              \/ r = previous /\ r.gen + 1 <= RetireGen(gen, d, previous)
<1> DEFINE L == Listed(d)
           after == [r \in L |-> r.gen + 1]
           G == {r.gen + 1 : r \in L}
           S == {gen, d.live.gen} \union G
           floor == Max(S)
           new == IF \E r \in L : floor = r.gen + 1 /\ r # previous THEN floor + 1 ELSE floor
<1>1. L \subseteq Bindings /\ \A r \in Bindings : r.gen \in Nat
  BY DEF Listed, Bindings
<1>2. IsFiniteSet(L)
  <2>1. IsFiniteSet(d.pending \union {d.outcome})
    BY FS_AddElement
  <2>2. L \in SUBSET (d.pending \union {d.outcome})
    BY DEF Listed
  <2> QED
    BY <2>1, <2>2, FS_Subset
<1>3. IsFiniteSet(G)
  <2>1. after \in Surjection(L, G)
    BY DEF Surjection
  <2> QED
    BY <1>2, <2>1, FS_Surjection
<1>4. IsFiniteSet(S) /\ S \subseteq Nat /\ S # {}
  <2>1. IsFiniteSet({gen, d.live.gen})
    <3> DEFINE A == {gen}
               B == {d.live.gen}
    <3>1. IsFiniteSet(A) /\ IsFiniteSet(B)
      BY FS_Singleton
    <3>2. {gen, d.live.gen} = A \union B
      OBVIOUS
    <3> HIDE DEF A, B
    <3> QED BY <3>1, <3>2, FS_Union
  <2>2. IsFiniteSet(S)
    <3> HIDE DEF G
    <3> QED BY <1>3, <2>1, FS_Union
  <2>3. d.live.gen \in Nat
    BY <1>1
  <2> QED
    BY <1>1, <2>2, <2>3
<1>5. floor \in S /\ \A y \in S : floor >= y
  <2> HIDE DEF S
  <2> QED BY <1>4, FiniteHasMax
<1>6. floor \in Nat /\ floor >= gen /\ \A r \in L : r.gen + 1 <= floor /\ r.gen \in Nat
  <2>1. floor \in Nat
    BY <1>4, <1>5
  <2>2. gen \in S /\ \A r \in L : r.gen + 1 \in S /\ r.gen \in Nat
    BY <1>1
  <2> HIDE DEF S, L
  <2> QED BY <1>5, <2>1, <2>2
<1>7. RetireGen(gen, d, previous) = new
  BY DEF RetireGen, Listed
<1> HIDE DEF floor, L
<1> QED
  BY <1>6, <1>7 DEF L

USE DEF Up, Writing, Known

(* Initially nothing is known, offered or released.                        *)
LEMMA InductiveInit == Init => Inductive
<1> SUFFICES ASSUME Init PROVE Inductive
  OBVIOUS
<1>1. PICK kind \in InitialTails : diskTail = InitialTail(kind) /\ nextId = IF kind = "forget" THEN 3 ELSE 1
  BY DEF Init
<1>0. RecordShapes
  BY DEF Init, RecordShapes, IsRecord, NoDeletes
<1>2. KnownIds
  BY <1>1, VoiceTailAssumption DEF Init, KnownIds, InitialTail, NoTail, NoDeletes, NoBinding
<1>3. VersionOrder
  BY DEF Init, VersionOrder, NoDeletes
<1>4. LiveIsKept
  BY DEF Init, LiveIsKept, NoDeletes
<1>5. WritesAreCurrent /\ SnapshotIsSafe
  BY DEF Init, WritesAreCurrent, SnapshotIsSafe
<1>6. ReleasedIsRetired /\ OfferDurable
  BY DEF Init, ReleasedIsRetired, OfferDurable
<1> QED
  BY <1>0, <1>2, <1>3, <1>4, <1>5, <1>6 DEF Inductive

(* The request to forget keeps the record a record and names the new       *)
(* conversation live; an acknowledgment takes one delete from the pending. *)
LEMMA RequestForgetRecord ==
  ASSUME RecordShapes, RequestForget
  PROVE  /\ IsRecord(deletes') /\ deletes'.live = binding' /\ binding'.id = nextId
         /\ deletes'.pending \in {deletes.pending, deletes.pending \union {binding}}
<1> DEFINE new == NewBinding(binding.gen + 1, deletes, binding)
           d   == IF EverOffered
                  THEN [deletes EXCEPT !.pending = @ \union {binding}]
                  ELSE [deletes EXCEPT !.outcome = NewestOutcome(deletes, binding)]
<1>1. IsRecord(d) /\ d.pending \in {deletes.pending, deletes.pending \union {binding}}
  <2>1. IsRecord(deletes)
    BY DEF RecordShapes
  <2>2. /\ [deletes EXCEPT !.pending = deletes.pending \union {binding}] =
             [pending |-> deletes.pending \union {binding}, outcome |-> deletes.outcome,
              live |-> deletes.live, lost |-> deletes.lost]
        /\ [deletes EXCEPT !.outcome = NewestOutcome(deletes, binding)] =
             [pending |-> deletes.pending, outcome |-> NewestOutcome(deletes, binding),
              live |-> deletes.live, lost |-> deletes.lost]
    BY <2>1, RecordFields
  <2> QED
    BY <2>2 DEF IsRecord
<1>2. new.id = nextId
  BY FreshBinding
<1>3. deletes' = [d EXCEPT !.live = new] /\ binding' = new
  BY DEF RequestForget, Retire
<1> HIDE DEF new, d
<1>4. [d EXCEPT !.live = new] = [pending |-> d.pending, outcome |-> d.outcome,
                                live |-> new, lost |-> d.lost]
  BY <1>1, RecordFields
<1> QED
  BY <1>1, <1>2, <1>3, <1>4 DEF IsRecord

LEMMA AcknowledgeForgetRemoves ==
  ASSUME RecordShapes, NEW b, AcknowledgeForget(b)
  PROVE  /\ IsRecord(deletes') /\ deletes'.live = deletes.live
         /\ deletes'.pending = deletes.pending \ {b}
<1>1. deletes' = [pending |-> deletes.pending \ {b}, outcome |-> NewestOutcome(deletes, b),
                  live |-> deletes.live, lost |-> deletes.lost]
  BY RecordFields DEF RecordShapes, AcknowledgeForget
<1> QED
  BY <1>1 DEF IsRecord

LEMMA KnownIdsStep == Inductive /\ [Next]_vars => KnownIds'
<1> SUFFICES ASSUME Inductive, [Next]_vars PROVE KnownIds'
  OBVIOUS
<1> USE DEF Inductive, KnownIds, conversation, versions, mirror, disk, history, bounds
<1>1. CASE StoreChange
  BY <1>1 DEF StoreChange, RecordUserTranscript, OpenSegment, ExtendSegment, CloseSegment,
     OtherChange, Update, Changed, StoreFrame
<1>2. CASE Archive
  BY <1>2 DEF Archive, Freeze, NextBatch, Acknowledge, Changed, Batch
<1>3. CASE RequestForget
  BY <1>3, RequestForgetRecord DEF RequestForget, Retire
<1>4. CASE NextDeletes
  BY <1>4 DEF NextDeletes
<1>9. CASE \E b \in released : AcknowledgeForget(b)
  BY <1>9, AcknowledgeForgetRemoves DEF AcknowledgeForget, Changed
<1>5. CASE Mirror
  BY <1>5 DEF Mirror, Snapshot, WriteRecord, WriteTail, Landed, WriteFails, CurrentTail, WritesAreCurrent
<1>6. CASE Open
  BY <1>6, OpenFacts
<1>7. CASE Environment
  BY <1>7 DEF Environment, Crash, Close, CorruptTail, CorruptRecord, Down, NoDeletes
<1>8. CASE UNCHANGED vars
  BY <1>8 DEF vars
<1> QED
  BY <1>1, <1>2, <1>3, <1>4, <1>5, <1>6, <1>7, <1>8, <1>9 DEF Next, Forget

(* Every copy of the record is made from another one or by these changes.  *)
LEMMA RecordShapesStep == Inductive /\ [Next]_vars => RecordShapes'
<1> SUFFICES ASSUME Inductive, [Next]_vars PROVE RecordShapes'
  OBVIOUS
<1> USE DEF Inductive, RecordShapes, conversation, versions, mirror, disk, history, bounds
<1>1. CASE StoreChange
  BY <1>1 DEF StoreChange, RecordUserTranscript, OpenSegment, ExtendSegment, CloseSegment,
     OtherChange, Update, Changed, StoreFrame
<1>2. CASE Archive
  BY <1>2 DEF Archive, Freeze, NextBatch, Acknowledge, Changed, Batch
<1>3. CASE RequestForget
  BY <1>3, RequestForgetRecord DEF RequestForget, Retire
<1>4. CASE NextDeletes
  BY <1>4 DEF NextDeletes
<1>5. CASE \E b \in released : AcknowledgeForget(b)
  BY <1>5, AcknowledgeForgetRemoves DEF AcknowledgeForget, Changed
<1>6. CASE Mirror
  BY <1>6 DEF Mirror, Snapshot, WriteRecord, WriteTail, Landed, WriteFails, CurrentTail
<1>7. CASE Open
  BY <1>7, OpenFacts
<1>8. CASE Environment
  <2>1. IsRecord(NoDeletes)
    BY Zenon DEF IsRecord, NoDeletes
  <2> offered' = offered
    BY <1>8 DEF Environment, Crash, Close, CorruptTail, CorruptRecord
  <2>2. \/ deletes' = NoDeletes /\ diskDeletes' = diskDeletes /\ pc' = "down"
        \/ deletes' = deletes /\ pc' = pc /\ snap' = snap
           /\ (diskDeletes' = diskDeletes \/ diskDeletes'.deletes = NoDeletes)
    BY <1>8 DEF Environment, Crash, Close, CorruptTail, CorruptRecord, Down
  <2> QED
    BY <2>1, <2>2 DEF Writing
<1>9. CASE UNCHANGED vars
  BY <1>9 DEF vars
<1> QED
  BY <1>1, <1>2, <1>3, <1>4, <1>5, <1>6, <1>7, <1>8, <1>9 DEF Next, Forget

(* Versions only rise; a write takes the version it started at.            *)
LEMMA VersionOrderStep == Inductive /\ [Next]_vars => VersionOrder'
<1> SUFFICES ASSUME Inductive, [Next]_vars PROVE VersionOrder'
  OBVIOUS
<1> USE DEF Inductive, VersionOrder, KnownIds, conversation, versions, mirror, disk, history, bounds
<1>1. CASE StoreChange
  BY <1>1 DEF StoreChange, RecordUserTranscript, OpenSegment, ExtendSegment, CloseSegment,
     OtherChange, Update, Changed, StoreFrame
<1>2. CASE Archive
  BY <1>2 DEF Archive, Freeze, NextBatch, Acknowledge, Changed, Batch
<1>3. CASE RequestForget
  BY <1>3, RequestForgetRecord DEF RequestForget, Retire
<1>4. CASE NextDeletes
  BY <1>4 DEF NextDeletes
<1>5. CASE \E b \in released : AcknowledgeForget(b)
  <2>1. PICK b \in released : AcknowledgeForget(b)
    BY <1>5
  <2>2. deletes'.pending \subseteq deletes.pending
    BY <2>1, AcknowledgeForgetRemoves
  <2> QED
    BY <2>1, <2>2 DEF AcknowledgeForget, Changed
<1>6. CASE Mirror
  BY <1>6 DEF Mirror, Snapshot, WriteRecord, WriteTail, Landed, WriteFails, CurrentTail
<1>7. CASE Open
  BY <1>7, OpenFacts
<1>8. CASE Environment
  BY <1>8 DEF Environment, Crash, Close, CorruptTail, CorruptRecord, Down, NoDeletes, TailBinding
<1>9. CASE UNCHANGED vars
  BY <1>9 DEF vars
<1> QED
  BY <1>1, <1>2, <1>3, <1>4, <1>5, <1>6, <1>7, <1>8, <1>9 DEF Next, Forget

(* A fresh conversation is in no record; the tail's is adopted only when   *)
(* the record names it live.                                               *)
LEMMA LiveIsKeptStep == Inductive /\ [Next]_vars => LiveIsKept'
<1> SUFFICES ASSUME Inductive, [Next]_vars PROVE LiveIsKept'
  OBVIOUS
<1> USE DEF Inductive, LiveIsKept, KnownIds, conversation, versions, mirror, disk, history, bounds
<1>1. CASE StoreChange
  BY <1>1 DEF StoreChange, RecordUserTranscript, OpenSegment, ExtendSegment, CloseSegment,
     OtherChange, Update, Changed, StoreFrame
<1>2. CASE Archive
  BY <1>2 DEF Archive, Freeze, NextBatch, Acknowledge, Changed, Batch
<1>3. CASE RequestForget
  BY <1>3, RequestForgetRecord DEF RequestForget, Retire
<1>4. CASE NextDeletes
  BY <1>4 DEF NextDeletes
<1>5. CASE \E b \in released : AcknowledgeForget(b)
  BY <1>5, AcknowledgeForgetRemoves DEF AcknowledgeForget, Changed
<1>6. CASE Mirror
  BY <1>6 DEF Mirror, Snapshot, WriteRecord, WriteTail, Landed, WriteFails, CurrentTail
<1>7. CASE Open
  BY <1>7, OpenFacts
<1>8. CASE Environment
  BY <1>8 DEF Environment, Crash, Close, CorruptTail, CorruptRecord, Down, NoDeletes, TailBinding
<1>9. CASE UNCHANGED vars
  BY <1>9 DEF vars
<1> QED
  BY <1>1, <1>2, <1>3, <1>4, <1>5, <1>6, <1>7, <1>8, <1>9 DEF Next, Forget

(* A request to forget or a freeze takes a version no write has yet; after *)
(* it a write carries what the version promises.                           *)
LEMMA WritesAreCurrentStep == Inductive /\ [Next]_vars => WritesAreCurrent'
<1> SUFFICES ASSUME Inductive, [Next]_vars PROVE WritesAreCurrent'
  OBVIOUS
<1> USE DEF Inductive, WritesAreCurrent, VersionOrder, KnownIds, conversation, versions, mirror, disk, history, bounds
<1>1. CASE StoreChange
  BY <1>1 DEF StoreChange, RecordUserTranscript, OpenSegment, ExtendSegment, CloseSegment,
     OtherChange, Update, Changed, StoreFrame
<1>2. CASE Archive
  BY <1>2 DEF Archive, Freeze, NextBatch, Acknowledge, Changed, Batch
<1>3. CASE RequestForget
  BY <1>3, RequestForgetRecord DEF RequestForget, Retire
<1>4. CASE NextDeletes
  BY <1>4 DEF NextDeletes
<1>5. CASE \E b \in released : AcknowledgeForget(b)
  BY <1>5, AcknowledgeForgetRemoves DEF AcknowledgeForget, Changed
<1>6. CASE Mirror
  BY <1>6 DEF Mirror, Snapshot, WriteRecord, WriteTail, Landed, WriteFails, CurrentTail
<1>7. CASE Open
  BY <1>7, OpenFacts
<1>8. CASE Environment
  BY <1>8 DEF Environment, Crash, Close, CorruptTail, CorruptRecord, Down, NoDeletes, TailBinding
<1>9. CASE UNCHANGED vars
  BY <1>9 DEF vars
<1> QED
  BY <1>1, <1>2, <1>3, <1>4, <1>5, <1>6, <1>7, <1>8, <1>9 DEF Next, Forget

(* A snapshot is safe because what is live is.                             *)
LEMMA SnapshotIsSafeStep == Inductive /\ [Next]_vars => SnapshotIsSafe'
<1> SUFFICES ASSUME Inductive, [Next]_vars PROVE SnapshotIsSafe'
  OBVIOUS
<1> USE DEF Inductive, SnapshotIsSafe, WritesAreCurrent, VersionOrder, KnownIds, LiveIsKept, ReleasedIsRetired, OfferDurable, conversation, versions, mirror, disk, history, bounds
<1>1. CASE StoreChange
  BY <1>1 DEF StoreChange, RecordUserTranscript, OpenSegment, ExtendSegment, CloseSegment,
     OtherChange, Update, Changed, StoreFrame
<1>2. CASE Archive
  <2>1. CASE Freeze
    BY <2>1 DEF Freeze, Changed
  <2>2. CASE NextBatch
    BY <2>2 DEF NextBatch, Batch
  <2>3. CASE \E batch \in offered : Acknowledge(batch)
    <3>1. \A batch \in offered \ acked' :
            batch.binding # binding
      <4> SUFFICES ASSUME NEW batch \in offered \ acked', batch.binding = binding PROVE FALSE
        OBVIOUS
      <4>1. batch.rows = flight
        BY <2>3 DEF Acknowledge
      <4>2. batch = Batch
        BY <4>1 DEF RecordShapes, Batch
      <4> QED
        BY <4>2, <2>3 DEF Acknowledge
    <3> QED
      BY <3>1, <2>3 DEF Acknowledge, Changed
  <2> QED
    BY <1>2, <2>1, <2>2, <2>3 DEF Archive
<1>3. CASE RequestForget
  BY <1>3, RequestForgetRecord DEF RequestForget, Retire
<1>4. CASE NextDeletes
  BY <1>4 DEF NextDeletes
<1>5. CASE \E b \in released : AcknowledgeForget(b)
  BY <1>5, AcknowledgeForgetRemoves DEF AcknowledgeForget, Changed
<1>6. CASE Mirror
  BY <1>6 DEF Mirror, Snapshot, WriteRecord, WriteTail, Landed, WriteFails, CurrentTail
<1>7. CASE Open
  BY <1>7, OpenFacts
<1>8. CASE Environment
  BY <1>8 DEF Environment, Crash, Close, CorruptTail, CorruptRecord, Down, NoDeletes, TailBinding
<1>9. CASE UNCHANGED vars
  BY <1>9 DEF vars
<1> QED
  BY <1>1, <1>2, <1>3, <1>4, <1>5, <1>6, <1>7, <1>8, <1>9 DEF Next, Forget

(* Deletes are released once the tail on disk and any write under way      *)
(* carry the live conversation, which is no pending delete.                *)
LEMMA ReleasedIsRetiredStep == Inductive /\ [Next]_vars => ReleasedIsRetired'
<1> SUFFICES ASSUME Inductive, [Next]_vars PROVE ReleasedIsRetired'
  OBVIOUS
<1> USE DEF Inductive, ReleasedIsRetired, SnapshotIsSafe, WritesAreCurrent, VersionOrder, KnownIds, LiveIsKept, TailBinding, conversation, versions, mirror, disk, history, bounds
<1>1. CASE StoreChange
  BY <1>1 DEF StoreChange, RecordUserTranscript, OpenSegment, ExtendSegment, CloseSegment,
     OtherChange, Update, Changed, StoreFrame
<1>2. CASE Archive
  BY <1>2 DEF Archive, Freeze, NextBatch, Acknowledge, Changed, Batch
<1>3. CASE RequestForget
  BY <1>3, RequestForgetRecord DEF RequestForget, Retire
<1>4. CASE NextDeletes
  BY <1>4 DEF NextDeletes
<1>5. CASE \E b \in released : AcknowledgeForget(b)
  BY <1>5, AcknowledgeForgetRemoves DEF AcknowledgeForget, Changed
<1>6. CASE Mirror
  BY <1>6 DEF Mirror, Snapshot, WriteRecord, WriteTail, Landed, WriteFails, CurrentTail
<1>7. CASE Open
  BY <1>7, OpenFacts
<1>8. CASE Environment
  <2>1. \A b \in released : b # NoBinding
    BY DEF Known, NoBinding
  <2>2. released' = released /\ (binding' = NoBinding \/ binding' = binding)
    BY <1>8 DEF Environment, Crash, Close, CorruptTail, CorruptRecord, Down
  <2>3. diskTail' = diskTail \/ diskTail' = [kind |-> "malformed"]
    BY <1>8 DEF Environment, Crash, Close, CorruptTail, CorruptRecord
  <2> QED
    BY <2>1, <2>2, <2>3
<1>9. CASE UNCHANGED vars
  BY <1>9 DEF vars
<1> QED
  BY <1>1, <1>2, <1>3, <1>4, <1>5, <1>6, <1>7, <1>8, <1>9 DEF Next, Forget

(* A batch is offered once the tail on disk and any write under way carry  *)
(* it as the batch in flight.                                              *)
LEMMA OfferDurableStep == Inductive /\ [Next]_vars => OfferDurable'
<1> SUFFICES ASSUME Inductive, [Next]_vars PROVE OfferDurable'
  OBVIOUS
<1> USE DEF Inductive, OfferDurable, SnapshotIsSafe, WritesAreCurrent, VersionOrder, KnownIds, conversation, versions, mirror, disk, history, bounds
<1>1. CASE StoreChange
  BY <1>1 DEF StoreChange, RecordUserTranscript, OpenSegment, ExtendSegment, CloseSegment,
     OtherChange, Update, Changed, StoreFrame
<1>2. CASE Archive
  <2>1. CASE Freeze
    BY <2>1 DEF Freeze, Changed, RecordShapes
  <2>2. CASE NextBatch
    BY <2>2 DEF NextBatch, Batch
  <2>3. CASE \E batch \in offered : Acknowledge(batch)
    <3>1. \A batch \in offered \ acked' :
            batch.binding # binding
      <4> SUFFICES ASSUME NEW batch \in offered \ acked', batch.binding = binding PROVE FALSE
        OBVIOUS
      <4>1. batch.rows = flight
        BY <2>3 DEF Acknowledge
      <4>2. batch = Batch
        BY <4>1 DEF RecordShapes, Batch
      <4> QED
        BY <4>2, <2>3 DEF Acknowledge
    <3> QED
      BY <3>1, <2>3 DEF Acknowledge, Changed
  <2> QED
    BY <1>2, <2>1, <2>2, <2>3 DEF Archive
<1>3. CASE RequestForget
  BY <1>3, RequestForgetRecord DEF RequestForget, Retire
<1>4. CASE NextDeletes
  BY <1>4 DEF NextDeletes
<1>5. CASE \E b \in released : AcknowledgeForget(b)
  BY <1>5 DEF AcknowledgeForget
<1>6. CASE Mirror
  <2>1. CASE Snapshot
    BY <2>1 DEF Snapshot
  <2>2. CASE WriteRecord
    BY <2>2 DEF WriteRecord
  <2>3. CASE WriteTail
    BY <2>3 DEF WriteTail
  <2>4. CASE Landed \/ WriteFails
    BY <2>4 DEF Landed, WriteFails
  <2> QED BY <1>6, <2>1, <2>2, <2>3, <2>4 DEF Mirror
<1>7. CASE Open
  BY <1>7, OpenFacts
<1>8. CASE Environment
  BY <1>8 DEF Environment, Crash, Close, CorruptTail, CorruptRecord, Down, NoDeletes, TailBinding
<1>9. CASE UNCHANGED vars
  BY <1>9 DEF vars
<1> QED
  BY <1>1, <1>2, <1>3, <1>4, <1>5, <1>6, <1>7, <1>8, <1>9 DEF Next, Forget

LEMMA InductiveStep == Inductive /\ [Next]_vars => Inductive'
  BY RecordShapesStep, KnownIdsStep, VersionOrderStep, LiveIsKeptStep, WritesAreCurrentStep,
     SnapshotIsSafeStep, ReleasedIsRetiredStep, OfferDurableStep DEF Inductive

THEOREM InductiveInvariant == Spec => []Inductive
  BY InductiveInit, InductiveStep, PTL DEF Spec

(* A delete handed to the companion names a conversation that no process   *)
(* and no file can archive under again, whatever crashes, failed writes    *)
(* and damaged files came before (next_deletes, request_forget, open).     *)
THEOREM ReleasedStaysRetired == Spec => []ReleasedIsRetired
<1>1. Inductive => ReleasedIsRetired
  BY DEF Inductive
<1> QED
  BY <1>1, InductiveInvariant, PTL

(* A batch sent and not yet acknowledged is, at every moment, exactly the  *)
(* frozen batch of its conversation in memory and on disk (next_batch).    *)
THEOREM OfferStaysDurable == Spec => []OfferDurable
<1>1. Inductive => OfferDurable
  BY DEF Inductive
<1> QED
  BY <1>1, InductiveInvariant, PTL

-----------------------------------------------------------------------------
(* The delete record.                                                      *)

LEMMA DeletesInit == Init => DeletesInductive
<1> SUFFICES ASSUME Init PROVE DeletesInductive
  OBVIOUS
<1>1. PICK kind \in InitialTails :
        /\ diskTail = InitialTail(kind) /\ nextId = IF kind = "forget" THEN 3 ELSE 1
        /\ replaced = IF kind = "forget"
                      THEN {<<[id |-> 2, gen |-> 1], [id |-> 1, gen |-> 0]>>} ELSE {}
  BY DEF Init
<1>2. kind \in {"none", "legacy", "forget"}
  BY VoiceTailAssumption
<1>3. /\ pc = "down" /\ binding = NoBinding /\ deletes = NoDeletes
      /\ diskDeletes = [readable |-> TRUE, deletes |-> NoDeletes]
      /\ offered = {} /\ released = {} /\ asked = {} /\ recorded = {} /\ promised = {}
  BY DEF Init
<1>4. /\ NoDeletes.pending = {} /\ NoDeletes.outcome = NoBinding /\ NoDeletes.live = NoBinding
      /\ NoDeletes.lost = FALSE
  BY DEF NoDeletes
<1>5. Inductive
  BY InductiveInit
<1>6. RecordsSound
  <2>1. NoBinding \in Bindings
    BY <1>1, <1>2 DEF NoBinding, Bindings
  <2>2. SoundRecord(NoDeletes)
    BY <1>4, <2>1, FS_EmptySet, VoiceTailAssumption DEF SoundRecord, RecordValid
  <2>3. diskTail.kind = "archive" => diskTail.binding \in Bindings
    BY <1>1, <1>2 DEF InitialTail, NoTail, Bindings
  <2> QED
    BY <1>3, <2>1, <2>2, <2>3 DEF RecordsSound
<1>7. EarlierTail
  BY <1>1, <1>2, <1>3 DEF EarlierTail, InitialTail, NoTail, NoBinding
<1>8. AdjacentsReplaced
  BY <1>3, <1>4 DEF AdjacentsReplaced, AdjacentIsReplaced, Listed
<1>9. OffersShow
  BY <1>3 DEF OffersShow
<1>10. RecordFirst
  BY <1>3 DEF RecordFirst
<1>11. Retired
  BY <1>3 DEF Retired
<1>12. RequestsKept
  BY <1>3 DEF RequestsKept
<1> QED
  BY <1>5, <1>6, <1>7, <1>8, <1>9, <1>10, <1>11, <1>12 DEF DeletesInductive

LEMMA BindingsGrow ==
  ASSUME nextId \in Nat, nextId' \in {nextId, nextId + 1}
  PROVE  Bindings \subseteq Bindings'
  BY DEF Bindings

(* A record read for an open: what the file held, and the delete of a      *)
(* version-4 tail.                                                         *)
SoundRead(d) ==
  /\ d = [pending |-> d.pending, outcome |-> RecordRead.outcome, live |-> d.live,
          lost |-> RecordRead.lost]
  /\ IsFiniteSet(d.pending) /\ Cardinality(d.pending) <= MaxPendingDeletes + 1
  /\ d.pending \subseteq Bindings /\ d.outcome \in Bindings /\ d.live \in Bindings
  /\ d.outcome \notin d.pending
  /\ RecordRead.pending \subseteq d.pending
  /\ \A b \in d.pending : b.id \in Known

HoldsTailDelete(d) ==
  diskTail.kind = "archive" /\ diskTail.forget # NoBinding => diskTail.forget \in d.pending

LEMMA RecordReadSound ==
  ASSUME DeletesInductive
  PROVE  SoundRead(RecordRead) /\ SoundRecord(RecordRead)
<1>1. SoundRecord(diskDeletes.deletes) /\ nextId \in Nat \ {0}
      /\ IsRecord(diskDeletes.deletes)
      /\ \A b \in diskDeletes.deletes.pending : b.id \in Known
  BY DEF DeletesInductive, Inductive, RecordsSound, KnownIds, RecordShapes
<1>2. NoBinding \in Bindings
  BY <1>1 DEF NoBinding, Bindings
<1>3. /\ LostDeletes.pending = {} /\ LostDeletes.outcome = NoBinding
      /\ LostDeletes.live = NoBinding
  BY DEF LostDeletes
<1>4. SoundRecord(LostDeletes)
  BY <1>2, <1>3, FS_EmptySet, VoiceTailAssumption DEF SoundRecord, RecordValid
<1>5. IsRecord(RecordRead)
  BY RecordReadShape DEF DeletesInductive, Inductive
<1>6. SoundRecord(RecordRead) /\ \A b \in RecordRead.pending : b.id \in Known
  <2>1. RecordRead = diskDeletes.deletes \/ RecordRead = LostDeletes
    BY DEF RecordRead
  <2> QED
    BY <1>1, <1>3, <1>4, <2>1
<1> QED
  BY <1>5, <1>6 DEF SoundRead, SoundRecord, RecordValid, IsRecord

(* The initial version-4 tail parses.                                      *)
LEMMA EarlierTailParses == Parses(InitialTail("forget"))
<1> DEFINE tail == InitialTail("forget")
<1>1. /\ tail.kind = "archive" /\ tail.rows = <<>> /\ tail.settled = 0 /\ tail.next = 0
      /\ tail.flight = <<>> /\ tail.unsent = <<>> /\ tail.cursor = None /\ tail.gap = NoGap
      /\ tail.binding = [id |-> 2, gen |-> 1] /\ tail.forget = [id |-> 1, gen |-> 0]
  BY DEF InitialTail
<1>2. tail.flight \o tail.unsent = <<>>
  BY <1>1
<1>3. Partitions(None, <<>>, NoGap, 0)
  BY DEF Partitions
<1> HIDE DEF tail
<1>4. Parses(tail)
  BY <1>1, <1>2, <1>3, VoiceTailAssumption, MaxOutboxAssumption DEF Parses
<1> QED
  BY <1>4 DEF tail

LEMMA AdoptedSound ==
  ASSUME DeletesInductive
  PROVE  SoundRead(Adopted(diskTail)) /\ HoldsTailDelete(Adopted(diskTail))
<1>1. SoundRead(RecordRead) /\ SoundRecord(RecordRead)
  BY RecordReadSound
<1>2. CASE diskTail.kind = "archive" /\ diskTail.forget # NoBinding
  <2>1. /\ diskTail = InitialTail("forget")
        /\ diskDeletes.deletes = NoDeletes \/ diskTail.forget \in diskDeletes.deletes.pending
        /\ diskTail.forget.id \in Known
    BY <1>2 DEF DeletesInductive, Inductive, EarlierTail, KnownIds
  <2>2. CASE diskTail.forget \in RecordRead.pending
    BY <1>1, <2>2 DEF Adopted, HoldsTailDelete
  <2>3. CASE diskTail.forget \notin RecordRead.pending
    <3> DEFINE f == diskTail.forget
    <3>1. RecordRead.pending = {} /\ RecordRead.outcome = NoBinding
      BY <2>1, <2>3 DEF RecordRead, LostDeletes, NoDeletes
    <3>2. f \in Bindings /\ f # NoBinding /\ f.id \in Known
      BY <2>1 DEF InitialTail, Bindings, NoBinding
    <3>3. Adopted(diskTail) = [RecordRead EXCEPT !.pending = {f}]
      BY <1>2, <3>1, <3>2 DEF Adopted
    <3>4. IsRecord(RecordRead)
      BY RecordReadShape DEF DeletesInductive, Inductive
    <3>5. [RecordRead EXCEPT !.pending = {f}] =
            [pending |-> {f}, outcome |-> RecordRead.outcome, live |-> RecordRead.live,
             lost |-> RecordRead.lost]
      BY <3>4, RecordFields
    <3>6. IsFiniteSet({f}) /\ Cardinality({f}) = 1
      BY FS_Singleton
    <3> HIDE DEF f
    <3> QED
      BY <1>1, <3>1, <3>2, <3>3, <3>5, <3>6, VoiceTailAssumption
         DEF SoundRead, HoldsTailDelete, f
  <2> QED
    BY <2>2, <2>3
<1>3. CASE ~(diskTail.kind = "archive" /\ diskTail.forget # NoBinding)
  <2>1. Adopted(diskTail) = RecordRead
    BY <1>3 DEF Adopted
  <2> QED
    BY <1>1, <1>3, <2>1 DEF HoldsTailDelete
<1> QED
  BY <1>2, <1>3

(* What every open leaves: a record read with the live conversation put    *)
(* in, and that conversation, a new one or the tail's.                     *)
OpensWith(d) ==
  /\ deletes' = [pending |-> d.pending, outcome |-> d.outcome, live |-> binding', lost |-> d.lost]
  /\ SoundRead(d) /\ HoldsTailDelete(d)

OpensNew(d) ==
  /\ nextId' = nextId + 1
  /\ \E gen \in Nat : \E previous :
       /\ binding' = NewBinding(gen, d, previous)
       /\ \/ previous = NoBinding /\ replaced' = replaced
          \/ replaced' = replaced \union {<<binding', previous>>}

OpensTail(d) ==
  /\ nextId' = nextId /\ replaced' = replaced
  /\ diskTail.kind = "archive" /\ ~Unproven(diskTail) /\ d = Adopted(diskTail)
  /\ binding' = diskTail.binding
  /\ cursor' = diskTail.cursor /\ flight' = diskTail.flight

LEMMA OpenResult ==
  ASSUME DeletesInductive, Open
  PROVE  /\ pc = "down" /\ pc' = "idle" /\ written' = 0
         /\ UNCHANGED <<disk, offered, acked, released, verified, asked, recorded, promised>>
         /\ writtenDeletes' = IF diskDeletes.readable THEN {diskDeletes.deletes} ELSE {}
         /\ \E d : OpensWith(d) /\ (OpensNew(d) \/ OpensTail(d))
<1>1. SoundRead(RecordRead) /\ SoundRead(Adopted(diskTail)) /\ HoldsTailDelete(Adopted(diskTail))
  BY RecordReadSound, AdoptedSound
<1>2. diskTail.kind = "archive" => diskTail.binding \in Bindings
  BY DEF DeletesInductive, RecordsSound
<1>3. ASSUME NEW d, NEW n, Opened(d, n)
      PROVE  /\ pc' = "idle" /\ written' = 0
             /\ UNCHANGED <<disk, offered, acked, released, verified, asked, recorded, promised>>
             /\ writtenDeletes' = IF diskDeletes.readable THEN {diskDeletes.deletes} ELSE {}
  BY <1>3 DEF Opened
<1>4. ASSUME NEW d, SoundRead(d), HoldsTailDelete(d), deletes' = [d EXCEPT !.live = binding']
      PROVE  OpensWith(d)
  <2>1. [d EXCEPT !.live = binding'] = [pending |-> d.pending, outcome |-> d.outcome,
                                        live |-> binding', lost |-> d.lost]
    BY <1>4, RecordFields DEF SoundRead, IsRecord
  <2> QED
    BY <1>4, <2>1 DEF OpensWith
<1>5. ASSUME NEW d, NEW gen \in Nat, NEW previous, SoundRead(d), HoldsTailDelete(d),
             Retire(d, NewBinding(gen, d, previous)),
             \/ previous = NoBinding /\ replaced' = replaced
             \/ replaced' = replaced \union {<<binding', previous>>}
      PROVE  OpensWith(d) /\ OpensNew(d)
  <2>1. /\ deletes' = [d EXCEPT !.live = binding'] /\ nextId' = nextId + 1
        /\ binding' = NewBinding(gen, d, previous)
    BY <1>5 DEF Retire
  <2> QED
    BY <1>4, <1>5, <2>1 DEF OpensNew
<1>6. CASE OpenFresh
  <2>1. HoldsTailDelete(RecordRead)
    <3>1. diskTail # InitialTail("forget")
      BY <1>6, EarlierTailParses DEF OpenFresh
    <3> QED
      BY <3>1 DEF DeletesInductive, EarlierTail, HoldsTailDelete
  <2>2. /\ Retire(RecordRead, NewBinding(0, RecordRead, NoBinding))
        /\ replaced' = replaced /\ pc = "down" /\ Opened(RecordRead, 0)
    BY <1>6 DEF OpenFresh
  <2>3. OpensWith(RecordRead) /\ OpensNew(RecordRead)
    BY <1>1, <1>5, <2>1, <2>2
  <2> QED
    BY <1>3, <2>2, <2>3
<1>7. CASE OpenRetired
  <2> DEFINE d == Adopted(diskTail)
             old == TailBinding(diskTail)
             gen == IF old = NoBinding THEN 0 ELSE old.gen + 1
  <2>1. /\ Retire(d, NewBinding(gen, d, old)) /\ pc = "down" /\ Opened(d, 0)
        /\ replaced' = IF old = NoBinding THEN replaced
                       ELSE replaced \union {<<NewBinding(gen, d, old), old>>}
    BY <1>7 DEF OpenRetired
  <2>2. binding' = NewBinding(gen, d, old)
    BY <2>1 DEF Retire
  <2>3. gen \in Nat
    BY <1>2 DEF TailBinding, Bindings
  <2>4. SoundRead(d) /\ HoldsTailDelete(d)
    BY <1>1
  <2> HIDE DEF d, old, gen
  <2>5. \/ old = NoBinding /\ replaced' = replaced
        \/ replaced' = replaced \union {<<binding', old>>}
    BY <2>1, <2>2
  <2>6. OpensWith(d) /\ OpensNew(d)
    BY <1>5, <2>1, <2>3, <2>4, <2>5
  <2> QED
    BY <1>3, <2>1, <2>6
<1>8. CASE OpenLegacy
  <2>1. HoldsTailDelete(RecordRead)
    BY <1>8 DEF OpenLegacy, HoldsTailDelete
  <2>2. /\ binding' = NewBinding(0, RecordRead, NoBinding) /\ nextId' = nextId + 1
        /\ deletes' = [RecordRead EXCEPT !.live = binding']
        /\ replaced' = replaced /\ pc = "down" /\ Opened(RecordRead, 1)
    BY <1>8 DEF OpenLegacy
  <2>3. OpensWith(RecordRead) /\ OpensNew(RecordRead)
    BY <1>1, <1>4, <2>1, <2>2 DEF OpensNew
  <2> QED
    BY <1>3, <2>2, <2>3
<1>9. CASE OpenArchive
  <2> DEFINE d == Adopted(diskTail)
  <2>1. /\ binding' = diskTail.binding /\ deletes' = [d EXCEPT !.live = binding']
        /\ cursor' = diskTail.cursor /\ flight' = diskTail.flight
        /\ nextId' = nextId /\ replaced' = replaced
        /\ pc = "down" /\ Opened(d, 1)
        /\ diskTail.kind = "archive" /\ ~Unproven(diskTail)
    BY <1>9 DEF OpenArchive
  <2>2. OpensWith(d) /\ OpensTail(d)
    BY <1>1, <1>4, <2>1 DEF OpensTail
  <2> QED
    BY <1>3, <2>1, <2>2
<1>10. CASE OpenRefused
  <2> DEFINE d == IF diskTail.kind = "legacy" THEN RecordRead
                  ELSE [Adopted(diskTail) EXCEPT !.live = diskTail.binding]
  <2>1. SoundRead(d) /\ HoldsTailDelete(d)
    <3>1. CASE diskTail.kind = "legacy"
      BY <1>1, <3>1 DEF HoldsTailDelete
    <3>2. CASE diskTail.kind # "legacy"
      <4> DEFINE a == Adopted(diskTail)
      <4>1. diskTail.binding \in Bindings
        BY <1>2, <1>10, <3>2 DEF OpenRefused, Parses
      <4>2. SoundRead(a) /\ HoldsTailDelete(a)
        BY <1>1
      <4> HIDE DEF a
      <4>3. [a EXCEPT !.live = diskTail.binding] =
              [pending |-> a.pending, outcome |-> a.outcome, live |-> diskTail.binding,
               lost |-> a.lost]
        BY <4>2, RecordFields DEF SoundRead, IsRecord
      <4>4. SoundRead([a EXCEPT !.live = diskTail.binding])
            /\ HoldsTailDelete([a EXCEPT !.live = diskTail.binding])
        BY <4>1, <4>2, <4>3 DEF SoundRead, HoldsTailDelete
      <4> QED
        BY <3>2, <4>4 DEF a
    <3> QED
      BY <3>1, <3>2
  <2>2. /\ Retire(d, NewBinding(0, d, NoBinding)) /\ Opened(d, 0)
        /\ pc = "down" /\ replaced' = replaced
    BY <1>10 DEF OpenRefused
  <2> HIDE DEF d
  <2>3. OpensWith(d) /\ OpensNew(d)
    BY <1>5, <2>1, <2>2
  <2> QED
    BY <1>3, <2>2, <2>3
<1> QED
  BY <1>6, <1>7, <1>8, <1>9, <1>10 DEF Open

(* The conversation an open makes live is none the record lists.           *)
LEMMA OpenLive ==
  ASSUME DeletesInductive, NEW d, SoundRead(d), OpensNew(d) \/ OpensTail(d)
  PROVE  /\ nextId \in Nat \ {0} /\ nextId' \in {nextId, nextId + 1}
         /\ binding' \in Bindings' /\ binding'.id >= 1
         /\ binding' \notin d.pending /\ binding' # d.outcome
<1>1. nextId \in Nat \ {0}
  BY DEF DeletesInductive, Inductive, KnownIds
<1>2. CASE OpensNew(d)
  <2>0. PICK gen \in Nat : \E previous : binding' = NewBinding(gen, d, previous)
    BY <1>2 DEF OpensNew
  <2>1. PICK previous : binding' = NewBinding(gen, d, previous)
    BY <2>0
  <2>2. RetireGen(gen, d, previous) \in Nat
    BY RetireGenSkips DEF SoundRead
  <2>3. nextId' = nextId + 1 /\ binding' = [id |-> nextId, gen |-> RetireGen(gen, d, previous)]
    BY <1>2, <2>1 DEF OpensNew, NewBinding
  <2>4. binding' \in Bindings' /\ binding'.id = nextId
    BY <1>1, <2>2, <2>3 DEF Bindings
  <2>5. \A b \in Bindings : b.id < nextId
    BY <1>1 DEF Bindings
  <2> QED
    BY <1>1, <2>3, <2>4, <2>5 DEF SoundRead
<1>3. CASE OpensTail(d)
  <2>1. diskTail.binding \in Bindings /\ diskTail.binding.id \in Known
    BY <1>3 DEF OpensTail, DeletesInductive, Inductive, RecordsSound, KnownIds
  <2>2. Bindings' = Bindings
    BY <1>3 DEF OpensTail, Bindings
  <2>3. TailBinding(diskTail) = diskTail.binding /\ diskTail.binding # NoBinding
    BY <1>3, <2>1 DEF OpensTail, TailBinding, NoBinding
  <2>4. SoundRecord(RecordRead)
    BY RecordReadSound
  <2>5. RecordRead.live # NoBinding =>
          RecordRead.live \notin RecordRead.pending /\ RecordRead.live # RecordRead.outcome
    BY <2>4 DEF SoundRecord, RecordValid
  <2>6. HoldsDeletes(RecordRead) => RecordRead.live = diskTail.binding
    BY <1>3, <2>3 DEF OpensTail, Unproven
  <2>7. diskTail.binding \notin RecordRead.pending /\ diskTail.binding # RecordRead.outcome
    BY <2>3, <2>5, <2>6 DEF HoldsDeletes
  <2>8. d.outcome = RecordRead.outcome
    BY DEF SoundRead
  <2>9. diskTail.binding \notin d.pending
    <3>1. \/ d.pending = RecordRead.pending
          \/ diskTail.forget # NoBinding /\ d.pending = RecordRead.pending \union {diskTail.forget}
      <4>1. RecordShapes /\ d = Adopted(diskTail)
        BY <1>3 DEF OpensTail, DeletesInductive, Inductive
      <4>2. \/ Adopted(diskTail) = RecordRead
            \/ /\ diskTail.forget # NoBinding
               /\ Adopted(diskTail).pending = RecordRead.pending \union {diskTail.forget}
        BY <4>1, AdoptedAdds
      <4> QED
        BY <4>1, <4>2
    <3>2. diskTail.forget # NoBinding => diskTail.forget # diskTail.binding
      BY <1>3 DEF OpensTail, DeletesInductive, EarlierTail, InitialTail
    <3> QED
      BY <2>7, <3>1, <3>2
  <2> QED
    BY <1>1, <1>3, <2>1, <2>2, <2>3, <2>7, <2>8, <2>9 DEF OpensTail
<1> QED
  BY <1>2, <1>3

(* Most steps of the store and of the archive sender change nothing the    *)
(* record depends on.                                                      *)
Quiet ==
  /\ pc' = pc /\ snap' = snap /\ binding' = binding /\ deletes' = deletes
  /\ diskTail' = diskTail /\ diskDeletes' = diskDeletes
  /\ released' = released /\ verified' = verified /\ asked' = asked
  /\ recorded' = recorded /\ promised' = promised /\ replaced' = replaced
  /\ nextId' = nextId /\ written' = written /\ writtenDeletes' = writtenDeletes

LEMMA QuietSteps ==
  /\ StoreChange => Quiet /\ offered' = offered /\ cursor' = cursor /\ flight' = flight
  /\ Archive => Quiet
  /\ UNCHANGED vars => Quiet /\ offered' = offered /\ cursor' = cursor /\ flight' = flight
<1>1. ASSUME StoreChange
      PROVE Quiet /\ offered' = offered /\ cursor' = cursor /\ flight' = flight
  BY <1>1 DEF StoreChange, RecordUserTranscript, OpenSegment, ExtendSegment, CloseSegment,
     OtherChange, Update, Changed, StoreFrame, Quiet, mirror, disk, history
<1>2. ASSUME Archive PROVE Quiet
  BY <1>2 DEF Archive, Freeze, NextBatch, Acknowledge, Changed, Quiet, mirror, disk, history,
     bounds, conversation, versions
<1>3. ASSUME UNCHANGED vars
      PROVE Quiet /\ offered' = offered /\ cursor' = cursor /\ flight' = flight
  BY <1>3 DEF vars, Quiet, mirror, disk, history, bounds, conversation, versions
<1> QED
  BY <1>1, <1>2, <1>3

(* What a request to forget does to the record: its conversation becomes   *)
(* pending if it may have left this host and the outcome otherwise.        *)
LEMMA RequestResult ==
  ASSUME DeletesInductive, RequestForget
  PROVE  /\ Up /\ nextId' = nextId + 1 /\ nextId \in Nat \ {0}
         /\ pc' = pc /\ snap' = snap /\ diskTail' = diskTail /\ diskDeletes' = diskDeletes
         /\ released' = released /\ verified' = verified /\ offered' = offered
         /\ recorded' = recorded /\ promised' = promised /\ written' = written
         /\ writtenDeletes' = writtenDeletes
         /\ asked' = asked \union {[binding |-> binding, upTo |-> nextUid - 1]}
         /\ replaced' = replaced \union {<<binding', binding>>}
         /\ cursor' = None /\ flight' = <<>>
         /\ binding' = [id |-> nextId, gen |-> binding'.gen] /\ binding'.gen \in Nat
         /\ \A r \in Listed(deletes) : r.gen + 1 < binding'.gen \/ r = binding
         /\ Cardinality(deletes.pending) < MaxPendingDeletes
         /\ deletes'.live = binding' /\ deletes'.lost = deletes.lost
         /\ IF EverOffered
            THEN /\ deletes'.pending = deletes.pending \union {binding}
                 /\ deletes'.outcome = deletes.outcome
            ELSE /\ deletes'.pending = deletes.pending
                 /\ deletes'.outcome = NewestOutcome(deletes, binding)
<1> DEFINE gen == RetireGen(binding.gen + 1, deletes, binding)
           new == NewBinding(binding.gen + 1, deletes, binding)
           d   == IF EverOffered
                  THEN [deletes EXCEPT !.pending = @ \union {binding}]
                  ELSE [deletes EXCEPT !.outcome = NewestOutcome(deletes, binding)]
<1>1. /\ deletes' = [d EXCEPT !.live = new] /\ binding' = new /\ nextId' = nextId + 1
      /\ cursor' = None /\ flight' = <<>> /\ replaced' = replaced \union {<<new, binding>>}
      /\ Cardinality(deletes.pending) < MaxPendingDeletes
  BY DEF RequestForget, Retire
<1>2. /\ Up /\ pc' = pc /\ snap' = snap /\ diskTail' = diskTail /\ diskDeletes' = diskDeletes
      /\ released' = released /\ verified' = verified /\ offered' = offered
      /\ recorded' = recorded /\ promised' = promised /\ written' = written
      /\ writtenDeletes' = writtenDeletes
      /\ asked' = asked \union {[binding |-> binding, upTo |-> nextUid - 1]}
  BY DEF RequestForget, mirror, disk
<1>3. nextId \in Nat \ {0} /\ IsRecord(deletes) /\ SoundRecord(deletes) /\ binding \in Bindings
  BY DEF DeletesInductive, Inductive, KnownIds, RecordShapes, RecordsSound
<1>4. gen \in Nat /\ \A r \in Listed(deletes) : r.gen + 1 < gen \/ r = binding
  <2>1. binding.gen + 1 \in Nat
    BY <1>3 DEF Bindings
  <2> QED
    BY <1>3, <2>1, RetireGenSkips DEF SoundRecord
<1>5. new = [id |-> nextId, gen |-> gen]
  BY DEF NewBinding
<1>6. d = IF EverOffered
          THEN [pending |-> deletes.pending \union {binding}, outcome |-> deletes.outcome,
                live |-> deletes.live, lost |-> deletes.lost]
          ELSE [pending |-> deletes.pending, outcome |-> NewestOutcome(deletes, binding),
                live |-> deletes.live, lost |-> deletes.lost]
  BY <1>3, RecordFields
<1>7. IsRecord(d)
  BY <1>6 DEF IsRecord
<1> HIDE DEF gen, new, d
<1>8. deletes' = [pending |-> d.pending, outcome |-> d.outcome, live |-> new, lost |-> d.lost]
  BY <1>1, <1>7, RecordFields
<1>9. deletes'.live = binding' /\ deletes'.lost = deletes.lost
      /\ deletes'.pending = d.pending /\ deletes'.outcome = d.outcome
  BY <1>1, <1>6, <1>8
<1>10. IF EverOffered
       THEN d.pending = deletes.pending \union {binding} /\ d.outcome = deletes.outcome
       ELSE d.pending = deletes.pending /\ d.outcome = NewestOutcome(deletes, binding)
  BY <1>6
<1>11. binding' = [id |-> nextId, gen |-> binding'.gen] /\ binding'.gen = gen
  BY <1>1, <1>5
<1> QED
  BY <1>1, <1>2, <1>3, <1>4, <1>9, <1>10, <1>11

(* What the answer of the companion does to it.                            *)
LEMMA AcknowledgeResult ==
  ASSUME DeletesInductive, NEW b \in released, AcknowledgeForget(b)
  PROVE  /\ Up /\ b \in deletes.pending
         /\ pc' = pc /\ snap' = snap /\ diskTail' = diskTail /\ diskDeletes' = diskDeletes
         /\ released' = released /\ offered' = offered /\ asked' = asked
         /\ recorded' = recorded /\ promised' = promised /\ written' = written
         /\ writtenDeletes' = writtenDeletes /\ replaced' = replaced /\ nextId' = nextId
         /\ binding' = binding /\ cursor' = cursor /\ flight' = flight
         /\ verified' = verified \union {b}
         /\ deletes'.live = deletes.live /\ deletes'.lost = deletes.lost
         /\ deletes'.pending = deletes.pending \ {b}
         /\ deletes'.outcome \in {deletes.outcome, b} /\ deletes'.outcome # NoBinding
<1>1. deletes' = [pending |-> deletes.pending \ {b}, outcome |-> NewestOutcome(deletes, b),
                  live |-> deletes.live, lost |-> deletes.lost]
  BY RecordFields DEF DeletesInductive, Inductive, RecordShapes, AcknowledgeForget
<1>2. b.id \in Known
  BY DEF DeletesInductive, Inductive, KnownIds
<1>3. NewestOutcome(deletes, b) \in {deletes.outcome, b} /\ NewestOutcome(deletes, b) # NoBinding
  BY <1>2 DEF NewestOutcome, NoBinding
<1>4. /\ Up /\ b \in deletes.pending /\ pc' = pc /\ snap' = snap
      /\ diskTail' = diskTail /\ diskDeletes' = diskDeletes
      /\ released' = released /\ offered' = offered /\ asked' = asked
      /\ recorded' = recorded /\ promised' = promised /\ written' = written
      /\ writtenDeletes' = writtenDeletes /\ replaced' = replaced /\ nextId' = nextId
      /\ binding' = binding /\ cursor' = cursor /\ flight' = flight
      /\ verified' = verified \union {b}
  BY DEF AcknowledgeForget, conversation, mirror, disk, bounds
<1> QED
  BY <1>1, <1>3, <1>4

LEMMA RecordsSoundStep == DeletesInductive /\ [Next]_vars => RecordsSound'
<1> SUFFICES ASSUME DeletesInductive, [Next]_vars PROVE RecordsSound'
  OBVIOUS
<1>0. /\ SoundRecord(deletes) /\ SoundRecord(diskDeletes.deletes)
      /\ Writing => SoundRecord(snap.deletes)
      /\ binding \in Bindings
      /\ diskTail.kind = "archive" => diskTail.binding \in Bindings
      /\ Writing => snap.tail.binding \in Bindings
      /\ nextId \in Nat \ {0}
      /\ Up => binding.id \in Known
      /\ deletes.live \notin deletes.pending /\ (Up => deletes.live = binding)
  BY DEF DeletesInductive, Inductive, RecordsSound, KnownIds, LiveIsKept
<1>n. NoBinding \in Bindings /\ SoundRecord(NoDeletes)
  <2>1. NoBinding \in Bindings
    BY <1>0 DEF NoBinding, Bindings
  <2>2. /\ NoDeletes.pending = {} /\ NoDeletes.outcome = NoBinding /\ NoDeletes.live = NoBinding
    BY DEF NoDeletes
  <2> QED
    BY <2>1, <2>2, FS_EmptySet, VoiceTailAssumption DEF SoundRecord, RecordValid
<1>g. ASSUME nextId' \in {nextId, nextId + 1}
      PROVE  /\ Bindings \subseteq Bindings'
             /\ \A d : SoundRecord(d) => SoundRecord(d)'
  <2>1. Bindings \subseteq Bindings'
    BY <1>0, <1>g, BindingsGrow
  <2> QED
    BY <2>1 DEF SoundRecord
<1>q. ASSUME Quiet PROVE RecordsSound'
  <2>1. nextId' = nextId
    BY <1>q DEF Quiet
  <2>2. Bindings' = Bindings
    BY <2>1 DEF Bindings
  <2> QED
    BY <1>0, <1>q, <2>2 DEF Quiet, RecordsSound, SoundRecord
<1>1. CASE StoreChange \/ Archive \/ UNCHANGED vars
  BY <1>1, <1>q, QuietSteps
<1>3. CASE RequestForget
  <2>1. /\ Up /\ nextId' = nextId + 1
        /\ pc' = pc /\ snap' = snap /\ diskTail' = diskTail /\ diskDeletes' = diskDeletes
        /\ binding' = [id |-> nextId, gen |-> binding'.gen] /\ binding'.gen \in Nat
        /\ Cardinality(deletes.pending) < MaxPendingDeletes
        /\ deletes'.live = binding'
        /\ IF EverOffered
           THEN /\ deletes'.pending = deletes.pending \union {binding}
                /\ deletes'.outcome = deletes.outcome
           ELSE /\ deletes'.pending = deletes.pending
                /\ deletes'.outcome = NewestOutcome(deletes, binding)
    BY <1>3, RequestResult
  <2>2. Bindings \subseteq Bindings' /\ binding' \in Bindings'
    <3>1. nextId \in 0..(nextId + 1 - 1) /\ nextId' \in {nextId, nextId + 1}
      BY <1>0, <2>1
    <3>2. binding' \in Bindings'
      BY <2>1, <3>1 DEF Bindings
    <3> QED
      BY <1>g, <3>1, <3>2
  <2>3. binding' \notin Bindings /\ binding' # NoBinding
    BY <1>0, <2>1 DEF Bindings, NoBinding
  <2>4. binding # NoBinding
    BY <1>0, <2>1 DEF NoBinding
  <2>5. SoundRecord(deletes)'
    <3>0. /\ IsFiniteSet(deletes.pending) /\ deletes.pending \subseteq Bindings
          /\ deletes.outcome \in Bindings /\ deletes.outcome \notin deletes.pending
          /\ Cardinality(deletes.pending) \in Nat
          /\ binding \notin deletes.pending /\ binding # deletes.outcome
      BY <1>0, <2>1, <2>4, FS_CardinalityType DEF SoundRecord, RecordValid
    <3>1. /\ IsFiniteSet(deletes.pending \union {binding})
          /\ Cardinality(deletes.pending \union {binding}) = Cardinality(deletes.pending) + 1
      BY <3>0, FS_AddElement
    <3>2. NewestOutcome(deletes, binding) \in {deletes.outcome, binding}
      BY DEF NewestOutcome
    <3>3. IsFiniteSet(deletes'.pending) /\ Cardinality(deletes'.pending) <= MaxPendingDeletes + 1
      <4> DEFINE P == deletes.pending
                 Q == deletes.pending \union {binding}
      <4>1. deletes'.pending = P \/ deletes'.pending = Q
        BY <2>1
      <4>2. Cardinality(P) < MaxPendingDeletes /\ MaxPendingDeletes \in Nat /\ IsFiniteSet(P)
            /\ Cardinality(P) \in Nat
        BY <2>1, <3>0, VoiceTailAssumption
      <4>3. IsFiniteSet(Q) /\ Cardinality(Q) = Cardinality(P) + 1
        BY <3>1
      <4> HIDE DEF P, Q
      <4>4. CASE deletes'.pending = P
        BY ONLY <4>2, <4>4
      <4>5. CASE deletes'.pending = Q
        BY ONLY <4>2, <4>3, <4>5
      <4> QED
        BY <4>1, <4>4, <4>5
    <3>4. deletes'.pending \subseteq Bindings /\ deletes'.outcome \in Bindings
      BY <1>0, <2>1, <3>0, <3>2
    <3>5. deletes'.outcome \notin deletes'.pending
      BY <2>1, <3>0, <3>2
    <3> QED
      BY <2>1, <2>2, <2>3, <3>3, <3>4, <3>5 DEF SoundRecord, RecordValid
  <2>6. SoundRecord(diskDeletes.deletes)' /\ (Writing => SoundRecord(snap.deletes))'
    BY <1>0, <1>g, <2>1
  <2> QED
    BY <1>0, <2>1, <2>2, <2>5, <2>6 DEF RecordsSound
<1>4. CASE NextDeletes
  <2>1. /\ pc' = pc /\ snap' = snap /\ diskTail' = diskTail /\ diskDeletes' = diskDeletes
        /\ binding' = binding /\ deletes' = deletes /\ nextId' = nextId
    BY <1>4 DEF NextDeletes, conversation, mirror, disk, bounds
  <2>2. Bindings' = Bindings
    BY <2>1 DEF Bindings
  <2> QED
    BY <1>0, <2>1, <2>2 DEF RecordsSound, SoundRecord
<1>5. CASE \E b \in released : AcknowledgeForget(b)
  <2>1. PICK b \in released :
        /\ Up /\ b \in deletes.pending
        /\ pc' = pc /\ snap' = snap /\ diskTail' = diskTail /\ diskDeletes' = diskDeletes
        /\ nextId' = nextId /\ binding' = binding
        /\ deletes'.live = deletes.live
        /\ deletes'.pending = deletes.pending \ {b}
        /\ deletes'.outcome \in {deletes.outcome, b}
    BY <1>5, AcknowledgeResult
  <2>2. Bindings' = Bindings
    BY <2>1 DEF Bindings
  <2>3. SoundRecord(deletes')
    <3>0. /\ IsFiniteSet(deletes.pending) /\ deletes.pending \subseteq Bindings
          /\ deletes.outcome \in Bindings /\ deletes.outcome \notin deletes.pending
          /\ Cardinality(deletes.pending) \in Nat
          /\ Cardinality(deletes.pending) <= MaxPendingDeletes + 1
          /\ deletes.live \in Bindings
          /\ deletes.live # NoBinding =>
               deletes.live \notin deletes.pending /\ deletes.live # deletes.outcome
      BY <1>0, FS_CardinalityType DEF SoundRecord, RecordValid
    <3>1. /\ IsFiniteSet(deletes.pending \ {b})
          /\ Cardinality(deletes.pending \ {b}) = Cardinality(deletes.pending) - 1
      BY <2>1, <3>0, FS_RemoveElement
    <3>2. Cardinality(deletes'.pending) <= MaxPendingDeletes + 1
      BY <2>1, <3>0, <3>1, VoiceTailAssumption
    <3> QED
      BY <2>1, <3>0, <3>1, <3>2 DEF SoundRecord, RecordValid
  <2> QED
    BY <1>0, <2>1, <2>2, <2>3 DEF RecordsSound, SoundRecord
<1>6. CASE Mirror
  <2>1. /\ nextId' = nextId /\ binding' = binding /\ deletes' = deletes
        /\ \/ diskDeletes'.deletes = diskDeletes.deletes
           \/ Writing /\ diskDeletes'.deletes = snap.deletes
        /\ \/ diskTail' = diskTail
           \/ Writing /\ diskTail' = snap.tail
        /\ Writing' => \/ snap'.deletes = deletes /\ snap'.tail.binding = binding
                       \/ Writing /\ snap' = snap
    BY <1>6 DEF Mirror, Snapshot, WriteRecord, WriteTail, Landed, WriteFails, CurrentTail,
       conversation, disk, bounds
  <2>2. Bindings' = Bindings
    BY <2>1 DEF Bindings
  <2> QED
    BY <1>0, <2>1, <2>2 DEF RecordsSound, SoundRecord
<1>7. CASE Open
  <2>1. PICK d : OpensWith(d) /\ (OpensNew(d) \/ OpensTail(d))
    BY <1>7, OpenResult
  <2>2. pc' = "idle" /\ diskTail' = diskTail /\ diskDeletes' = diskDeletes
    BY <1>7, OpenResult DEF disk
  <2>3. SoundRead(d)
    BY <2>1 DEF OpensWith
  <2>4. /\ nextId' \in {nextId, nextId + 1}
        /\ binding' \in Bindings' /\ binding' \notin d.pending /\ binding' # d.outcome
    BY <2>1, <2>3, OpenLive
  <2>5. Bindings \subseteq Bindings' /\ SoundRecord(diskDeletes.deletes)'
    BY <1>0, <1>g, <2>2, <2>4
  <2>6. /\ deletes'.pending = d.pending /\ deletes'.outcome = d.outcome
        /\ deletes'.live = binding'
    BY <2>1 DEF OpensWith
  <2>7. SoundRecord(deletes)'
    BY <2>3, <2>4, <2>5, <2>6 DEF SoundRead, SoundRecord, RecordValid
  <2> QED
    BY <1>0, <2>2, <2>4, <2>5, <2>7 DEF RecordsSound
<1>8. CASE Environment
  <2>1. /\ nextId' = nextId
        /\ \/ deletes' = NoDeletes /\ binding' = NoBinding /\ pc' = "down"
              /\ diskDeletes' = diskDeletes
           \/ deletes' = deletes /\ binding' = binding /\ pc' = pc /\ snap' = snap
              /\ (diskDeletes' = diskDeletes \/ diskDeletes'.deletes = NoDeletes)
        /\ diskTail' = diskTail \/ diskTail'.kind = "malformed"
    BY <1>8 DEF Environment, Crash, Close, CorruptTail, CorruptRecord, Down, disk, mirror,
       conversation
  <2>2. Bindings' = Bindings
    BY <2>1 DEF Bindings
  <2> QED
    BY <1>0, <1>n, <2>1, <2>2 DEF RecordsSound, SoundRecord
<1> QED
  BY <1>1, <1>3, <1>4, <1>5, <1>6, <1>7, <1>8 DEF Next, Forget

LEMMA EarlierTailStep == DeletesInductive /\ [Next]_vars => EarlierTail'
<1> SUFFICES ASSUME DeletesInductive, [Next]_vars PROVE EarlierTail'
  OBVIOUS
<1> DEFINE Holding == diskTail.kind = "archive" /\ diskTail.forget # NoBinding
<1>0. Holding =>
        /\ diskTail = InitialTail("forget")
        /\ <<diskTail.binding, diskTail.forget>> \in replaced
        /\ released = {} /\ (Up => written = 0)
        /\ Up => diskTail.forget \in deletes.pending
        /\ Writing => diskTail.forget \in snap.deletes.pending
        /\ diskDeletes.deletes = NoDeletes \/ diskTail.forget \in diskDeletes.deletes.pending
  BY DEF DeletesInductive, EarlierTail
<1>q. ASSUME Quiet PROVE EarlierTail'
  BY <1>0, <1>q DEF Quiet, EarlierTail
<1>1. CASE StoreChange \/ Archive \/ UNCHANGED vars
  BY <1>1, <1>q, QuietSteps
<1>3. CASE RequestForget
  <2>1. /\ pc' = pc /\ snap' = snap /\ diskTail' = diskTail /\ diskDeletes' = diskDeletes
        /\ released' = released /\ written' = written /\ replaced \subseteq replaced'
        /\ deletes.pending \subseteq deletes'.pending
    BY <1>3, RequestResult
  <2> QED
    BY <1>0, <2>1 DEF EarlierTail
<1>4. CASE NextDeletes
  <2>1. Up /\ written >= forgetVer /\ deletes.pending # {}
    BY <1>4 DEF NextDeletes
  <2>2. diskTail' = diskTail
    BY <1>4 DEF NextDeletes, disk
  <2>3. forgetVer >= 1 /\ forgetVer \in Nat
    BY <2>1 DEF DeletesInductive, Inductive, VersionOrder
  <2>4. ~Holding
    BY <1>0, <2>1, <2>3
  <2> QED
    BY <2>2, <2>4 DEF EarlierTail
<1>5. CASE \E b \in released : AcknowledgeForget(b)
  <2>1. diskTail' = diskTail /\ released # {}
    BY <1>5, AcknowledgeResult
  <2> QED
    BY <1>0, <2>1 DEF EarlierTail
<1>6. CASE Mirror
  <2>1. /\ deletes' = deletes /\ replaced' = replaced /\ released' = released /\ Up /\ Up'
    BY <1>6 DEF Mirror, Snapshot, WriteRecord, WriteTail, Landed, WriteFails,
       conversation, history, bounds
  <2>2. CASE WriteTail
    <3>1. snap.tail.forget = NoBinding
      BY <2>2 DEF WriteTail, DeletesInductive, Inductive, KnownIds
    <3> QED
      BY <2>2, <3>1 DEF WriteTail, EarlierTail
  <2>3. CASE Landed
    <3>1. pc = "landed" /\ diskTail' = diskTail
      BY <2>3 DEF Landed, disk
    <3>2. diskTail = snap.tail /\ snap.tail.forget = NoBinding
      BY <3>1 DEF DeletesInductive, Inductive, KnownIds, WritesAreCurrent
    <3> QED
      BY <3>1, <3>2 DEF EarlierTail
  <2>4. CASE Snapshot \/ WriteRecord \/ WriteFails
    <3>1. /\ written' = written /\ diskTail' = diskTail
          /\ \/ diskDeletes' = diskDeletes
             \/ Writing /\ diskDeletes'.deletes = snap.deletes
          /\ Writing' => snap'.deletes = deletes \/ (Writing /\ snap' = snap)
      BY <2>4 DEF Snapshot, WriteRecord, WriteFails, disk
    <3> QED
      BY <1>0, <2>1, <3>1 DEF EarlierTail
  <2> QED
    BY <1>6, <2>2, <2>3, <2>4 DEF Mirror
<1>7. CASE Open
  <2>1. PICK d : OpensWith(d) /\ (OpensNew(d) \/ OpensTail(d))
    BY <1>7, OpenResult
  <2>2. /\ pc' = "idle" /\ written' = 0 /\ diskTail' = diskTail /\ diskDeletes' = diskDeletes
        /\ released' = released
    BY <1>7, OpenResult DEF disk
  <2>3. deletes'.pending = d.pending /\ HoldsTailDelete(d)
    BY <2>1 DEF OpensWith
  <2>4. replaced \subseteq replaced'
    BY <2>1 DEF OpensNew, OpensTail
  <2> QED
    BY <1>0, <2>2, <2>3, <2>4 DEF EarlierTail, HoldsTailDelete
<1>8. CASE Environment
  <2>1. /\ diskTail' = diskTail \/ diskTail'.kind = "malformed"
        /\ released' = released /\ replaced' = replaced
        /\ diskDeletes' = diskDeletes \/ diskDeletes'.deletes = NoDeletes
        /\ \/ pc' = "down"
           \/ pc' = pc /\ snap' = snap /\ deletes' = deletes /\ written' = written
    BY <1>8 DEF Environment, Crash, Close, CorruptTail, CorruptRecord, Down, disk, mirror,
       conversation, versions, history
  <2> QED
    BY <1>0, <2>1 DEF EarlierTail
<1> QED
  BY <1>1, <1>3, <1>4, <1>5, <1>6, <1>7, <1>8 DEF Next, Forget

LEMMA AdjacentsReplacedStep == DeletesInductive /\ [Next]_vars => AdjacentsReplaced'
<1> SUFFICES ASSUME DeletesInductive, [Next]_vars PROVE AdjacentsReplaced'
  OBVIOUS
<1>0. /\ AdjacentIsReplaced(deletes) /\ AdjacentIsReplaced(diskDeletes.deletes)
      /\ Writing => AdjacentIsReplaced(snap.deletes)
      /\ SoundRecord(deletes)
  BY DEF DeletesInductive, AdjacentsReplaced, RecordsSound
<1>n. AdjacentIsReplaced(NoDeletes)'
  BY DEF AdjacentIsReplaced, Listed, NoDeletes
<1>g. ASSUME replaced \subseteq replaced', NEW d, AdjacentIsReplaced(d)
      PROVE  \A r \in Listed(d) : r.gen + 1 < d.live.gen \/ <<d.live, r>> \in replaced'
  BY <1>g DEF AdjacentIsReplaced
<1>q. ASSUME Quiet PROVE AdjacentsReplaced'
  BY <1>0, <1>q DEF Quiet, AdjacentsReplaced, AdjacentIsReplaced
<1>1. CASE StoreChange \/ Archive \/ UNCHANGED vars
  BY <1>1, <1>q, QuietSteps
<1>3. CASE RequestForget
  <2>1. /\ pc' = pc /\ snap' = snap /\ diskDeletes' = diskDeletes
        /\ replaced' = replaced \union {<<binding', binding>>}
        /\ \A r \in Listed(deletes) : r.gen + 1 < binding'.gen \/ r = binding
        /\ deletes'.live = binding'
        /\ deletes'.pending \subseteq deletes.pending \union {binding}
        /\ deletes'.outcome \in {deletes.outcome, binding}
    BY <1>3, RequestResult DEF NewestOutcome
  <2>2. Listed(deletes)' \subseteq Listed(deletes) \union {binding}
    BY <2>1 DEF Listed
  <2>3. AdjacentIsReplaced(deletes)'
    BY <2>1, <2>2 DEF AdjacentIsReplaced
  <2>4. /\ \A r \in Listed(diskDeletes.deletes) :
             \/ r.gen + 1 < diskDeletes.deletes.live.gen
             \/ <<diskDeletes.deletes.live, r>> \in replaced'
        /\ Writing => \A r \in Listed(snap.deletes) :
             \/ r.gen + 1 < snap.deletes.live.gen
             \/ <<snap.deletes.live, r>> \in replaced'
    BY <1>0, <1>g, <2>1
  <2> QED
    BY <2>1, <2>3, <2>4 DEF AdjacentsReplaced, AdjacentIsReplaced
<1>4. CASE NextDeletes
  <2>1. /\ pc' = pc /\ snap' = snap /\ diskDeletes' = diskDeletes
        /\ deletes' = deletes /\ replaced' = replaced
    BY <1>4 DEF NextDeletes, mirror, disk
  <2> QED
    BY <1>0, <2>1 DEF AdjacentsReplaced, AdjacentIsReplaced
<1>5. CASE \E b \in released : AcknowledgeForget(b)
  <2>1. PICK b \in released :
        /\ b \in deletes.pending /\ pc' = pc /\ snap' = snap /\ diskDeletes' = diskDeletes
        /\ replaced' = replaced /\ deletes'.live = deletes.live
        /\ deletes'.pending = deletes.pending \ {b}
        /\ deletes'.outcome \in {deletes.outcome, b}
    BY <1>5, AcknowledgeResult
  <2>2. Listed(deletes)' \subseteq Listed(deletes)
    BY <2>1 DEF Listed
  <2> QED
    BY <1>0, <2>1, <2>2 DEF AdjacentsReplaced, AdjacentIsReplaced
<1>6. CASE Mirror
  <2>1. /\ deletes' = deletes /\ replaced' = replaced
        /\ \/ diskDeletes'.deletes = diskDeletes.deletes
           \/ Writing /\ diskDeletes'.deletes = snap.deletes
        /\ Writing' => snap'.deletes = deletes \/ (Writing /\ snap' = snap)
    BY <1>6 DEF Mirror, Snapshot, WriteRecord, WriteTail, Landed, WriteFails,
       conversation, disk, bounds, history
  <2> QED
    BY <1>0, <2>1 DEF AdjacentsReplaced, AdjacentIsReplaced
<1>7. CASE Open
  <2>1. PICK d : OpensWith(d) /\ (OpensNew(d) \/ OpensTail(d))
    BY <1>7, OpenResult
  <2>2. pc' = "idle" /\ diskDeletes' = diskDeletes
    BY <1>7, OpenResult DEF disk
  <2>3. /\ deletes'.pending = d.pending /\ deletes'.outcome = d.outcome
        /\ deletes'.live = binding' /\ SoundRead(d)
    BY <2>1 DEF OpensWith
  <2>4. Listed(deletes)' = Listed(d)
    BY <2>3 DEF Listed
  <2>5. replaced \subseteq replaced'
    BY <2>1 DEF OpensNew, OpensTail
  <2>6. ASSUME OpensNew(d) PROVE AdjacentIsReplaced(deletes)'
    <3>0. PICK gen \in Nat : \E previous :
             /\ binding' = NewBinding(gen, d, previous)
             /\ \/ previous = NoBinding /\ replaced' = replaced
                \/ replaced' = replaced \union {<<binding', previous>>}
      BY <2>6 DEF OpensNew
    <3>1. PICK previous :
             /\ binding' = NewBinding(gen, d, previous)
             /\ \/ previous = NoBinding /\ replaced' = replaced
                \/ replaced' = replaced \union {<<binding', previous>>}
      BY <3>0
    <3>2. \A r \in Listed(d) : r.gen + 1 < RetireGen(gen, d, previous) \/ r = previous
      BY <2>3, RetireGenSkips DEF SoundRead
    <3>3. binding'.gen = RetireGen(gen, d, previous)
      BY <3>1 DEF NewBinding
    <3>4. NoBinding \notin Listed(d)
      BY DEF Listed
    <3> QED
      BY <2>3, <2>4, <3>1, <3>2, <3>3, <3>4 DEF AdjacentIsReplaced
  <2>7. ASSUME OpensTail(d) PROVE AdjacentIsReplaced(deletes)'
    <3>1. SoundRecord(RecordRead) /\ SoundRead(RecordRead)
      BY RecordReadSound
    <3>2. /\ diskTail.kind = "archive" /\ ~Unproven(diskTail) /\ d = Adopted(diskTail)
          /\ binding' = diskTail.binding /\ replaced' = replaced
      BY <2>7 DEF OpensTail
    <3>3. HoldsDeletes(RecordRead) => RecordRead.live = binding'
      BY <3>2 DEF Unproven, TailBinding
    <3>4. ASSUME NEW r \in Listed(RecordRead)
          PROVE  r.gen + 1 < binding'.gen \/ <<binding', r>> \in replaced
      <4>1. RecordRead = diskDeletes.deletes
        BY <3>4 DEF RecordRead, LostDeletes, Listed
      <4>2. RecordRead.live = binding'
        BY <3>3, <3>4 DEF Listed, HoldsDeletes
      <4> QED
        BY <1>0, <3>4, <4>1, <4>2 DEF AdjacentIsReplaced
    <3>5. \/ d = RecordRead
          \/ /\ diskTail.forget # NoBinding /\ d.pending = RecordRead.pending \union {diskTail.forget}
             /\ d.outcome = RecordRead.outcome
      <4>1. RecordShapes
        BY DEF DeletesInductive, Inductive
      <4> QED
        BY <2>3, <3>2, <4>1, AdoptedAdds DEF SoundRead
    <3>6. diskTail.forget # NoBinding => <<binding', diskTail.forget>> \in replaced
      BY <3>2 DEF DeletesInductive, EarlierTail
    <3>7. Listed(d) \subseteq Listed(RecordRead)
          \/ (diskTail.forget # NoBinding /\ Listed(d) \subseteq Listed(RecordRead) \union {diskTail.forget})
      BY <3>5 DEF Listed
    <3> QED
      BY <2>3, <2>4, <3>2, <3>4, <3>6, <3>7 DEF AdjacentIsReplaced
  <2>8. AdjacentIsReplaced(deletes)'
    BY <2>1, <2>6, <2>7
  <2>9. AdjacentIsReplaced(diskDeletes.deletes)'
    BY <1>0, <1>g, <2>2, <2>5 DEF AdjacentIsReplaced
  <2> QED
    BY <2>2, <2>8, <2>9 DEF AdjacentsReplaced
<1>8. CASE Environment
  <2>1. /\ replaced' = replaced
        /\ diskDeletes' = diskDeletes \/ diskDeletes'.deletes = NoDeletes
        /\ \/ pc' = "down" /\ deletes' = NoDeletes
           \/ pc' = pc /\ snap' = snap /\ deletes' = deletes
    BY <1>8 DEF Environment, Crash, Close, CorruptTail, CorruptRecord, Down, disk, mirror,
       history
  <2> QED
    BY <1>0, <1>n, <2>1 DEF AdjacentsReplaced, AdjacentIsReplaced
<1> QED
  BY <1>1, <1>3, <1>4, <1>5, <1>6, <1>7, <1>8 DEF Next, Forget

LEMMA OffersShowStep == DeletesInductive /\ [Next]_vars => OffersShow'
<1> SUFFICES ASSUME DeletesInductive, [Next]_vars PROVE OffersShow'
  OBVIOUS
<1> DEFINE Shows(tail) == tail.cursor # None \/ tail.flight # <<>>
<1>0. \A batch \in offered :
        /\ Up /\ batch.binding = binding => cursor # None \/ flight # <<>>
        /\ diskTail.kind = "archive" /\ batch.binding = diskTail.binding => Shows(diskTail)
        /\ Writing /\ batch.binding = snap.tail.binding => Shows(snap.tail)
  BY DEF DeletesInductive, OffersShow, EverOffered
<1>a. /\ nextId \in Nat \ {0} /\ \A batch \in offered : batch.binding.id \in Known
      /\ Writing => snap.tail.kind = "archive"
  BY DEF DeletesInductive, Inductive, KnownIds
<1>1. CASE StoreChange \/ UNCHANGED vars
  <2>1. Quiet /\ offered' = offered /\ cursor' = cursor /\ flight' = flight
    BY <1>1, QuietSteps
  <2> QED
    BY <1>0, <2>1 DEF Quiet, OffersShow, EverOffered
<1>2. CASE Archive
  <2>1. Quiet
    BY <1>2, QuietSteps
  <2>2. CASE Freeze \/ \E batch \in offered : Acknowledge(batch)
    <3>1. offered' = offered
      BY <2>2 DEF Freeze, Acknowledge, history
    <3>2. (cursor # None \/ flight # <<>>) => (cursor' # None \/ flight' # <<>>)
      BY <2>2 DEF Freeze, Acknowledge, None
    <3> QED
      BY <1>0, <2>1, <3>1, <3>2 DEF Quiet, OffersShow, EverOffered
  <2>3. CASE NextBatch
    <3>1. /\ Up /\ flight # <<>> /\ written >= frozenVer /\ offered' = offered \union {Batch}
          /\ cursor' = cursor /\ flight' = flight
      BY <2>3 DEF NextBatch, conversation
    <3>2. Batch.binding = binding
      BY DEF Batch
    <3>3. diskTail.binding = binding => diskTail.flight # <<>>
      BY <3>1 DEF DeletesInductive, Inductive, WritesAreCurrent
    <3>4. Writing /\ snap.tail.binding = binding => snap.tail.flight # <<>>
      <4>1. Writing => snap.version >= frozenVer
        BY <3>1 DEF DeletesInductive, Inductive, VersionOrder
      <4> QED
        BY <3>1, <4>1 DEF DeletesInductive, Inductive, WritesAreCurrent
    <3>5. /\ pc' = pc /\ snap' = snap /\ binding' = binding /\ diskTail' = diskTail
      BY <2>1 DEF Quiet
    <3>6. ASSUME NEW batch \in offered \union {Batch}
          PROVE  /\ Up /\ batch.binding = binding => flight # <<>>
                 /\ diskTail.kind = "archive" /\ batch.binding = diskTail.binding => Shows(diskTail)
                 /\ Writing /\ batch.binding = snap.tail.binding => Shows(snap.tail)
      BY <1>0, <3>1, <3>2, <3>3, <3>4
    <3> QED
      BY <3>1, <3>5, <3>6 DEF OffersShow, EverOffered
  <2> QED
    BY <1>2, <2>2, <2>3 DEF Archive
<1>3. CASE RequestForget
  <2>1. /\ pc' = pc /\ snap' = snap /\ diskTail' = diskTail /\ offered' = offered
        /\ binding'.id = nextId
    BY <1>3, RequestResult
  <2>2. \A batch \in offered : batch.binding # binding'
    BY <1>a, <2>1
  <2> QED
    BY <1>0, <2>1, <2>2 DEF OffersShow
<1>4. CASE NextDeletes
  <2>1. /\ pc' = pc /\ snap' = snap /\ diskTail' = diskTail /\ offered' = offered
        /\ binding' = binding /\ cursor' = cursor /\ flight' = flight
    BY <1>4 DEF NextDeletes, mirror, disk, conversation
  <2> QED
    BY <1>0, <2>1 DEF OffersShow, EverOffered
<1>5. CASE \E b \in released : AcknowledgeForget(b)
  <2>1. /\ pc' = pc /\ snap' = snap /\ diskTail' = diskTail /\ offered' = offered
        /\ binding' = binding /\ cursor' = cursor /\ flight' = flight
    BY <1>5, AcknowledgeResult
  <2> QED
    BY <1>0, <2>1 DEF OffersShow, EverOffered
<1>6. CASE Mirror
  <2>1. /\ offered' = offered /\ binding' = binding /\ cursor' = cursor /\ flight' = flight
        /\ Up /\ Up'
        /\ diskTail' = diskTail \/ (Writing /\ diskTail' = snap.tail)
        /\ Writing' => \/ Writing /\ snap' = snap
                       \/ /\ snap'.tail.binding = binding /\ snap'.tail.cursor = cursor
                          /\ snap'.tail.flight = flight
    BY <1>6 DEF Mirror, Snapshot, WriteRecord, WriteTail, Landed, WriteFails, CurrentTail,
       conversation, disk, history
  <2> QED
    BY <1>0, <1>a, <2>1 DEF OffersShow, EverOffered
<1>7. CASE Open
  <2>1. PICK d : OpensWith(d) /\ (OpensNew(d) \/ OpensTail(d))
    BY <1>7, OpenResult
  <2>2. pc' = "idle" /\ diskTail' = diskTail /\ offered' = offered
    BY <1>7, OpenResult DEF disk
  <2>3. CASE OpensNew(d)
    <3>1. binding'.id = nextId
      BY <2>3 DEF OpensNew, NewBinding
    <3>2. \A batch \in offered : batch.binding # binding'
      BY <1>a, <3>1
    <3> QED
      BY <1>0, <2>2, <3>2 DEF OffersShow
  <2>4. CASE OpensTail(d)
    <3>1. /\ diskTail.kind = "archive" /\ binding' = diskTail.binding
          /\ cursor' = diskTail.cursor /\ flight' = diskTail.flight
      BY <2>4 DEF OpensTail
    <3> QED
      BY <1>0, <2>2, <3>1 DEF OffersShow, EverOffered
  <2> QED
    BY <2>1, <2>3, <2>4
<1>8. CASE Environment
  <2>1. /\ offered' = offered
        /\ diskTail' = diskTail \/ diskTail'.kind = "malformed"
        /\ \/ pc' = "down"
           \/ /\ pc' = pc /\ snap' = snap /\ binding' = binding
              /\ cursor' = cursor /\ flight' = flight
    BY <1>8 DEF Environment, Crash, Close, CorruptTail, CorruptRecord, Down, disk, mirror,
       history, conversation
  <2> QED
    BY <1>0, <2>1 DEF OffersShow, EverOffered
<1> QED
  BY <1>1, <1>2, <1>3, <1>4, <1>5, <1>6, <1>7, <1>8 DEF Next, Forget

LEMMA RecordFirstStep == DeletesInductive /\ [Next]_vars => RecordFirst'
<1> SUFFICES ASSUME DeletesInductive, [Next]_vars PROVE RecordFirst'
  OBVIOUS
<1>0. /\ Up => writtenDeletes = IF diskDeletes.readable THEN {diskDeletes.deletes} ELSE {}
      /\ Up => diskDeletes.deletes.live.id <= binding.id
      /\ ~HoldsDeletes(diskDeletes.deletes) \/ ~diskDeletes.readable =>
           diskDeletes.deletes = NoDeletes
      /\ Writing => snap.deletes.live = snap.tail.binding /\ snap.tail.binding.id <= binding.id
      /\ pc = "record" => HoldsDeletes(snap.deletes)
      /\ pc \in {"tail", "landed"} /\ HoldsDeletes(snap.deletes) =>
           diskDeletes.readable /\ diskDeletes.deletes = snap.deletes
  BY DEF DeletesInductive, RecordFirst
<1>a. /\ nextId \in Nat \ {0}
      /\ Up => binding.id \in Known /\ deletes.live = binding
      /\ Writing => snap.tail.binding.id \in Known
      /\ diskDeletes.deletes.live \in Bindings
  BY DEF DeletesInductive, Inductive, KnownIds, LiveIsKept, RecordsSound, SoundRecord
<1>q. ASSUME Quiet PROVE RecordFirst'
  BY <1>0, <1>q DEF Quiet, RecordFirst
<1>1. CASE StoreChange \/ Archive \/ UNCHANGED vars
  BY <1>1, <1>q, QuietSteps
<1>3. CASE RequestForget
  <2>1. /\ Up /\ pc' = pc /\ snap' = snap /\ diskDeletes' = diskDeletes
        /\ writtenDeletes' = writtenDeletes /\ binding'.id = nextId
    BY <1>3, RequestResult
  <2>2. diskDeletes.deletes.live.id <= nextId /\ (Writing => snap.tail.binding.id <= nextId)
    BY <1>a DEF Bindings
  <2> QED
    BY <1>0, <2>1, <2>2 DEF RecordFirst
<1>4. CASE NextDeletes
  <2>1. /\ pc' = pc /\ snap' = snap /\ diskDeletes' = diskDeletes
        /\ writtenDeletes' = writtenDeletes /\ binding' = binding
    BY <1>4 DEF NextDeletes, mirror, disk, conversation, versions
  <2> QED
    BY <1>0, <2>1 DEF RecordFirst
<1>5. CASE \E b \in released : AcknowledgeForget(b)
  <2>1. /\ pc' = pc /\ snap' = snap /\ diskDeletes' = diskDeletes
        /\ writtenDeletes' = writtenDeletes /\ binding' = binding
    BY <1>5, AcknowledgeResult
  <2> QED
    BY <1>0, <2>1 DEF RecordFirst
<1>6. CASE Mirror
  <2>1. binding' = binding /\ Up /\ Up'
    BY <1>6 DEF Mirror, Snapshot, WriteRecord, WriteTail, Landed, WriteFails, conversation
  <2>2. CASE Snapshot
    <3>1. /\ diskDeletes' = diskDeletes /\ writtenDeletes' = writtenDeletes
          /\ snap'.deletes = deletes /\ snap'.tail.binding = binding
          /\ pc' = IF MustRecord(deletes, writtenDeletes) THEN "record" ELSE "tail"
      BY <2>2 DEF Snapshot, CurrentTail, disk
    <3>2. pc' = "record" => HoldsDeletes(deletes)
      BY <3>1 DEF MustRecord
    <3>3. pc' = "tail" /\ HoldsDeletes(deletes) =>
            diskDeletes.readable /\ diskDeletes.deletes = deletes
      BY <1>0, <2>1, <3>1 DEF MustRecord
    <3>4. pc' # "landed"
      BY <3>1
    <3>5. binding.id <= binding.id
      BY <1>a, <2>1
    <3> QED
      BY <1>0, <1>a, <2>1, <3>1, <3>2, <3>3, <3>4, <3>5 DEF RecordFirst
  <2>3. CASE WriteRecord
    <3>1. /\ pc = "record" /\ pc' = "tail" /\ snap' = snap
          /\ diskDeletes' = [readable |-> TRUE, deletes |-> snap.deletes]
          /\ writtenDeletes' = {snap.deletes}
      BY <2>3 DEF WriteRecord
    <3> QED
      BY <1>0, <2>1, <3>1 DEF RecordFirst
  <2>4. CASE WriteTail \/ Landed \/ WriteFails
    <3>1. /\ diskDeletes' = diskDeletes /\ writtenDeletes' = writtenDeletes
          /\ \/ pc = "tail" /\ pc' = "landed" /\ snap' = snap
             \/ pc' = "idle"
      BY <2>4 DEF WriteTail, Landed, WriteFails, disk, versions
    <3> QED
      BY <1>0, <2>1, <3>1 DEF RecordFirst
  <2> QED
    BY <1>6, <2>2, <2>3, <2>4 DEF Mirror
<1>7. CASE Open
  <2>1. PICK d : OpensWith(d) /\ (OpensNew(d) \/ OpensTail(d))
    BY <1>7, OpenResult
  <2>2. /\ pc' = "idle" /\ diskDeletes' = diskDeletes
        /\ writtenDeletes' = IF diskDeletes.readable THEN {diskDeletes.deletes} ELSE {}
    BY <1>7, OpenResult DEF disk
  <2>3. diskDeletes.deletes.live.id <= binding'.id
    <3>1. CASE OpensNew(d)
      <4>1. binding'.id = nextId
        BY <3>1 DEF OpensNew, NewBinding
      <4> QED
        BY <1>a, <4>1 DEF Bindings
    <3>2. CASE OpensTail(d)
      <4>1. binding' = diskTail.binding /\ ~Unproven(diskTail)
            /\ TailBinding(diskTail) = diskTail.binding /\ diskTail.binding.id \in Known
        BY <3>2 DEF OpensTail, TailBinding, DeletesInductive, Inductive, KnownIds
      <4>2. CASE HoldsDeletes(diskDeletes.deletes) /\ diskDeletes.readable
        <5>1. diskDeletes.deletes.live = binding'
          BY <4>1, <4>2 DEF Unproven, RecordRead
        <5> QED
          BY <1>a, <5>1 DEF Bindings
      <4>3. CASE ~(HoldsDeletes(diskDeletes.deletes) /\ diskDeletes.readable)
        <5>1. diskDeletes.deletes.live.id = 0
          BY <1>0, <4>3 DEF NoDeletes, NoBinding
        <5> QED
          BY <1>a, <4>1, <5>1
      <4> QED
        BY <4>2, <4>3
    <3> QED
      BY <2>1, <3>1, <3>2
  <2> QED
    BY <1>0, <2>2, <2>3 DEF RecordFirst
<1>8. CASE Environment
  <2>1. \/ pc' = "down" /\ diskDeletes' = diskDeletes
        \/ /\ pc' = pc /\ snap' = snap /\ binding' = binding /\ diskDeletes' = diskDeletes
           /\ writtenDeletes' = writtenDeletes
        \/ /\ pc = "down" /\ pc' = pc /\ diskDeletes' = [readable |-> FALSE, deletes |-> NoDeletes]
    BY <1>8 DEF Environment, Crash, Close, CorruptTail, CorruptRecord, Down, disk, mirror,
       versions, conversation
  <2> QED
    BY <1>0, <2>1 DEF RecordFirst
<1> QED
  BY <1>1, <1>3, <1>4, <1>5, <1>6, <1>7, <1>8 DEF Next, Forget

LEMMA RetiredStep == DeletesInductive /\ [Next]_vars => Retired'
<1> SUFFICES ASSUME DeletesInductive, [Next]_vars PROVE Retired'
  OBVIOUS
<1>0. /\ \A a \in asked :
           /\ Up /\ a.binding.id \in Known /\ a.binding.id < binding.id
           /\ HoldsDeletes(deletes)
           /\ Writing /\ a.binding.id < snap.tail.binding.id => HoldsDeletes(snap.deletes)
           /\ diskDeletes.readable /\ a.binding.id < diskDeletes.deletes.live.id => a \in recorded
      /\ \A r \in recorded :
           /\ r.binding.id \in Known /\ binding # r.binding
           /\ Writing => snap.tail.binding # r.binding
           /\ diskTail.kind = "archive" /\ diskTail.binding = r.binding =>
                HoldsDeletes(RecordRead) /\ RecordRead.live # r.binding
      /\ promised \subseteq recorded
  BY DEF DeletesInductive, Retired
<1>a. /\ nextId \in Nat \ {0} /\ (Up => binding.id \in Known)
      /\ Writing => snap.tail.binding.id \in Known
      /\ Writing => snap.deletes.live = snap.tail.binding /\ snap.tail.binding.id <= binding.id
      /\ Up => diskDeletes.deletes.live.id <= binding.id
      /\ diskDeletes.deletes.live.id \in Nat
  BY DEF DeletesInductive, Inductive, KnownIds, RecordFirst, RecordsSound, SoundRecord, Bindings
<1>b. /\ pc = "record" => HoldsDeletes(snap.deletes)
      /\ pc \in {"tail", "landed"} /\ HoldsDeletes(snap.deletes) =>
           diskDeletes.readable /\ diskDeletes.deletes = snap.deletes
  BY DEF DeletesInductive, RecordFirst
<1>q. ASSUME Quiet PROVE Retired'
  BY <1>0, <1>q DEF Quiet, Retired, RecordRead
<1>1. CASE StoreChange \/ Archive \/ UNCHANGED vars
  BY <1>1, <1>q, QuietSteps
<1>3. CASE RequestForget
  <2>1. /\ Up /\ pc' = pc /\ snap' = snap /\ diskTail' = diskTail /\ diskDeletes' = diskDeletes
        /\ recorded' = recorded /\ promised' = promised
        /\ asked' = asked \union {[binding |-> binding, upTo |-> nextUid - 1]}
        /\ nextId' = nextId + 1 /\ binding'.id = nextId
    BY <1>3, RequestResult
  <2>2. /\ IF EverOffered THEN deletes'.pending = deletes.pending \union {binding}
           ELSE deletes'.outcome = NewestOutcome(deletes, binding)
        /\ binding # NoBinding
    BY <1>3, <1>a, <2>1, RequestResult DEF NoBinding
  <2>3. HoldsDeletes(deletes)'
    BY <2>2 DEF HoldsDeletes, NewestOutcome
  <2>4. ASSUME NEW a \in asked'
        PROVE  /\ a.binding.id \in 1..nextId /\ a.binding.id < nextId
               /\ Writing /\ a.binding.id < snap.tail.binding.id => HoldsDeletes(snap.deletes)
               /\ diskDeletes.readable /\ a.binding.id < diskDeletes.deletes.live.id => a \in recorded
    <3>1. CASE a \in asked
      BY <1>0, <1>a, <2>1, <3>1
    <3>2. CASE a.binding = binding
      BY <1>a, <2>1, <3>2
    <3> QED
      BY <2>1, <3>1, <3>2
  <2>5. \A r \in recorded : r.binding.id \in 1..nextId /\ binding' # r.binding
    BY <1>0, <1>a, <2>1
  <2>6. RecordRead' = RecordRead /\ 1..(nextId' - 1) = 1..nextId
    <3>1. RecordRead' = RecordRead
      BY <2>1 DEF RecordRead
    <3>2. nextId' = nextId + 1
      BY <2>1
    <3>3. nextId \in Nat
      BY <1>a
    <3>4. 1..(nextId' - 1) = 1..nextId
      BY ONLY <3>2, <3>3
    <3> QED
      BY <3>1, <3>4
  <2>7. \A a \in asked' :
          /\ Up' /\ a.binding.id \in 1..(nextId' - 1) /\ a.binding.id < binding'.id
          /\ HoldsDeletes(deletes)'
          /\ (Writing /\ a.binding.id < snap.tail.binding.id => HoldsDeletes(snap.deletes))'
          /\ (diskDeletes.readable /\ a.binding.id < diskDeletes.deletes.live.id => a \in recorded)'
    BY <2>1, <2>3, <2>4, <2>6
  <2>8. \A r \in recorded' :
          /\ r.binding.id \in 1..(nextId' - 1) /\ binding' # r.binding
          /\ (Writing => snap.tail.binding # r.binding)'
          /\ (diskTail.kind = "archive" /\ diskTail.binding = r.binding =>
                HoldsDeletes(RecordRead) /\ RecordRead.live # r.binding)'
    BY <1>0, <2>1, <2>5, <2>6
  <2> QED
    BY <1>0, <2>1, <2>7, <2>8 DEF Retired
<1>4. CASE NextDeletes
  <2>1. /\ pc' = pc /\ snap' = snap /\ binding' = binding /\ deletes' = deletes
        /\ diskTail' = diskTail /\ diskDeletes' = diskDeletes /\ nextId' = nextId
        /\ asked' = asked /\ recorded' = recorded /\ promised' = promised
    BY <1>4 DEF NextDeletes, mirror, disk, conversation, bounds
  <2> QED
    BY <1>0, <2>1 DEF Retired, RecordRead
<1>5. CASE \E b \in released : AcknowledgeForget(b)
  <2>1. /\ pc' = pc /\ snap' = snap /\ binding' = binding
        /\ diskTail' = diskTail /\ diskDeletes' = diskDeletes /\ nextId' = nextId
        /\ asked' = asked /\ recorded' = recorded /\ promised' = promised
        /\ deletes'.outcome # NoBinding
    BY <1>5, AcknowledgeResult
  <2>2. HoldsDeletes(deletes)'
    BY <2>1 DEF HoldsDeletes
  <2> QED
    BY <1>0, <2>1, <2>2 DEF Retired, RecordRead
<1>6. CASE Mirror
  <2>1. binding' = binding /\ deletes' = deletes /\ nextId' = nextId /\ Up /\ Up'
    BY <1>6 DEF Mirror, Snapshot, WriteRecord, WriteTail, Landed, WriteFails, conversation, bounds
  <2>2. CASE Snapshot \/ WriteFails
    <3>1. /\ diskTail' = diskTail /\ diskDeletes' = diskDeletes
          /\ asked' = asked /\ recorded' = recorded /\ promised' = promised
          /\ Writing' => snap'.deletes = deletes /\ snap'.tail.binding = binding
      BY <2>2 DEF Snapshot, WriteFails, CurrentTail, disk, history
    <3> QED
      BY <1>0, <2>1, <3>1 DEF Retired, RecordRead
  <2>3. CASE WriteRecord
    <3> DEFINE covered == {a \in asked : a.binding.id < snap.tail.binding.id}
    <3>1. /\ pc = "record" /\ pc' = "tail" /\ snap' = snap /\ diskTail' = diskTail
          /\ diskDeletes' = [readable |-> TRUE, deletes |-> snap.deletes]
          /\ recorded' = recorded \union covered
          /\ asked' = asked /\ promised' = promised
      BY <2>3 DEF WriteRecord
    <3>2. RecordRead' = snap.deletes
      BY <3>1 DEF RecordRead
    <3>3. HoldsDeletes(snap.deletes) /\ snap.deletes.live = snap.tail.binding
      BY <1>a, <1>b, <3>1
    <3>4. ASSUME NEW r \in recorded \union covered
          PROVE  /\ r.binding.id \in Known /\ binding # r.binding
                 /\ snap.tail.binding # r.binding
      <4>1. CASE r \in recorded
        BY <1>0, <3>1, <4>1
      <4>2. CASE r \in covered
        <5>1. /\ r.binding.id \in Known /\ r.binding.id < binding.id
              /\ r.binding.id < snap.tail.binding.id
          BY <1>0, <4>2
        <5> QED
          BY <1>a, <2>1, <3>1, <5>1
      <4> QED
        BY <4>1, <4>2
    <3>5. \A a \in asked : a.binding.id < snap.deletes.live.id => a \in covered
      BY <3>3
    <3>6. promised \subseteq recorded \union covered
      BY <1>0
    <3> HIDE DEF covered
    <3> QED
      BY <1>0, <2>1, <3>1, <3>2, <3>3, <3>4, <3>5, <3>6 DEF Retired
  <2>4. CASE WriteTail
    <3>1. /\ pc = "tail" /\ pc' = "landed" /\ snap' = snap /\ diskTail' = snap.tail
          /\ diskDeletes' = diskDeletes /\ asked' = asked /\ recorded' = recorded
          /\ promised' = promised
      BY <2>4 DEF WriteTail, history
    <3> QED
      BY <1>0, <2>1, <3>1 DEF Retired
  <2>5. CASE Landed
    <3>1. /\ pc = "landed" /\ pc' = "idle"
          /\ diskTail' = diskTail /\ diskDeletes' = diskDeletes /\ recorded' = recorded
          /\ IF snap.version >= forgetVer
             THEN promised' = promised \union asked /\ asked' = {}
             ELSE promised' = promised /\ asked' = asked
      BY <2>5 DEF Landed, disk
    <3>2. ASSUME snap.version >= forgetVer, NEW a \in asked PROVE a \in recorded
      <4>1. snap.tail.binding = binding
        BY <3>1, <3>2 DEF DeletesInductive, Inductive, WritesAreCurrent
      <4>2. a.binding.id < snap.tail.binding.id /\ HoldsDeletes(snap.deletes)
        BY <1>0, <3>1, <3>2, <4>1
      <4>3. diskDeletes.readable /\ diskDeletes.deletes.live = snap.tail.binding
        BY <1>a, <1>b, <3>1, <4>2
      <4> QED
        BY <1>0, <3>2, <4>2, <4>3
    <3>3. promised' \subseteq recorded /\ asked' \subseteq asked
      BY <1>0, <3>1, <3>2
    <3> QED
      BY <1>0, <2>1, <3>1, <3>3 DEF Retired, RecordRead
  <2> QED
    BY <1>6, <2>2, <2>3, <2>4, <2>5 DEF Mirror
<1>7. CASE Open
  <2>1. PICK d : OpensWith(d) /\ (OpensNew(d) \/ OpensTail(d))
    BY <1>7, OpenResult
  <2>2. /\ pc = "down" /\ pc' = "idle" /\ diskTail' = diskTail /\ diskDeletes' = diskDeletes
        /\ asked' = asked /\ recorded' = recorded /\ promised' = promised
    BY <1>7, OpenResult DEF disk
  <2>3. asked = {}
    BY <1>0, <2>2
  <2>4. nextId' \in {nextId, nextId + 1}
    BY <2>1 DEF OpensNew, OpensTail
  <2>5. \A r \in recorded : r.binding.id \in Known /\ r.binding.id \in 1..(nextId' - 1)
    BY <1>0, <1>a, <2>4
  <2>6. \A r \in recorded : binding' # r.binding
    <3>1. CASE OpensNew(d)
      <4>1. binding'.id = nextId
        BY <3>1 DEF OpensNew, NewBinding
      <4> QED
        BY <1>a, <2>5, <4>1
    <3>2. CASE OpensTail(d)
      <4>1. /\ diskTail.kind = "archive" /\ binding' = diskTail.binding
            /\ HoldsDeletes(RecordRead) => RecordRead.live = diskTail.binding
        BY <3>2 DEF OpensTail, Unproven, TailBinding
      <4> QED
        BY <1>0, <4>1
    <3> QED
      BY <2>1, <3>1, <3>2
  <2>7. RecordRead' = RecordRead
    BY <2>2 DEF RecordRead
  <2> QED
    BY <1>0, <2>2, <2>3, <2>5, <2>6, <2>7 DEF Retired
<1>8. CASE Environment
  <2>1. recorded' = recorded /\ promised' = promised /\ nextId' = nextId
    BY <1>8 DEF Environment, Crash, Close, CorruptTail, CorruptRecord, history, bounds
  <2>2. CASE Crash \/ Close
    <3>1. pc' = "down" /\ binding' = NoBinding /\ asked' = {}
          /\ diskTail' = diskTail /\ diskDeletes' = diskDeletes
      BY <2>2 DEF Crash, Close, Down, disk
    <3>2. \A r \in recorded : r.binding # NoBinding
      BY <1>0, <1>a DEF NoBinding
    <3> QED
      BY <1>0, <2>1, <3>1, <3>2 DEF Retired, RecordRead
  <2>3. CASE CorruptTail
    <3>1. /\ pc = "down" /\ pc' = pc /\ binding' = binding /\ asked' = asked
          /\ diskTail'.kind = "malformed"
      BY <2>3 DEF CorruptTail, mirror, conversation, history
    <3>2. asked = {}
      BY <1>0, <3>1
    <3> QED
      BY <1>0, <2>1, <3>1, <3>2 DEF Retired
  <2>4. CASE CorruptRecord
    <3>1. /\ pc = "down" /\ pc' = pc /\ binding' = binding /\ asked' = asked
          /\ diskDeletes' = [readable |-> FALSE, deletes |-> NoDeletes]
      BY <2>4 DEF CorruptRecord, mirror, conversation, history
    <3>2. asked = {}
      BY <1>0, <3>1
    <3>3. HoldsDeletes(RecordRead') /\ RecordRead'.live = NoBinding
      BY <3>1 DEF RecordRead, LostDeletes, HoldsDeletes
    <3>4. \A r \in recorded : r.binding # NoBinding
      BY <1>0, <1>a DEF NoBinding
    <3> QED
      BY <1>0, <2>1, <3>1, <3>2, <3>3, <3>4 DEF Retired
  <2> QED
    BY <1>8, <2>2, <2>3, <2>4 DEF Environment
<1> QED
  BY <1>1, <1>3, <1>4, <1>5, <1>6, <1>7, <1>8 DEF Next, Forget

(* What a copy of the record keeps, no step loses: the companion's answers *)
(* only grow, and no batch of a retired conversation is offered.           *)
LEMMA RequestsKeptStep == DeletesInductive /\ [Next]_vars => RequestsKept'
<1> SUFFICES ASSUME DeletesInductive, [Next]_vars PROVE RequestsKept'
  OBVIOUS
<1>0. /\ \A a \in asked : Keeps(deletes, a)
      /\ \A r \in recorded : Keeps(RecordRead, r)
      /\ Up => \A r \in recorded : Keeps(deletes, r)
      /\ Writing =>
           /\ \A r \in recorded : Keeps(snap.deletes, r)
           /\ \A a \in asked : a.binding.id < snap.tail.binding.id => Keeps(snap.deletes, a)
  BY DEF DeletesInductive, RequestsKept
<1>a. /\ \A a \in asked : Up /\ a.binding # binding
      /\ \A r \in recorded : binding # r.binding
  BY DEF DeletesInductive, Retired, Inductive, KnownIds
<1>k. ASSUME offered' = offered, verified' = verified, NEW d, NEW r
      PROVE  Keeps(d, r) =>
               \/ r.binding \in d.pending \union verified'
               \/ ~OfferedBefore(r.binding)'
               \/ d.lost
  BY <1>k DEF Keeps, OfferedBefore
<1>1. CASE StoreChange \/ UNCHANGED vars
  <2>1. Quiet /\ offered' = offered
    BY <1>1, QuietSteps
  <2> QED
    BY <1>0, <2>1 DEF Quiet, RequestsKept, Keeps, OfferedBefore, RecordRead
<1>2. CASE Archive
  <2>1. Quiet
    BY <1>2, QuietSteps
  <2>2. CASE offered' = offered
    BY <1>0, <2>1, <2>2 DEF Quiet, RequestsKept, Keeps, OfferedBefore, RecordRead
  <2>3. CASE NextBatch
    <3>1. offered' = offered \union {Batch} /\ Batch.binding = binding
      BY <2>3 DEF NextBatch, Batch
    <3>2. \A r \in asked \union recorded : OfferedBefore(r.binding)' => OfferedBefore(r.binding)
      BY <1>a, <3>1 DEF OfferedBefore
    <3>3. /\ pc' = pc /\ snap' = snap /\ deletes' = deletes /\ asked' = asked
          /\ recorded' = recorded /\ verified' = verified /\ RecordRead' = RecordRead
      BY <2>1 DEF Quiet, RecordRead
    <3>4. ASSUME NEW d, NEW r \in asked \union recorded, Keeps(d, r)
          PROVE  \/ r.binding \in d.pending \union verified'
                 \/ ~OfferedBefore(r.binding)'
                 \/ d.lost
      BY <3>2, <3>3, <3>4 DEF Keeps
    <3> QED
      BY <1>0, <3>3, <3>4 DEF RequestsKept, Keeps
  <2> QED
    BY <1>2, <2>2, <2>3 DEF Archive, Freeze, Acknowledge, history
<1>3. CASE RequestForget
  <2>1. /\ Up /\ pc' = pc /\ snap' = snap /\ diskDeletes' = diskDeletes
        /\ recorded' = recorded /\ verified' = verified /\ offered' = offered
        /\ asked' = asked \union {[binding |-> binding, upTo |-> nextUid - 1]}
        /\ deletes.pending \subseteq deletes'.pending /\ deletes'.lost = deletes.lost
        /\ EverOffered => binding \in deletes'.pending
    BY <1>3, RequestResult
  <2>2. OfferedBefore(binding) => EverOffered
    BY <2>1 DEF OfferedBefore, DeletesInductive, OffersShow
  <2>3. ASSUME NEW r, Keeps(deletes, r) PROVE Keeps(deletes, r)'
    BY <2>1, <2>3 DEF Keeps, OfferedBefore
  <2>4. ASSUME NEW r, r.binding = binding
        PROVE  /\ Keeps(deletes, r)'
               /\ Writing => ~(r.binding.id < snap.tail.binding.id)
    <3>1. Writing => snap.tail.binding.id <= binding.id /\ snap.tail.binding.id \in Nat
                     /\ binding.id \in Nat
      BY <2>1 DEF DeletesInductive, RecordFirst, Inductive, KnownIds
    <3>2. Keeps(deletes, r)'
      BY <2>1, <2>2, <2>4 DEF Keeps, OfferedBefore
    <3> QED
      BY <2>4, <3>1, <3>2
  <2>5. \A a \in asked' : a \in asked \/ a.binding = binding
    BY <2>1
  <2>6. RecordRead' = RecordRead
    BY <2>1 DEF RecordRead
  <2>7. /\ \A a \in asked' : Keeps(deletes, a)'
        /\ \A r \in recorded' : Keeps(deletes, r)'
    BY <1>0, <2>1, <2>3, <2>4, <2>5
  <2>8. \A d, r : Keeps(d, r) => \/ r.binding \in d.pending \union verified'
                                \/ ~OfferedBefore(r.binding)'
                                \/ d.lost
    BY <1>k, <2>1
  <2>9. \A r \in recorded' : Keeps(RecordRead, r)'
    BY <1>0, <2>1, <2>6, <2>8 DEF Keeps
  <2>10. (Writing =>
           /\ \A r \in recorded : Keeps(snap.deletes, r)
           /\ \A a \in asked : a.binding.id < snap.tail.binding.id => Keeps(snap.deletes, a))'
    BY <1>0, <2>1, <2>4, <2>5, <2>8 DEF Keeps
  <2> QED
    BY <2>7, <2>9, <2>10 DEF RequestsKept
<1>4. CASE NextDeletes
  <2>1. /\ pc' = pc /\ snap' = snap /\ deletes' = deletes /\ diskDeletes' = diskDeletes
        /\ asked' = asked /\ recorded' = recorded /\ verified' = verified /\ offered' = offered
    BY <1>4 DEF NextDeletes, mirror, disk
  <2> QED
    BY <1>0, <2>1 DEF RequestsKept, Keeps, OfferedBefore, RecordRead
<1>5. CASE \E b \in released : AcknowledgeForget(b)
  <2>1. PICK b \in released :
        /\ Up /\ pc' = pc /\ snap' = snap /\ diskDeletes' = diskDeletes
        /\ offered' = offered /\ asked' = asked /\ recorded' = recorded
        /\ verified' = verified \union {b} /\ deletes'.lost = deletes.lost
        /\ deletes'.pending = deletes.pending \ {b}
    BY <1>5, AcknowledgeResult
  <2>2. ASSUME NEW r, Keeps(deletes, r) PROVE Keeps(deletes, r)'
    BY <2>1, <2>2 DEF Keeps, OfferedBefore
  <2>3. ASSUME NEW d, NEW r, Keeps(d, r)
        PROVE  \/ r.binding \in d.pending \union verified'
               \/ ~OfferedBefore(r.binding)'
               \/ d.lost
    BY <2>1, <2>3 DEF Keeps, OfferedBefore
  <2>4. RecordRead' = RecordRead
    BY <2>1 DEF RecordRead
  <2>5. /\ \A a \in asked : Keeps(deletes, a)'
        /\ \A r \in recorded : Keeps(deletes, r)'
    BY <1>0, <2>1, <2>2
  <2>6. /\ \A r \in recorded : Keeps(RecordRead, r)'
        /\ Writing =>
             /\ \A r \in recorded : Keeps(snap.deletes, r)'
             /\ \A a \in asked : a.binding.id < snap.tail.binding.id => Keeps(snap.deletes, a)'
    <3>1. snap' = snap
      BY <2>1
    <3> QED
      BY <1>0, <2>3, <2>4, <3>1 DEF Keeps
  <2> QED
    BY <2>1, <2>5, <2>6 DEF RequestsKept
<1>6. CASE Mirror
  <2>1. /\ deletes' = deletes /\ Up /\ Up' /\ offered' = offered /\ verified' = verified
    BY <1>6 DEF Mirror, Snapshot, WriteRecord, WriteTail, Landed, WriteFails, history
  <2>2. CASE Snapshot \/ WriteFails
    <3>1. /\ diskDeletes' = diskDeletes /\ asked' = asked /\ recorded' = recorded
          /\ Writing' => snap'.deletes = deletes
      BY <2>2 DEF Snapshot, WriteFails, disk, history
    <3> QED
      BY <1>0, <2>1, <3>1 DEF RequestsKept, Keeps, OfferedBefore, RecordRead
  <2>3. CASE WriteRecord
    <3> DEFINE covered == {a \in asked : a.binding.id < snap.tail.binding.id}
    <3>1. /\ pc = "record" /\ snap' = snap
          /\ diskDeletes' = [readable |-> TRUE, deletes |-> snap.deletes]
          /\ recorded' = recorded \union covered /\ asked' = asked
      BY <2>3 DEF WriteRecord
    <3>2. RecordRead' = snap.deletes
      BY <3>1 DEF RecordRead
    <3>3. /\ \A r \in recorded \union covered : Keeps(snap.deletes, r) /\ Keeps(deletes, r)
          /\ \A a \in asked : Keeps(deletes, a)
          /\ \A a \in asked : a.binding.id < snap.tail.binding.id => Keeps(snap.deletes, a)
      BY <1>0, <2>1, <3>1
    <3> HIDE DEF covered
    <3> QED
      BY <2>1, <3>1, <3>2, <3>3 DEF RequestsKept, Keeps, OfferedBefore
  <2>4. CASE WriteTail \/ Landed
    <3>1. /\ diskDeletes' = diskDeletes /\ asked' \subseteq asked /\ recorded' = recorded
          /\ Writing' => Writing /\ snap' = snap
      BY <2>4 DEF WriteTail, Landed, disk, history
    <3> QED
      BY <1>0, <2>1, <3>1 DEF RequestsKept, Keeps, OfferedBefore, RecordRead
  <2> QED
    BY <1>6, <2>2, <2>3, <2>4 DEF Mirror
<1>7. CASE Open
  <2>1. PICK d : OpensWith(d)
    BY <1>7, OpenResult
  <2>2. /\ pc = "down" /\ pc' = "idle" /\ diskDeletes' = diskDeletes /\ offered' = offered
        /\ asked' = asked /\ recorded' = recorded /\ verified' = verified
    BY <1>7, OpenResult DEF disk
  <2>3. asked = {} /\ RecordRead' = RecordRead
    BY <1>a, <2>2 DEF RecordRead
  <2>4. RecordRead.pending \subseteq deletes'.pending /\ deletes'.lost = RecordRead.lost
    BY <2>1 DEF OpensWith, SoundRead
  <2>5. \A r \in recorded : Keeps(deletes, r)' /\ Keeps(RecordRead, r)'
    BY <1>0, <2>2, <2>3, <2>4 DEF Keeps, OfferedBefore
  <2> QED
    BY <2>2, <2>3, <2>5 DEF RequestsKept
<1>8. CASE Environment
  <2>1. /\ offered' = offered /\ recorded' = recorded /\ verified' = verified
        /\ pc' = "down" /\ (asked' = {} \/ (asked' = asked /\ pc = "down"))
        /\ diskDeletes' = diskDeletes \/ diskDeletes'.readable = FALSE
    BY <1>8 DEF Environment, Crash, Close, CorruptTail, CorruptRecord, Down, disk, mirror, history
  <2>2. asked' = {}
    BY <1>a, <2>1
  <2>3. RecordRead' = RecordRead \/ RecordRead'.lost
    BY <2>1 DEF RecordRead, LostDeletes
  <2> QED
    BY <1>0, <2>1, <2>2, <2>3 DEF RequestsKept, Keeps, OfferedBefore
<1> QED
  BY <1>1, <1>2, <1>3, <1>4, <1>5, <1>6, <1>7, <1>8 DEF Next, Forget

LEMMA DeletesStep == DeletesInductive /\ [Next]_vars => DeletesInductive'
<1>1. DeletesInductive => Inductive
  BY DEF DeletesInductive
<1> QED
  BY <1>1, InductiveStep, RecordsSoundStep, EarlierTailStep, AdjacentsReplacedStep, OffersShowStep,
     RecordFirstStep, RetiredStep, RequestsKeptStep DEF DeletesInductive

THEOREM DeletesInvariant == Spec => []DeletesInductive
  BY DeletesInit, DeletesStep, PTL DEF Spec

(* The record in memory, and the one on its way to disk, is always one its *)
(* own parser accepts, whatever was requested, answered, adopted from an   *)
(* earlier build's tail or found unreadable: no write of it can fail for   *)
(* its content and hold the mirror up for ever (voice_deletes_bytes).      *)
THEOREM RecordStaysWritable == Spec => []RecordWritable
<1>1. DeletesInductive => RecordWritable
  BY DEF DeletesInductive, RecordsSound, SoundRecord, Inductive, LiveIsKept, RecordWritable
<1> QED
  BY <1>1, DeletesInvariant, PTL

(* An outcome one generation before the live conversation is of the        *)
(* conversation it replaced: the status never reports another delete as    *)
(* the previous conversation's (_retire, deleted_previous).                *)
THEOREM OutcomeIsThePrevious == Spec => []DeletedPreviousIsTrue
<1>1. DeletesInductive => DeletedPreviousIsTrue
  <2> SUFFICES ASSUME DeletesInductive, Up, deletes.outcome # NoBinding,
                      deletes.outcome.gen + 1 = binding.gen
               PROVE  <<binding, deletes.outcome>> \in replaced
    BY DEF DeletedPreviousIsTrue
  <2>1. deletes.live = binding /\ AdjacentIsReplaced(deletes)
    BY DEF DeletesInductive, Inductive, LiveIsKept, AdjacentsReplaced
  <2>2. deletes.outcome \in Listed(deletes) /\ binding \in Bindings
    BY DEF Listed, DeletesInductive, RecordsSound
  <2> QED
    BY <2>1, <2>2 DEF AdjacentIsReplaced, Bindings
<1> QED
  BY <1>1, DeletesInvariant, PTL

(* A delete that returned is pending or verified, or is of a conversation  *)
(* of which nothing left this host, in memory and, while no process runs,  *)
(* in the record as the next start will read it; unless a record that      *)
(* could not be read lost it, and says so (request_forget, _read_deletes). *)
THEOREM DeletesAreKept == Spec => []DeleteKept
<1>1. DeletesInductive => DeleteKept
  BY DEF DeletesInductive, Retired, RequestsKept, Keeps, DeleteKept
<1> QED
  BY <1>1, DeletesInvariant, PTL

-----------------------------------------------------------------------------
(* The rows.  First what Assign does, for any view and any queue.          *)

(* numbered holds the queue after each of the first n closed rows.         *)
IsNumbering(numbered, waiting, inFlight, numbers, shown, start, n) ==
  numbered = [i \in 0..n |->
                IF i = 0 THEN waiting
                ELSE Number(numbered[i - 1], inFlight, numbers, shown, start + i - 1)]

(* There is one for each n.                                                *)
LEMMA NumberingExists ==
  ASSUME NEW waiting, NEW inFlight, NEW numbers, NEW shown, NEW start, NEW n \in Nat
  PROVE  \E f : IsNumbering(f, waiting, inFlight, numbers, shown, start, n)
<1> DEFINE T == {m \in Nat : ~ \E f : IsNumbering(f, waiting, inFlight, numbers, shown, start, m)}
<1>1. SUFFICES ASSUME T # {} PROVE FALSE
  OBVIOUS
<1>2. PICK m \in T : \A k \in T : m <= k
  BY <1>1, LeastNumber
<1>3. m # 0
  <2>1. IsNumbering([i \in 0..0 |-> waiting], waiting, inFlight, numbers, shown, start, 0)
    BY DEF IsNumbering
  <2> QED BY <2>1
<1>4. m - 1 \in Nat /\ m - 1 \notin T
  <2>1. m \in Nat
    OBVIOUS
  <2> HIDE DEF T
  <2> QED BY <1>2, <1>3, <2>1
<1>5. PICK f : IsNumbering(f, waiting, inFlight, numbers, shown, start, m - 1)
  BY <1>4
<1> DEFINE g == [i \in 0..m |-> IF i = m
                                THEN Number(f[m - 1], inFlight, numbers, shown, start + m - 1)
                                ELSE f[i]]
<1>6. IsNumbering(g, waiting, inFlight, numbers, shown, start, m)
  <2>1. ASSUME NEW i \in 0..m
        PROVE  g[i] = IF i = 0 THEN waiting
                      ELSE Number(g[i - 1], inFlight, numbers, shown, start + i - 1)
    <3>1. CASE i = m
      <4>1. g[i - 1] = f[m - 1]
        BY <3>1, <1>3
      <4> QED BY <3>1, <1>3, <4>1
    <3>2. CASE i = 0
      <4>1. f[0] = waiting
        BY <1>4, <1>5 DEF IsNumbering
      <4> QED BY <3>2, <1>3, <4>1
    <3>3. CASE i # 0 /\ i # m
      <4>1. i \in 0..(m - 1) /\ i - 1 \in 0..(m - 1) /\ i - 1 # m
        BY <3>3, <1>4
      <4>2. g[i] = f[i] /\ g[i - 1] = f[i - 1]
        BY <3>3, <4>1
      <4>3. f[i] = IF i = 0 THEN waiting
                   ELSE Number(f[i - 1], inFlight, numbers, shown, start + i - 1)
        BY <1>4, <1>5, <4>1 DEF IsNumbering
      <4> QED BY <4>2, <4>3, <3>3
    <3> QED BY <3>1, <3>2, <3>3
  <2> HIDE DEF g
  <2>2. g = [i \in 0..m |-> g[i]]
    BY DEF g
  <2> QED BY <2>1, <2>2 DEF IsNumbering
<1> QED BY <1>6

(* Whatever numbering one row keeps, Assign keeps: K holds pairs of the    *)
(* next ordinal and the queue.                                             *)
LEMMA AssignKeeps ==
  ASSUME NEW waiting, NEW inFlight, NEW numbers, NEW shown, NEW K,
         NEW start \in Int, start = numbers.next - numbers.base,
         NEW end \in Int, end = ClosedEnd(shown),
         <<start, waiting>> \in K,
         \A o \in start..(end - 1) : \A q :
           <<o, q>> \in K => <<o + 1, Number(q, inFlight, numbers, shown, o)>> \in K
  PROVE  <<IF end <= start THEN start ELSE end, Assign(waiting, inFlight, numbers, shown)>> \in K
<1> DEFINE count == end - start
           f == CHOOSE g : IsNumbering(g, waiting, inFlight, numbers, shown, start, count)
<1>1. Assign(waiting, inFlight, numbers, shown) = IF count <= 0 THEN waiting ELSE f[count]
  BY DEF Assign, IsNumbering
<1>2. CASE end <= start
  BY <1>1, <1>2
<1>3. CASE ~(end <= start)
  <2>1. count \in Nat /\ count > 0
    BY <1>3
  <2> HIDE DEF count
  <2>2. IsNumbering(f, waiting, inFlight, numbers, shown, start, count)
    BY <2>1, NumberingExists, Zenon
  <2> HIDE DEF f
  <2> DEFINE T == {i \in 0..count : <<start + i, f[i]>> \notin K}
  <2>3. T = {}
    <3>1. SUFFICES ASSUME T # {} PROVE FALSE
      OBVIOUS
    <3>2. PICK i \in T : \A j \in T : i <= j
      <4>1. T \subseteq Nat
        OBVIOUS
      <4> HIDE DEF T
      <4> QED BY <3>1, <4>1, LeastNumber
    <3>3. i \in 0..count /\ <<start + i, f[i]>> \notin K
      OBVIOUS
    <3>4. f[i] = IF i = 0 THEN waiting ELSE Number(f[i - 1], inFlight, numbers, shown, start + i - 1)
      BY <2>2, <3>3 DEF IsNumbering
    <3>5. i # 0
      <4>1. start + 0 = start
        OBVIOUS
      <4> QED BY <3>3, <3>4, <4>1
    <3>6. i - 1 \in 0..count /\ i - 1 \notin T
      <4>1. i - 1 \in 0..count /\ ~(i <= i - 1)
        BY <2>1, <3>3, <3>5
      <4> HIDE DEF T
      <4> QED BY <3>2, <4>1
    <3>7. <<start + (i - 1), f[i - 1]>> \in K
      BY <3>6
    <3>8. start + (i - 1) \in start..(end - 1) /\ start + (i - 1) + 1 = start + i
          /\ start + (i - 1) = start + i - 1
      BY <3>3, <3>5, <2>1 DEF count
    <3>9. <<start + (i - 1) + 1, Number(f[i - 1], inFlight, numbers, shown, start + (i - 1))>> \in K
      BY <3>7, <3>8
    <3> QED BY <3>3, <3>4, <3>5, <3>8, <3>9
  <2>4. <<start + count, f[count]>> \in K
    BY <2>1, <2>3
  <2>5. start + count = end /\ ~(count <= 0)
    BY <2>1 DEF count
  <2> QED BY <1>1, <1>3, <2>4, <2>5
<1> QED BY <1>2, <1>3

-----------------------------------------------------------------------------
(* The numbers of an outbox: a chain from what the archive has to the next *)
(* number.                                                                 *)

(* The gap of a row or a queue, and the queues over a set of rows.         *)
Gaps == {NoGap} \union (Int \X Int)
Queues(uids) == [unsent : Seq(OutboxRows(uids)), gap : Gaps]

(* Partitions, one part at a time: each row follows the one before it, the *)
(* first the number e, and the next number follows them all.               *)
EndBefore(e, rows, i) == IF i > 0 THEN rows[i].seq ELSE e

(* A row follows what ends at end, with a gap between the two or none.     *)
Follows(end, row) ==
  /\ StartOf(row) = end + 1
  /\ row.gap # NoGap => /\ row.kind = "user" /\ row.gap[1] <= row.gap[2]
                        /\ row.gap[2] + 1 = row.seq

(* Rows that follow each other, the first of them what ends at e.          *)
Chained(e, rows) == \A i \in 1..Len(rows) : Follows(EndBefore(e, rows, i - 1), rows[i])

(* The numbers end at next, after a gap or none.                           *)
Closes(end, gap, next) ==
  IF gap = NoGap THEN next = end + 1
  ELSE gap[1] = end + 1 /\ gap[1] <= gap[2] /\ next = gap[2] + 1

(* The last number the archive acknowledged.                               *)
Acked(reached) == IF reached = None THEN -1 ELSE reached[1]

(* Partitions, read as a chain of numbers and the way that chain closes.   *)
LEMMA PartitionsIsChain ==
  ASSUME NEW reached, NEW rows, NEW gap, NEW next
  PROVE  Partitions(reached, rows, gap, next) <=>
           /\ Chained(Acked(reached), rows)
           /\ Closes(EndBefore(Acked(reached), rows, Len(rows)), gap, next)
  BY DEF Partitions, Chained, Closes, EndBefore, Follows, Acked

(* Every row of a chain is after its start.                                *)
LEMMA ChainRises ==
  ASSUME NEW uids, NEW rows \in Seq(OutboxRows(uids)), NEW e \in Int, Chained(e, rows),
         NEW n \in 1..Len(rows)
  PROVE  rows[n].seq > e
<1> DEFINE T == {i \in 1..Len(rows) : ~(rows[i].seq > e)}
<1>1. SUFFICES ASSUME T # {} PROVE FALSE
  OBVIOUS
<1>2. PICK m \in T : \A k \in T : m <= k
  <2>1. T \subseteq Nat
    OBVIOUS
  <2> HIDE DEF T
  <2> QED BY <1>1, <2>1, LeastNumber
<1>3. m \in 1..Len(rows) /\ ~(rows[m].seq > e)
  OBVIOUS
<1>4. m - 1 \notin T
  <2>1. m \in Int
    BY <1>3
  <2> HIDE DEF T
  <2> QED BY <1>2, <2>1
<1>5. \A i \in 1..Len(rows) : rows[i].seq \in Int
  <2>1. ASSUME NEW i \in 1..Len(rows) PROVE rows[i].seq \in Int
    <3>1. rows[i] \in OutboxRows(uids)
      OBVIOUS
    <3> QED BY <3>1 DEF OutboxRows
  <2> QED BY <2>1
<1>6. rows[m].seq >= EndBefore(e, rows, m - 1) + 1
  <2>1. Follows(EndBefore(e, rows, m - 1), rows[m])
    BY <1>3 DEF Chained
  <2>2. rows[m] \in OutboxRows(uids)
    BY <1>3
  <2>3. EndBefore(e, rows, m - 1) \in Int
    BY <1>3, <1>5 DEF EndBefore
  <2>4. CASE rows[m].gap = NoGap
    BY <1>3, <1>5, <2>1, <2>3, <2>4 DEF Follows, StartOf
  <2>5. CASE rows[m].gap # NoGap
    <3>1. rows[m].gap \in Int \X Int
      BY <2>2, <2>5 DEF OutboxRows
    <3> QED BY <1>3, <1>5, <2>1, <2>3, <2>5, <3>1 DEF Follows, StartOf
  <2> QED BY <2>4, <2>5
<1>7. CASE m = 1
  BY <1>3, <1>5, <1>6, <1>7 DEF EndBefore
<1>8. CASE m # 1
  <2>1. m - 1 \in 1..Len(rows)
    BY <1>3, <1>8
  <2>2. rows[m - 1].seq > e
    BY <1>4, <2>1
  <2> QED BY <1>3, <1>5, <1>6, <2>1, <2>2 DEF EndBefore
<1> QED BY <1>7, <1>8

(* A chain of two parts is a chain up to the end of the first and from it. *)
LEMMA ChainConcat ==
  ASSUME NEW S, NEW s \in Seq(S), NEW t \in Seq(S), NEW e
  PROVE  /\ Chained(e, s \o t) <=> Chained(e, s) /\ Chained(EndBefore(e, s, Len(s)), t)
         /\ EndBefore(e, s \o t, Len(s \o t)) = EndBefore(EndBefore(e, s, Len(s)), t, Len(t))
<1> DEFINE u == s \o t
           n == Len(s)
           d == EndBefore(e, s, n)
<1>1. /\ n \in Nat /\ Len(t) \in Nat /\ Len(u) = n + Len(t)
      /\ \A i \in 1..n : u[i] = s[i]
      /\ \A i \in 1..Len(t) : u[n + i] = t[i]
  OBVIOUS
<1> HIDE DEF u
<1>2. \A i \in 0..n : EndBefore(e, u, i) = EndBefore(e, s, i)
  BY <1>1 DEF EndBefore
<1>3. \A i \in 0..Len(t) : EndBefore(e, u, n + i) = EndBefore(d, t, i)
  BY <1>1 DEF EndBefore
<1>4. ASSUME Chained(e, u) PROVE Chained(e, s) /\ Chained(d, t)
  <2>1. ASSUME NEW i \in 1..n PROVE Follows(EndBefore(e, s, i - 1), s[i])
    <3>1. i \in 1..Len(u) /\ i - 1 \in 0..n
      BY <1>1, <2>1
    <3> QED BY <1>1, <1>2, <1>4, <3>1 DEF Chained
  <2>2. ASSUME NEW i \in 1..Len(t) PROVE Follows(EndBefore(d, t, i - 1), t[i])
    <3>1. n + i \in 1..Len(u) /\ i - 1 \in 0..Len(t) /\ n + i - 1 = n + (i - 1)
      BY <1>1, <2>2
    <3>2. Follows(EndBefore(e, u, n + i - 1), u[n + i])
      BY <1>4, <3>1 DEF Chained
    <3> QED BY <1>1, <1>3, <2>2, <3>1, <3>2
  <2> HIDE DEF d
  <2> QED BY <2>1, <2>2 DEF Chained
<1>5. ASSUME Chained(e, s), Chained(d, t) PROVE Chained(e, u)
  <2>1. ASSUME NEW i \in 1..Len(u) PROVE Follows(EndBefore(e, u, i - 1), u[i])
    <3>1. CASE i <= n
      <4>1. i \in 1..Len(s) /\ i - 1 \in 0..n
        BY <1>1, <3>1
      <4> QED BY <1>1, <1>2, <1>5, <4>1 DEF Chained
    <3>2. CASE ~(i <= n)
      <4>1. PICK j \in 1..Len(t) : i = n + j
        <5>1. i - n \in 1..Len(t) /\ i = n + (i - n)
          BY <1>1, <3>2
        <5> QED BY <5>1
      <4>2. j - 1 \in 0..Len(t) /\ n + j - 1 = n + (j - 1)
        BY <1>1, <4>1
      <4>3. Follows(EndBefore(d, t, j - 1), t[j])
        BY <1>5, <4>1 DEF Chained
      <4> QED BY <1>1, <1>3, <4>1, <4>2, <4>3
    <3> QED BY <3>1, <3>2
  <2> QED BY <2>1 DEF Chained
<1>6. EndBefore(e, u, Len(u)) = EndBefore(d, t, Len(t))
  BY <1>1, <1>3
<1> QED BY <1>4, <1>5, <1>6 DEF u

-----------------------------------------------------------------------------
(* What Overflow, Discard and Admit do to that chain.                      *)

(* A set of naturals that is not empty has its Min.                        *)
LEMMA MinIsLeast ==
  ASSUME NEW T, T \subseteq Nat, T # {}
  PROVE  Min(T) \in T /\ \A x \in T : Min(T) <= x
  BY LeastNumber DEF Min

(* What Overflow does: the first count rows go, the next one, a user row,  *)
(* accounts for them; or none is left and the trailing gap does.           *)
Dropped(waiting, count, roomy) ==
  LET unsent == waiting.unsent
      start  == StartOf(unsent[1])
  IN  IF count < Len(unsent)
      THEN /\ unsent[count + 1].kind = "user"
           /\ roomy.gap = waiting.gap
           /\ Len(roomy.unsent) = Len(unsent) - count
           /\ \A i \in 1..(Len(unsent) - count) :
                roomy.unsent[i] = IF i = 1
                                  THEN [unsent[1 + count] EXCEPT
                                          !.gap = <<start, unsent[1 + count].seq - 1>>]
                                  ELSE unsent[i + count]
      ELSE /\ roomy.unsent = <<>>
           /\ roomy.gap = <<start, IF waiting.gap = NoGap THEN unsent[Len(unsent)].seq
                                   ELSE waiting.gap[2]>>

(* Overflow drops the first few rows of a queue, at least one, and the     *)
(* numbers dropped are the gap before what is left.                        *)
LEMMA OverflowDrops ==
  ASSUME NEW uids, NEW waiting \in Queues(uids), waiting.unsent # <<>>
  PROVE  \E count \in 1..Len(waiting.unsent) :
           /\ Dropped(waiting, count, Overflow(waiting))
           /\ Overflow(waiting) = [unsent |-> Overflow(waiting).unsent, gap |-> Overflow(waiting).gap]
           /\ \E n \in Nat :
                Overflow(waiting).unsent = [i \in 1..n |-> Overflow(waiting).unsent[i]]
<1> DEFINE unsent == waiting.unsent
           users  == {i \in 2..Len(unsent) : unsent[i].kind = "user"}
           count  == IF users = {} THEN Len(unsent) ELSE Min(users) - 1
           kept   == SubSeq(unsent, count + 1, Len(unsent))
           start  == StartOf(Head(unsent))
           first  == <<start, kept[1].seq - 1>>
           last   == <<start, IF waiting.gap = NoGap THEN unsent[count].seq ELSE waiting.gap[2]>>
<1>1. Overflow(waiting) = IF kept # <<>>
                        THEN [waiting EXCEPT !.unsent = [kept EXCEPT ![1].gap = first]]
                        ELSE [unsent |-> <<>>, gap |-> last]
  BY DEF Overflow
<1>2. /\ unsent \in Seq(OutboxRows(uids)) /\ Len(unsent) \in Nat /\ Len(unsent) # 0
      /\ waiting = [unsent |-> unsent, gap |-> waiting.gap]
      /\ Head(unsent) = unsent[1]
  BY DEF Queues
<1>3. /\ count \in 1..Len(unsent)
      /\ count < Len(unsent) => unsent[count + 1].kind = "user"
  <2>1. CASE users = {}
    BY <1>2, <2>1
  <2>2. CASE users # {}
    <3>1. users \subseteq Nat
      OBVIOUS
    <3>2. Min(users) \in users
      <4> HIDE DEF users
      <4> QED BY <2>2, <3>1, MinIsLeast
    <3>3. Min(users) \in 2..Len(unsent) /\ unsent[Min(users)].kind = "user"
      BY <3>2
    <3>4. count = Min(users) - 1
      BY <2>2
    <3> HIDE DEF users, count
    <3>5. count + 1 = Min(users)
      BY <3>3, <3>4
    <3> QED BY <1>2, <3>3, <3>4, <3>5
  <2> QED BY <2>1, <2>2
<1> HIDE DEF count
<1>4. /\ Len(kept) = Len(unsent) - count
      /\ kept = [i \in 1..(Len(unsent) - count) |-> unsent[i + count]]
  BY <1>2, <1>3
<1> HIDE DEF unsent, kept, start, first, last
<1>5. CASE count < Len(unsent)
  <2> DEFINE r == [kept EXCEPT ![1].gap = first]
  <2>1. kept # <<>> /\ Len(unsent) - count \in Nat \ {0}
    BY <1>2, <1>3, <1>4, <1>5
  <2>2. Overflow(waiting) = [unsent |-> r, gap |-> waiting.gap]
    <3>1. Overflow(waiting) = [waiting EXCEPT !.unsent = r]
      BY <1>1, <2>1, Zenon
    <3>2. [waiting EXCEPT !.unsent = r] = [unsent |-> r, gap |-> waiting.gap]
      <4> HIDE DEF r
      <4> QED BY <1>2
    <3> QED BY <3>1, <3>2, Zenon
  <2>3. /\ DOMAIN r = 1..(Len(unsent) - count)
        /\ r[1] = [unsent[1 + count] EXCEPT !.gap = first]
        /\ \A i \in 2..(Len(unsent) - count) : r[i] = unsent[i + count]
    BY <1>4, <2>1
  <2>a. r = [i \in 1..(Len(unsent) - count) |-> r[i]]
    BY <1>4
  <2>4. first = <<StartOf(unsent[1]), unsent[1 + count].seq - 1>>
    <3>1. kept[1] = unsent[1 + count]
      BY <1>4, <2>1
    <3> QED BY <1>2, <3>1 DEF first, start
  <2> HIDE DEF r
  <2>5. Overflow(waiting).unsent = r /\ Overflow(waiting).gap = waiting.gap
    BY <2>2
  <2>6. Len(r) = Len(unsent) - count
    BY <2>1, <2>3
  <2>7. Dropped(waiting, count, Overflow(waiting))
    <3>1. ASSUME NEW i \in 1..(Len(unsent) - count)
          PROVE  r[i] = IF i = 1 THEN [unsent[1 + count] EXCEPT !.gap = first]
                        ELSE unsent[i + count]
      BY <2>3, <3>1
    <3> QED BY <1>3, <1>5, <2>4, <2>5, <2>6, <3>1 DEF Dropped, unsent
  <2>8. Overflow(waiting).unsent =
          [i \in 1..(Len(unsent) - count) |-> Overflow(waiting).unsent[i]]
    BY <2>a, <2>5
  <2> QED BY <1>3, <2>1, <2>2, <2>5, <2>7, <2>8 DEF unsent
<1>6. CASE ~(count < Len(unsent))
  <2>1. count = Len(unsent) /\ kept = <<>>
    <3>1. count = Len(unsent)
      BY <1>2, <1>3, <1>6
    <3>2. Len(unsent) - count = 0
      BY <1>2, <3>1
    <3> QED BY <1>4, <3>1, <3>2
  <2>2. Overflow(waiting) = [unsent |-> <<>>, gap |-> last]
    BY <1>1, <2>1, Zenon
  <2>3. Overflow(waiting).unsent = <<>> /\ Overflow(waiting).gap = last
    BY <2>2
  <2>4. last = <<StartOf(unsent[1]), IF waiting.gap = NoGap THEN unsent[Len(unsent)].seq
                                     ELSE waiting.gap[2]>>
    BY <1>2, <2>1 DEF last, start
  <2>5. Dropped(waiting, count, Overflow(waiting))
    BY <1>6, <2>3, <2>4 DEF Dropped, unsent
  <2>6. Overflow(waiting).unsent = [i \in 1..0 |-> Overflow(waiting).unsent[i]]
    BY <2>3
  <2> QED BY <1>3, <2>2, <2>3, <2>5, <2>6 DEF unsent
<1> QED BY <1>5, <1>6

(* A queue whose rows and gap account for every number after e and before  *)
(* next.                                                                   *)
Fits(uids, e, waiting, next) ==
  /\ waiting \in Queues(uids)
  /\ Chained(e, waiting.unsent)
  /\ Closes(EndBefore(e, waiting.unsent, Len(waiting.unsent)), waiting.gap, next)

(* One queue's rows are those of another without the first few.            *)
Later(some, all) ==
  \E count \in 1..Len(all) :
    Len(some) = Len(all) - count /\ \A i \in 1..Len(some) : some[i].uid = all[i + count].uid

(* The fields of an outbox row.                                            *)
LEMMA QueueFields ==
  ASSUME NEW uids, NEW rows \in Seq(OutboxRows(uids)), NEW i \in 1..Len(rows)
  PROVE  /\ rows[i] \in OutboxRows(uids)
         /\ rows[i].seq \in Int /\ rows[i].uid \in uids /\ rows[i].kind \in Kinds
         /\ rows[i].gap \in Gaps
         /\ rows[i].gap # NoGap =>
              rows[i].gap \in Int \X Int /\ rows[i].gap[1] \in Int /\ rows[i].gap[2] \in Int
         /\ rows[i] = [seq |-> rows[i].seq, uid |-> rows[i].uid, kind |-> rows[i].kind,
                       gap |-> rows[i].gap]
<1>1. rows[i] \in OutboxRows(uids)
  OBVIOUS
<1> QED BY <1>1 DEF OutboxRows, Gaps

(* A queue that overflows still accounts for every number, with the last of *)
(* its rows.                                                               *)
LEMMA OverflowFits ==
  ASSUME NEW uids, NEW e \in Int, NEW next \in Int, NEW waiting, Fits(uids, e, waiting, next),
         waiting.unsent # <<>>
  PROVE  /\ Fits(uids, e, Overflow(waiting), next)
         /\ Later(Overflow(waiting).unsent, waiting.unsent)
<1> DEFINE all  == waiting.unsent
           o    == Overflow(waiting)
           some == o.unsent
<1>1. /\ waiting \in Queues(uids) /\ all \in Seq(OutboxRows(uids)) /\ Len(all) \in Nat
      /\ Len(all) # 0 /\ waiting.gap \in Gaps
  BY DEF Fits, Queues
<1>2. PICK count \in 1..Len(all) :
        /\ Dropped(waiting, count, o)
        /\ o = [unsent |-> some, gap |-> o.gap]
        /\ \E n \in Nat : some = [i \in 1..n |-> some[i]]
  BY <1>1, OverflowDrops
<1>3. /\ Chained(e, all)
      /\ Closes(EndBefore(e, all, Len(all)), waiting.gap, next)
  BY DEF Fits
<1>4. EndBefore(e, all, Len(all)) = all[Len(all)].seq
  BY <1>1 DEF EndBefore
<1>5. \A i \in 1..Len(all) : all[i].seq > e /\ all[i].seq \in Int
  BY <1>1, <1>3, ChainRises, QueueFields
<1>6. StartOf(all[1]) = e + 1
  BY <1>1, <1>3 DEF Chained, Follows, EndBefore
<1> HIDE DEF all, o, some
<1>7. CASE count < Len(all)
  <2> DEFINE m == Len(all) - count
  <2>1. /\ m \in Nat \ {0} /\ m <= Len(all) - 1
        /\ all[count + 1].kind = "user" /\ o.gap = waiting.gap
        /\ Len(some) = m
        /\ \A i \in 1..m :
             some[i] = IF i = 1 THEN [all[1 + count] EXCEPT !.gap = <<e + 1, all[1 + count].seq - 1>>]
                       ELSE all[i + count]
    <3>1. m \in Nat \ {0} /\ m <= Len(all) - 1
      BY <1>1, <1>7
    <3>2. /\ all[count + 1].kind = "user" /\ o.gap = waiting.gap /\ Len(some) = m
          /\ \A i \in 1..m :
               some[i] = IF i = 1
                         THEN [all[1 + count] EXCEPT !.gap = <<StartOf(all[1]), all[1 + count].seq - 1>>]
                         ELSE all[i + count]
      <4>1. Dropped(waiting, count, o)
        BY <1>2
      <4> QED BY <1>7, <4>1, Zenon DEF Dropped, all, some
    <3> QED BY <1>6, <3>1, <3>2
  <2> HIDE DEF m
  <2>2. /\ 1 + count \in 1..Len(all) /\ count \in 1..Len(all)
        /\ all[1 + count] \in OutboxRows(uids)
        /\ all[1 + count].seq \in Int /\ all[1 + count].kind = "user"
        /\ all[1 + count].uid \in uids
    <3>1. 1 + count \in 1..Len(all) /\ 1 + count = count + 1
      BY <1>1, <1>7
    <3> QED BY <1>1, <2>1, <3>1, QueueFields
  <2>3. all[1 + count].seq - 1 >= e + 1
    <3>1. Follows(all[count].seq, all[1 + count])
      <4>1. (1 + count) - 1 = count /\ count > 0
        BY <2>2
      <4> QED BY <1>3, <2>2, <4>1 DEF Chained, EndBefore
    <3>2. all[count].seq > e /\ all[count].seq \in Int
      BY <1>5, <2>2
    <3> DEFINE y == all[1 + count]
               z == all[count].seq
    <3>3. /\ y.seq \in Int /\ z \in Int /\ z > e /\ Follows(z, y)
          /\ y.gap # NoGap => y.gap[1] \in Int /\ y.gap[2] \in Int
      BY <1>1, <2>2, <3>1, <3>2, QueueFields
    <3> HIDE DEF y, z
    <3>4. y.seq - 1 >= e + 1
      BY <3>3 DEF Follows, StartOf
    <3> QED BY <3>4 DEF y
  <2> DEFINE x == [all[1 + count] EXCEPT !.gap = <<e + 1, all[1 + count].seq - 1>>]
  <2>4. /\ x \in OutboxRows(uids)
        /\ x.seq = all[1 + count].seq /\ x.uid = all[1 + count].uid /\ x.kind = "user"
        /\ x.gap = <<e + 1, all[1 + count].seq - 1>>
    <3>1. all[1 + count] = [seq |-> all[1 + count].seq, uid |-> all[1 + count].uid,
                            kind |-> all[1 + count].kind, gap |-> all[1 + count].gap]
      BY <1>1, <2>2, QueueFields
    <3>2. x = [seq |-> all[1 + count].seq, uid |-> all[1 + count].uid,
               kind |-> all[1 + count].kind, gap |-> <<e + 1, all[1 + count].seq - 1>>]
      BY <3>1
    <3>3. <<e + 1, all[1 + count].seq - 1>> \in Int \X Int
      BY <2>2
    <3> HIDE DEF x
    <3> QED BY <2>2, <3>2, <3>3 DEF OutboxRows, Kinds
  <2> HIDE DEF x
  <2>5. some[1] = x /\ \A i \in 2..m : some[i] = all[i + count]
    <3>1. 1 \in 1..m /\ \A i \in 2..m : i \in 1..m /\ i # 1
      BY <2>1
    <3> QED BY <2>1, <3>1 DEF x
  <2>6. \A i \in 2..m : i + count \in 1..Len(all) /\ (i - 1) + count \in 1..Len(all)
                        /\ (i + count) - 1 = (i - 1) + count /\ i - 1 \in 1..m
    <3> DEFINE k == Len(all)
    <3>1. k \in Nat /\ count \in 1..k /\ m = k - count /\ m \in Nat
      BY <1>1, <2>1, <2>2 DEF m
    <3> HIDE DEF k
    <3>2. \A i \in 2..m : i + count \in 1..k /\ (i - 1) + count \in 1..k
                        /\ (i + count) - 1 = (i - 1) + count /\ i - 1 \in 1..m
      BY <3>1
    <3> QED BY <3>2 DEF k
  <2>7. some \in Seq(OutboxRows(uids))
    <3>2. ASSUME NEW i \in 1..m PROVE some[i] \in OutboxRows(uids)
      <4>1. CASE i = 1
        BY <2>4, <2>5, <4>1
      <4>2. CASE i # 1
        <5>1. i \in 2..m
          BY <2>1, <4>2
        <5> QED BY <1>1, <2>5, <2>6, <5>1, QueueFields
      <4> QED BY <4>1, <4>2
    <3>3. some = [i \in 1..m |-> some[i]]
      <4>1. PICK n \in Nat : some = [i \in 1..n |-> some[i]]
        BY <1>2
      <4>2. n = m
        <5> DEFINE f == [i \in 1..n |-> some[i]]
        <5>1. Len(f) = n
          OBVIOUS
        <5> HIDE DEF f
        <5> QED BY <2>1, <4>1, <5>1 DEF f
      <4> QED BY <4>1, <4>2
    <3> QED BY <2>1, <3>2, <3>3
  <2>8. Chained(e, some)
    <3>1. ASSUME NEW i \in 1..Len(some) PROVE Follows(EndBefore(e, some, i - 1), some[i])
      <4>1. CASE i = 1
        <5>1. EndBefore(e, some, i - 1) = e
          BY <4>1 DEF EndBefore
        <5>2. x.gap # NoGap /\ x.gap[1] = e + 1 /\ x.gap[2] = x.seq - 1
          BY <2>4 DEF NoGap
        <5>3. StartOf(x) = e + 1 /\ x.gap[2] + 1 = x.seq /\ x.gap[1] <= x.gap[2]
          BY <2>2, <2>3, <2>4, <5>2 DEF StartOf
        <5> QED BY <2>4, <2>5, <4>1, <5>1, <5>2, <5>3 DEF Follows
      <4>2. CASE i # 1
        <5>1. i \in 2..m
          BY <2>1, <4>2
        <5>2. Follows(EndBefore(e, all, (i + count) - 1), all[i + count])
          BY <1>3, <2>6, <5>1 DEF Chained
        <5>3. EndBefore(e, all, (i + count) - 1) = all[(i - 1) + count].seq
          BY <2>6, <5>1 DEF EndBefore
        <5>4. some[i - 1].seq = all[(i - 1) + count].seq
          <6>1. CASE i - 1 = 1
            BY <2>4, <2>5, <6>1
          <6>2. CASE i - 1 # 1
            <7>1. i - 1 \in 2..m
              BY <5>1, <6>2, <2>1
            <7> QED BY <2>5, <7>1
          <6> QED BY <6>1, <6>2
        <5>5. EndBefore(e, some, i - 1) = some[i - 1].seq
          BY <5>1 DEF EndBefore
        <5> QED BY <2>5, <5>1, <5>2, <5>3, <5>4, <5>5
      <4> QED BY <4>1, <4>2
    <3> QED BY <3>1 DEF Chained
  <2>9. EndBefore(e, some, Len(some)) = all[Len(all)].seq
    <3>1. m + count = Len(all) /\ m > 0
      BY <1>1, <2>1 DEF m
    <3>2. some[m].seq = all[m + count].seq
      <4>1. CASE m = 1
        BY <2>4, <2>5, <4>1
      <4>2. CASE m # 1
        <5>1. m \in 2..m
          BY <2>1, <4>2
        <5> QED BY <2>5, <5>1
      <4> QED BY <4>1, <4>2
    <3> QED BY <2>1, <3>1, <3>2 DEF EndBefore
  <2>10. o \in Queues(uids)
    <3>1. o = [unsent |-> some, gap |-> o.gap] /\ o.gap \in Gaps
      BY <1>1, <1>2, <2>1
    <3> QED BY <2>7, <3>1 DEF Queues
  <2>11. Later(some, all)
    <3>1. ASSUME NEW i \in 1..Len(some) PROVE some[i].uid = all[i + count].uid
      <4>1. CASE i = 1
        BY <2>4, <2>5, <4>1
      <4>2. CASE i # 1
        BY <2>1, <2>5, <4>2
      <4> QED BY <4>1, <4>2
    <3> QED BY <2>1, <3>1 DEF Later, m
  <2> QED BY <1>3, <1>4, <2>1, <2>8, <2>9, <2>10, <2>11 DEF Fits, o, some, all
<1>8. CASE ~(count < Len(all))
  <2> DEFINE g == IF waiting.gap = NoGap THEN all[Len(all)].seq ELSE waiting.gap[2]
  <2>1. some = <<>> /\ o.gap = <<e + 1, g>>
    BY <1>2, <1>6, <1>8 DEF Dropped, all, some, o
  <2>2. Len(all) \in 1..Len(all)
    BY <1>1
  <2>3. all[Len(all)].seq > e /\ all[Len(all)].seq \in Int
    BY <1>5, <2>2
  <2>4. g \in Int /\ g >= e + 1 /\ next = g + 1
    <3>1. CASE waiting.gap = NoGap
      BY <1>3, <1>4, <2>3, <3>1 DEF Closes
    <3>2. CASE waiting.gap # NoGap
      <4>1. waiting.gap[1] \in Int /\ waiting.gap[2] \in Int
        BY <1>1, <3>2 DEF Gaps
      <4> QED BY <1>3, <1>4, <2>3, <3>2, <4>1 DEF Closes
    <3> QED BY <3>1, <3>2
  <2> HIDE DEF g
  <2>5. o \in Queues(uids)
    BY <1>2, <2>1, <2>4 DEF Queues, Gaps
  <2>6. EndBefore(e, some, Len(some)) = e /\ Chained(e, some)
    BY <2>1 DEF EndBefore, Chained
  <2>7. Closes(e, o.gap, next)
    BY <2>1, <2>4 DEF Closes, NoGap
  <2>8. Later(some, all)
    <3>1. count = Len(all) /\ Len(some) = Len(all) - count
      BY <1>1, <1>8, <2>1
    <3> QED BY <2>1, <3>1 DEF Later
  <2> QED BY <2>5, <2>6, <2>7, <2>8 DEF Fits, o, some, all
<1> QED BY <1>7, <1>8

(* One queue's rows are those of another without the first few, and        *)
(* perhaps one more, that of uid u.                                        *)
Extends(new, old, u) ==
  \E count \in 0..Len(old) :
    /\ Len(new) \in {Len(old) - count, Len(old) - count + 1}
    /\ \A i \in 1..Len(new) :
         new[i].uid = IF i <= Len(old) - count THEN old[i + count].uid ELSE u

(* A row that is discarded joins the gap: the numbers now reach one        *)
(* further.                                                                *)
LEMMA DiscardFits ==
  ASSUME NEW uids, NEW e \in Int, NEW next \in Int, NEW waiting, Fits(uids, e, waiting, next)
  PROVE  /\ Fits(uids, e, Discard(waiting, next), next + 1)
         /\ Discard(waiting, next).unsent = waiting.unsent
<1> DEFINE g == <<IF waiting.gap = NoGap THEN next ELSE waiting.gap[1], next>>
           end == EndBefore(e, waiting.unsent, Len(waiting.unsent))
<1>1. waiting = [unsent |-> waiting.unsent, gap |-> waiting.gap] /\ waiting.gap \in Gaps
  BY DEF Fits, Queues
<1>2. Discard(waiting, next) = [unsent |-> waiting.unsent, gap |-> g]
  <2>1. Discard(waiting, next) = [waiting EXCEPT !.gap = g]
    BY <1>1 DEF Discard
  <2> HIDE DEF g
  <2> QED BY <1>1, <2>1
<1>3. end \in Int
  <2>1. waiting.unsent \in Seq(OutboxRows(uids)) /\ Len(waiting.unsent) \in Nat
    BY DEF Fits, Queues
  <2>2. ASSUME Len(waiting.unsent) > 0
        PROVE  waiting.unsent[Len(waiting.unsent)].seq \in Int
    <3>1. Len(waiting.unsent) \in 1..Len(waiting.unsent)
      BY <2>1, <2>2
    <3> QED BY <2>1, <3>1, QueueFields
  <2> QED BY <2>1, <2>2 DEF EndBefore
<1>4. Closes(end, waiting.gap, next)
  BY DEF Fits
<1> HIDE DEF end
<1>5. g \in Int \X Int /\ Closes(end, g, next + 1)
  <2>1. CASE waiting.gap = NoGap
    BY <1>3, <1>4, <2>1 DEF Closes, NoGap
  <2>2. CASE waiting.gap # NoGap
    <3>1. waiting.gap[1] \in Int /\ waiting.gap[2] \in Int
      BY <1>1, <2>2 DEF Gaps
    <3> QED BY <1>3, <1>4, <2>2, <3>1 DEF Closes, NoGap
  <2> QED BY <2>1, <2>2
<1> HIDE DEF g
<1>6. waiting.unsent \in Seq(OutboxRows(uids)) /\ Chained(e, waiting.unsent)
  BY DEF Fits, Queues
<1>7. Discard(waiting, next).unsent = waiting.unsent /\ Discard(waiting, next).gap = g
  BY <1>2
<1>8. Discard(waiting, next) \in Queues(uids)
  BY <1>2, <1>5, <1>6 DEF Queues, Gaps
<1> QED BY <1>5, <1>6, <1>7, <1>8 DEF Fits, end

(* A row at the end of the chain, with the trailing gap before it.         *)
LEMMA AppendFits ==
  ASSUME NEW uids, NEW e \in Int, NEW next \in Int, NEW waiting, Fits(uids, e, waiting, next),
         NEW row \in OutboxRows(uids), row.seq = next, row.gap = waiting.gap,
         waiting.gap = NoGap \/ row.kind = "user"
  PROVE  Fits(uids, e, [unsent |-> Append(waiting.unsent, row), gap |-> NoGap], next + 1)
<1> DEFINE s == waiting.unsent
           t == Append(s, row)
           n == Len(s)
<1>1. s \in Seq(OutboxRows(uids)) /\ n \in Nat /\ waiting.gap \in Gaps
  BY DEF Fits, Queues
<1>2. /\ t \in Seq(OutboxRows(uids)) /\ Len(t) = n + 1 /\ t[n + 1] = row
      /\ \A i \in 1..n : t[i] = s[i]
  BY <1>1
<1>3. EndBefore(e, s, n) \in Int
  <2>1. ASSUME n > 0 PROVE s[n].seq \in Int
    <3>1. n \in 1..Len(s)
      BY <1>1, <2>1
    <3> QED BY <1>1, <3>1, QueueFields
  <2> QED BY <2>1 DEF EndBefore
<1>4. Chained(e, s) /\ Closes(EndBefore(e, s, n), waiting.gap, next)
  BY DEF Fits
<1> HIDE DEF t, s, n
<1>5. \A i \in 0..n : EndBefore(e, t, i) = EndBefore(e, s, i)
  BY <1>2 DEF EndBefore
<1>6. Follows(EndBefore(e, s, n), row)
  <2>1. CASE waiting.gap = NoGap
    BY <1>3, <1>4, <2>1 DEF Closes, Follows, StartOf
  <2>2. CASE waiting.gap # NoGap
    <3>1. waiting.gap[1] \in Int /\ waiting.gap[2] \in Int
      BY <1>1, <2>2 DEF Gaps
    <3> QED BY <1>3, <1>4, <2>2, <3>1 DEF Closes, Follows, StartOf
  <2> QED BY <2>1, <2>2
<1>7. Chained(e, t)
  <2>1. ASSUME NEW i \in 1..Len(t) PROVE Follows(EndBefore(e, t, i - 1), t[i])
    <3>1. CASE i = n + 1
      <4>1. i - 1 = n /\ n \in 0..n
        BY <1>1, <3>1
      <4> QED BY <1>2, <1>5, <1>6, <3>1, <4>1
    <3>2. CASE i # n + 1
      <4>1. i \in 1..n /\ i - 1 \in 0..n
        BY <1>1, <1>2, <3>2
      <4> QED BY <1>2, <1>4, <1>5, <4>1 DEF Chained, n
    <3> QED BY <3>1, <3>2
  <2> QED BY <2>1 DEF Chained
<1>8. EndBefore(e, t, Len(t)) = next
  BY <1>1, <1>2 DEF EndBefore
<1> DEFINE q == [unsent |-> t, gap |-> NoGap]
<1>9. q.unsent = t /\ q.gap = NoGap /\ q \in Queues(uids)
  BY <1>2 DEF Queues, Gaps
<1> HIDE DEF q
<1>10. Closes(next, NoGap, next + 1)
  BY DEF Closes
<1>11. Fits(uids, e, q, next + 1)
  BY <1>7, <1>8, <1>9, <1>10 DEF Fits
<1> QED BY <1>11 DEF q, t, s

(* A row that is admitted comes last, perhaps after the oldest made room:  *)
(* the numbers reach one further and the outbox holds its bound.           *)
LEMMA AdmitFits ==
  ASSUME NEW uids, NEW e \in Int, NEW next \in Int, NEW waiting, Fits(uids, e, waiting, next),
         NEW inFlight \in Nat, inFlight + Len(waiting.unsent) <= MaxOutbox,
         NEW u \in uids, NEW kind \in Kinds,
         NEW row, row = [seq |-> next, uid |-> u, kind |-> kind, gap |-> NoGap]
  PROVE  /\ Fits(uids, e, Admit(waiting, inFlight, row), next + 1)
         /\ inFlight + Len(Admit(waiting, inFlight, row).unsent) <= MaxOutbox
         /\ Extends(Admit(waiting, inFlight, row).unsent, waiting.unsent, u)
<1> DEFINE full == inFlight + Len(waiting.unsent) >= MaxOutbox
           a    == Admit(waiting, inFlight, row)
           old  == waiting.unsent
<1>1. /\ waiting \in Queues(uids) /\ old \in Seq(OutboxRows(uids)) /\ Len(old) \in Nat
      /\ MaxOutbox \in Nat
  BY MaxOutboxAssumption DEF Fits, Queues
<1>2. row.seq = next /\ row.kind = kind /\ row.gap = NoGap /\ row.uid = u
      /\ row \in OutboxRows(uids)
  BY DEF OutboxRows
<1>3. CASE full /\ old = <<>>
  <2>1. a = Discard(waiting, next)
    BY <1>2, <1>3 DEF Admit
  <2>2. Fits(uids, e, a, next + 1) /\ a.unsent = old
    BY <2>1, DiscardFits
  <2>3. Extends(old, old, u)
    <3>1. Len(old) = 0
      BY <1>3
    <3>2. 0 \in 0..Len(old) /\ Len(old) \in {Len(old) - 0, Len(old) - 0 + 1}
          /\ 1..Len(old) = {}
      BY <3>1
    <3> HIDE DEF old
    <3> QED BY <3>2 DEF Extends
  <2> QED BY <2>2, <2>3
<1>4. CASE ~(full /\ old = <<>>)
  <2> DEFINE roomy == IF full THEN Overflow(waiting) ELSE waiting
             kept  == roomy.unsent
  <2>1. /\ Fits(uids, e, roomy, next)
        /\ \E count \in 0..Len(old) :
             /\ Len(kept) = Len(old) - count
             /\ \A i \in 1..Len(kept) : kept[i].uid = old[i + count].uid
             /\ full => count >= 1
    <3>1. CASE full
      <4>1. Fits(uids, e, Overflow(waiting), next) /\ Later(Overflow(waiting).unsent, old)
        BY <1>4, <3>1, OverflowFits
      <4>2. roomy = Overflow(waiting)
        BY <3>1
      <4> HIDE DEF roomy
      <4>3. PICK count \in 1..Len(old) :
              /\ Len(kept) = Len(old) - count
              /\ \A i \in 1..Len(kept) : kept[i].uid = old[i + count].uid
        BY <4>1, <4>2 DEF Later
      <4>4. count \in 0..Len(old) /\ count >= 1
        OBVIOUS
      <4> QED BY <4>1, <4>2, <4>3, <4>4
    <3>2. CASE ~full
      <4>1. roomy = waiting
        BY <3>2
      <4> HIDE DEF roomy
      <4>2. /\ 0 \in 0..Len(old) /\ Len(old) = Len(old) - 0
            /\ \A i \in 1..Len(old) : old[i].uid = old[i + 0].uid
        BY <1>1
      <4> QED BY <3>2, <4>1, <4>2
    <3> QED BY <3>1, <3>2
  <2>2. a = IF roomy.gap = NoGap
            THEN [roomy EXCEPT !.unsent = Append(kept, row)]
            ELSE IF row.kind # "user"
            THEN [roomy EXCEPT !.gap = <<roomy.gap[1], row.seq>>]
            ELSE [unsent |-> Append(kept, [row EXCEPT !.gap = roomy.gap]), gap |-> NoGap]
    BY <1>4 DEF Admit
  <2>3. PICK count \in 0..Len(old) :
             /\ Len(kept) = Len(old) - count
             /\ \A i \in 1..Len(kept) : kept[i].uid = old[i + count].uid
             /\ full => count >= 1
    BY <2>1
  <2> HIDE DEF roomy
  <2>4. /\ roomy \in Queues(uids) /\ kept \in Seq(OutboxRows(uids)) /\ roomy.gap \in Gaps
        /\ roomy = [unsent |-> kept, gap |-> roomy.gap] /\ Len(kept) \in Nat
    BY <2>1 DEF Fits, Queues
  <2>5. inFlight + Len(kept) + 1 <= MaxOutbox
    <3> DEFINE x == Len(old)  y == Len(kept)
    <3>1. x \in Nat /\ y \in Nat /\ y = x - count /\ (full => count >= 1)
          /\ inFlight + x <= MaxOutbox
      BY <1>1, <2>3, <2>4
    <3>2. ~full => inFlight + x < MaxOutbox
      BY <1>1
    <3> HIDE DEF x, y, full
    <3>3. inFlight + y + 1 <= MaxOutbox
      BY <1>1, <3>1, <3>2
    <3> QED BY <3>3 DEF y
  <2>6. Extends(kept, old, u)
    <3>1. /\ Len(kept) \in {Len(old) - count, Len(old) - count + 1}
          /\ \A i \in 1..Len(kept) :
               kept[i].uid = IF i <= Len(old) - count THEN old[i + count].uid ELSE u
      <4> HIDE DEF kept, old
      <4> QED BY <2>3
    <3> HIDE DEF kept, old
    <3> QED BY <3>1 DEF Extends
  <2>7. ASSUME NEW x \in OutboxRows(uids), x.uid = u
        PROVE  /\ Extends(Append(kept, x), old, u)
               /\ inFlight + Len(Append(kept, x)) <= MaxOutbox
    <3> DEFINE new == Append(kept, x)
               k   == Len(kept)
    <3>1. /\ Len(new) = k + 1 /\ new[k + 1] = x
          /\ \A i \in 1..k : new[i] = kept[i]
      BY <2>4
    <3> HIDE DEF new
    <3>2. ASSUME NEW i \in 1..Len(new)
          PROVE  new[i].uid = IF i <= k THEN old[i + count].uid ELSE u
      <4>1. CASE i <= k
        <5>1. i \in 1..Len(kept)
          BY <4>1
        <5> QED BY <2>3, <3>1, <4>1, <5>1
      <4>2. CASE ~(i <= k)
        <5>1. i = k + 1
          BY <2>4, <3>1, <4>2
        <5> QED BY <2>7, <3>1, <4>2, <5>1
      <4> QED BY <4>1, <4>2
    <3>3. Extends(new, old, u)
      BY <2>3, <3>1, <3>2 DEF Extends
    <3>4. inFlight + Len(new) <= MaxOutbox
      <4>1. k \in Nat /\ inFlight + k + 1 <= MaxOutbox
        BY <2>4, <2>5
      <4> HIDE DEF k
      <4> QED BY <3>1, <4>1, <1>1
    <3> QED BY <3>3, <3>4 DEF new
  <2>8. inFlight + Len(kept) <= MaxOutbox
    BY <1>1, <2>4, <2>5
  <2> HIDE DEF kept, a, old, full
  <2>9. CASE roomy.gap = NoGap
    <3>1. a = [unsent |-> Append(kept, row), gap |-> NoGap]
      <4>1. a = [roomy EXCEPT !.unsent = Append(kept, row)]
        BY <2>2, <2>9
      <4> DEFINE x == Append(kept, row)
      <4> HIDE DEF x
      <4>2. [roomy EXCEPT !.unsent = x] = [unsent |-> x, gap |-> NoGap]
        BY <2>4, <2>9
      <4> QED BY <4>1, <4>2 DEF x
    <3>2. Fits(uids, e, a, next + 1)
      BY <1>2, <2>1, <2>9, <3>1, AppendFits DEF kept
    <3>3. a.unsent = Append(kept, row)
      BY <3>1
    <3> QED BY <1>2, <2>7, <3>2, <3>3 DEF a, old
  <2>10. CASE roomy.gap # NoGap /\ row.kind # "user"
    <3>1. a = Discard(roomy, next)
      <4>1. a = [roomy EXCEPT !.gap = <<roomy.gap[1], next>>]
        BY <1>2, <2>2, <2>10
      <4>2. Discard(roomy, next) = [roomy EXCEPT !.gap = <<roomy.gap[1], next>>]
        BY <2>4, <2>10 DEF Discard
      <4> QED BY <4>1, <4>2
    <3>2. Fits(uids, e, a, next + 1) /\ a.unsent = kept
      BY <2>1, <3>1, DiscardFits DEF kept
    <3> QED BY <2>6, <2>8, <3>2 DEF a, old
  <2>11. CASE roomy.gap # NoGap /\ row.kind = "user"
    <3> DEFINE x == [row EXCEPT !.gap = roomy.gap]
    <3>1. a = [unsent |-> Append(kept, x), gap |-> NoGap]
      BY <2>2, <2>11
    <3>2. x = [seq |-> next, uid |-> u, kind |-> kind, gap |-> roomy.gap]
      OBVIOUS
    <3>3. x \in OutboxRows(uids) /\ x.seq = next /\ x.gap = roomy.gap /\ x.uid = u
          /\ x.kind = "user"
      BY <1>2, <2>4, <2>11, <3>2 DEF OutboxRows, Gaps
    <3> HIDE DEF x
    <3>4. Fits(uids, e, a, next + 1)
      BY <2>1, <3>1, <3>3, AppendFits DEF kept
    <3>5. a.unsent = Append(kept, x)
      BY <3>1
    <3> QED BY <2>7, <3>3, <3>4, <3>5 DEF a, old
  <2> QED BY <2>9, <2>10, <2>11
<1> QED BY <1>3, <1>4

-----------------------------------------------------------------------------
(* Assign, one closed row after another.                                   *)

(* The rows of a view.                                                     *)
ViewRows(rows) == rows \in Seq([uid : Int, kind : Kinds])

(* The fields of a row of a view.                                          *)
LEMMA ViewFields ==
  ASSUME NEW rows, ViewRows(rows), NEW i \in 1..Len(rows)
  PROVE  rows[i] \in [uid : Int, kind : Kinds] /\ rows[i].uid \in Int /\ rows[i].kind \in Kinds
<1> DEFINE S == [uid : Int, kind : Kinds]
<1>1. rows \in Seq(S)
  BY DEF ViewRows
<1>2. rows[i] \in S
  <2> HIDE DEF S
  <2> QED BY <1>1
<1> QED BY <1>2

(* The rows of a view that have an ordinal of at least o.                  *)
From(shown, o) == {j \in 1..Len(shown.rows) : shown.first + j - 1 >= o}

(* The rows of the queue are before those of the view from o on.           *)
Precedes(rows, shown, o) ==
  \A j \in From(shown, o) : \A i \in 1..Len(rows) : rows[i].uid < shown.rows[j].uid

(* One row more leaves the rows in order.                                  *)
LEMMA ExtendsRises ==
  ASSUME NEW uids, uids \subseteq Int, NEW old \in Seq(OutboxRows(uids)), Rising(old),
         NEW new \in Seq(OutboxRows(uids)), NEW u \in Int,
         \A i \in 1..Len(old) : old[i].uid < u,
         Extends(new, old, u)
  PROVE  Rising(new) /\ \A i \in 1..Len(new) : new[i].uid <= u
<1> DEFINE n == Len(old)
           m == Len(new)
<1>1. PICK count \in 0..n :
        /\ m \in {n - count, n - count + 1}
        /\ \A i \in 1..m : new[i].uid = IF i <= n - count THEN old[i + count].uid ELSE u
  BY DEF Extends
<1>2. n \in Nat /\ m \in Nat /\ \A i \in 1..n : old[i].uid \in Int
  <2>1. \A i \in 1..n : old[i].uid \in uids
    BY QueueFields
  <2>2. n \in Nat /\ m \in Nat
    OBVIOUS
  <2> HIDE DEF n, m
  <2> QED BY <2>1, <2>2
<1> HIDE DEF n, m
<1>3. \A i \in 1..m : i <= n - count => i + count \in 1..n
  BY <1>1, <1>2
<1>4. ASSUME NEW i \in 1..m PROVE new[i].uid \in Int /\ new[i].uid <= u
  <2>1. CASE i <= n - count
    <3>1. new[i].uid = old[i + count].uid /\ i + count \in 1..n
      BY <1>1, <1>3, <2>1
    <3> QED BY <1>2, <3>1 DEF n
  <2>2. CASE ~(i <= n - count)
    BY <1>1, <2>2
  <2> QED BY <2>1, <2>2
<1>5. ASSUME NEW i \in 1..m, NEW j \in 1..m, i < j PROVE new[i].uid < new[j].uid
  <2>1. i <= n - count
    BY <1>1, <1>2, <1>5
  <2>2. new[i].uid = old[i + count].uid /\ i + count \in 1..n
    BY <1>1, <1>3, <2>1
  <2>3. CASE j <= n - count
    <3>1. new[j].uid = old[j + count].uid /\ j + count \in 1..n /\ i + count < j + count
      BY <1>1, <1>3, <1>5, <2>3
    <3> QED BY <2>2, <3>1 DEF Rising, n
  <2>4. CASE ~(j <= n - count)
    <3>1. new[j].uid = u
      BY <1>1, <2>4
    <3> QED BY <2>2, <3>1 DEF n
  <2> QED BY <2>3, <2>4
<1> QED BY <1>4, <1>5 DEF Rising, m

(* What the queue is once the rows before ordinal o have their numbers.    *)
NumberedTo(uids, e, inFlight, numbers, shown, o, waiting) ==
  /\ Fits(uids, e, waiting, numbers.base + o)
  /\ inFlight + Len(waiting.unsent) <= MaxOutbox
  /\ Rising(waiting.unsent)
  /\ Precedes(waiting.unsent, shown, o)

(* To number one more closed row keeps what NumberedTo says.               *)
LEMMA NumberKeeps ==
  ASSUME NEW uids, uids \subseteq Int, NEW e \in Int, NEW inFlight \in Nat,
         NEW numbers, numbers.base \in Int,
         NEW shown, ViewRows(shown.rows), Rising(shown.rows),
         shown.first \in Nat, shown.unsettled \in 0..Len(shown.rows),
         NEW o \in Int, o < ClosedEnd(shown),
         \A j \in From(shown, o) : shown.rows[j].uid \in uids,
         NEW waiting, NumberedTo(uids, e, inFlight, numbers, shown, o, waiting)
  PROVE  NumberedTo(uids, e, inFlight, numbers, shown, o + 1,
                    Number(waiting, inFlight, numbers, shown, o))
<1> DEFINE q   == Number(waiting, inFlight, numbers, shown, o)
           n   == numbers.base + o
           idx == o - shown.first + 1
           row == shown.rows[idx]
           old == waiting.unsent
<1>1. /\ Fits(uids, e, waiting, n) /\ n \in Int
      /\ inFlight + Len(old) <= MaxOutbox /\ Rising(old) /\ Precedes(old, shown, o)
  BY DEF NumberedTo
<1>2. numbers.base + (o + 1) = n + 1 /\ From(shown, o + 1) \subseteq From(shown, o)
  <2>1. shown.first \in Int
    OBVIOUS
  <2> QED BY <2>1 DEF From
<1>3. Precedes(old, shown, o + 1)
  BY <1>1, <1>2 DEF Precedes
<1>4. CASE o < shown.first \/ row.kind = "invalid"
  <2>1. q = Discard(waiting, n)
    BY <1>4 DEF Number
  <2> HIDE DEF q, n
  <2>2. Fits(uids, e, q, n + 1) /\ q.unsent = old
    BY <1>1, <2>1, DiscardFits
  <2> HIDE DEF old
  <2> QED BY <1>1, <1>2, <1>3, <2>2 DEF NumberedTo, q
<1>5. CASE ~(o < shown.first \/ row.kind = "invalid")
  <2>1. idx \in 1..Len(shown.rows) /\ shown.first + idx - 1 = o
    <3> DEFINE k == Len(shown.rows)  f == shown.first  s == shown.unsettled
    <3>1. k \in Nat /\ f \in Nat /\ s \in 0..k /\ ~(o < f) /\ o < f + k - s
      BY <1>5 DEF ViewRows, ClosedEnd
    <3> HIDE DEF k, f, s
    <3>2. o - f + 1 \in 1..k /\ f + (o - f + 1) - 1 = o
      BY <3>1
    <3> QED BY <3>2 DEF k, f
  <2>2. row \in [uid : Int, kind : Kinds] /\ idx \in From(shown, o) /\ row.uid \in uids
    <3>1. idx \in From(shown, o)
      BY <2>1 DEF From
    <3>2. row.uid \in uids
      BY <3>1
    <3>3. row \in [uid : Int, kind : Kinds]
      <4> HIDE DEF idx
      <4> QED BY <2>1, ViewFields
    <3> QED BY <3>1, <3>2, <3>3
  <2> DEFINE x == [seq |-> n, uid |-> row.uid, kind |-> row.kind, gap |-> NoGap]
  <2>3. q = Admit(waiting, inFlight, x)
    BY <1>5 DEF Number
  <2> DEFINE u == row.uid
  <2>4. u \in uids /\ u \in Int /\ row.kind \in Kinds
    BY <2>2
  <2> HIDE DEF q
  <2>5. /\ Fits(uids, e, q, n + 1)
        /\ inFlight + Len(q.unsent) <= MaxOutbox
        /\ Extends(q.unsent, old, u)
    <3> DEFINE kind == row.kind
    <3>1. u \in uids /\ kind \in Kinds /\ x = [seq |-> n, uid |-> u, kind |-> kind, gap |-> NoGap]
      BY <2>4
    <3>2. Fits(uids, e, waiting, n) /\ n \in Int /\ inFlight + Len(waiting.unsent) <= MaxOutbox
      BY <1>1
    <3> HIDE DEF n, u, kind, x
    <3> QED BY <2>3, <3>1, <3>2, AdmitFits DEF old
  <2>6. /\ old \in Seq(OutboxRows(uids)) /\ q.unsent \in Seq(OutboxRows(uids))
    BY <1>1, <2>5 DEF Fits, Queues
  <2>7. \A i \in 1..Len(old) : old[i].uid < u
    BY <1>1, <2>2 DEF Precedes
  <2> HIDE DEF u, old
  <2>8. Rising(q.unsent) /\ \A i \in 1..Len(q.unsent) : q.unsent[i].uid <= u
    BY <1>1, <2>4, <2>5, <2>6, <2>7, ExtendsRises
  <2>9. Precedes(q.unsent, shown, o + 1)
    <3>1. ASSUME NEW j \in From(shown, o + 1), NEW i \in 1..Len(q.unsent)
          PROVE  q.unsent[i].uid < shown.rows[j].uid
      <4>1. j \in 1..Len(shown.rows) /\ idx < j
        <5>1. j \in 1..Len(shown.rows) /\ shown.first + j - 1 >= o + 1 /\ shown.first \in Int
          BY DEF From
        <5> QED BY <2>1, <5>1
      <4>2. u < shown.rows[j].uid /\ shown.rows[j].uid \in Int
        <5>1. u < shown.rows[j].uid
          <6> HIDE DEF idx
          <6> QED BY <2>1, <4>1 DEF Rising, u
        <5>2. shown.rows[j] \in [uid : Int, kind : Kinds]
          BY <4>1, ViewFields
        <5> QED BY <5>1, <5>2
      <4>3. q.unsent[i].uid \in Int /\ q.unsent[i].uid <= u
        <5>1. q.unsent[i].uid \in uids
          BY <2>6, QueueFields
        <5> QED BY <2>8, <5>1
      <4> DEFINE y == q.unsent[i].uid
                 z == shown.rows[j].uid
      <4>4. y \in Int /\ y <= u /\ u < z /\ z \in Int
        BY <4>2, <4>3
      <4> HIDE DEF y, z
      <4>5. y < z
        BY <2>4, <4>4
      <4> QED BY <4>5 DEF y, z
    <3> QED BY <3>1 DEF Precedes
  <2> HIDE DEF n
  <2> QED BY <1>2, <2>5, <2>8, <2>9 DEF NumberedTo, q
<1> QED BY <1>4, <1>5

(* The larger and the smaller of two numbers.                              *)
LEMMA MaxOfTwo ==
  ASSUME NEW a \in Int, NEW b \in Int
  PROVE  /\ Max({a, b}) = IF a >= b THEN a ELSE b
         /\ Min({a, b}) = IF a <= b THEN a ELSE b
  BY DEF Max, Min

(* Assign numbers every closed row that had no number, in order.           *)
LEMMA AssignNumbers ==
  ASSUME NEW uids, uids \subseteq Int, NEW e \in Int, NEW inFlight \in Nat,
         NEW numbers, numbers.base \in Int, numbers.next \in Int,
         NEW shown, ViewRows(shown.rows), Rising(shown.rows),
         shown.first \in Nat, shown.unsettled \in 0..Len(shown.rows),
         NEW waiting, NEW start, start = numbers.next - numbers.base,
         NumberedTo(uids, e, inFlight, numbers, shown, start, waiting),
         \A j \in From(shown, start) : shown.rows[j].uid \in uids
  PROVE  LET end == IF ClosedEnd(shown) <= start THEN start ELSE ClosedEnd(shown)
         IN  NumberedTo(uids, e, inFlight, numbers, shown, end,
                        Assign(waiting, inFlight, numbers, shown))
<1> DEFINE end == ClosedEnd(shown)
           a   == Assign(waiting, inFlight, numbers, shown)
           K   == {p \in Int \X Queues(uids) :
                     NumberedTo(uids, e, inFlight, numbers, shown, p[1], p[2])}
<1>1. start \in Int /\ end \in Int
  BY DEF ClosedEnd, ViewRows
<1>2. ASSUME NEW o \in Int, NEW q
      PROVE  <<o, q>> \in K <=> NumberedTo(uids, e, inFlight, numbers, shown, o, q)
  BY DEF NumberedTo, Fits
<1> HIDE DEF K
<1>3. <<start, waiting>> \in K
  BY <1>1, <1>2
<1>4. ASSUME NEW o \in start..(end - 1), NEW q, <<o, q>> \in K
      PROVE  <<o + 1, Number(q, inFlight, numbers, shown, o)>> \in K
  <2>1. o \in Int /\ o + 1 \in Int /\ o < ClosedEnd(shown) /\ o >= start
    BY <1>1, <1>4
  <2>2. From(shown, o) \subseteq From(shown, start)
    <3>1. shown.first \in Int
      OBVIOUS
    <3> QED BY <1>1, <2>1, <3>1 DEF From
  <2>3. \A j \in From(shown, o) : shown.rows[j].uid \in uids
    BY <2>2
  <2>4. NumberedTo(uids, e, inFlight, numbers, shown, o, q)
    BY <1>2, <1>4, <2>1
  <2> HIDE DEF end
  <2>5. NumberedTo(uids, e, inFlight, numbers, shown, o + 1, Number(q, inFlight, numbers, shown, o))
    BY <2>1, <2>3, <2>4, NumberKeeps
  <2> QED BY <1>2, <2>1, <2>5
<1>5. <<IF end <= start THEN start ELSE end, a>> \in K
  <2>1. \A o \in start..(end - 1) : \A q :
          <<o, q>> \in K => <<o + 1, Number(q, inFlight, numbers, shown, o)>> \in K
    BY <1>4
  <2>2. end = ClosedEnd(shown)
    OBVIOUS
  <2>3. start \in Int /\ end \in Int /\ start = numbers.next - numbers.base
    BY <1>1
  <2> HIDE DEF end, a
  <2>4. <<IF end <= start THEN start ELSE end, Assign(waiting, inFlight, numbers, shown)>> \in K
    BY ONLY <1>3, <2>1, <2>2, <2>3, AssignKeeps
  <2> QED BY <2>4 DEF a
<1>6. (IF end <= start THEN start ELSE end) \in Int
  BY <1>1
<1> QED BY <1>2, <1>5, <1>6

-----------------------------------------------------------------------------
(* A tail whose rows got their numbers.                                    *)

(* A sequence over one set of records is one over any set that holds its   *)
(* elements.                                                               *)
LEMMA Retyped ==
  ASSUME NEW U, NEW V, NEW rows \in Seq(OutboxRows(V)),
         \A i \in 1..Len(rows) : rows[i].uid \in U
  PROVE  rows \in Seq(OutboxRows(U))
<1>1. ASSUME NEW i \in 1..Len(rows) PROVE rows[i] \in OutboxRows(U)
  <2>1. rows[i] = [seq |-> rows[i].seq, uid |-> rows[i].uid, kind |-> rows[i].kind,
                   gap |-> rows[i].gap]
        /\ rows[i].seq \in Int /\ rows[i].kind \in Kinds /\ rows[i].gap \in Gaps
    BY QueueFields
  <2>2. rows[i].uid \in U
    OBVIOUS
  <2> QED BY <2>1, <2>2 DEF OutboxRows, Gaps
<1>2. rows = [i \in 1..Len(rows) |-> rows[i]] /\ Len(rows) \in Nat
  OBVIOUS
<1> QED BY <1>1, <1>2

(* The uids of a sequence made of two are those of the two.                *)
LEMMA ConcatRises ==
  ASSUME NEW uids, uids \subseteq Int,
         NEW s \in Seq(OutboxRows(uids)), NEW t \in Seq(OutboxRows(uids))
  PROVE  /\ Rising(s \o t) <=>
              /\ Rising(s) /\ Rising(t)
              /\ \A i \in 1..Len(s), j \in 1..Len(t) : s[i].uid < t[j].uid
         /\ \A k : SpokenAfter(s \o t, k) <=> SpokenAfter(s, k) /\ SpokenAfter(t, k)
<1> DEFINE u == s \o t
           n == Len(s)
           m == Len(t)
<1>1. /\ n \in Nat /\ m \in Nat /\ Len(u) = n + m
      /\ \A i \in 1..n : u[i] = s[i] /\ i \in 1..Len(u)
      /\ \A i \in 1..m : u[n + i] = t[i] /\ n + i \in 1..Len(u)
  OBVIOUS
<1> HIDE DEF u
<1>2. ASSUME NEW k \in 1..Len(u)
      PROVE  k \in 1..n \/ \E j \in 1..m : k = n + j
  <2>1. CASE k <= n
    BY <1>1, <2>1
  <2>2. CASE ~(k <= n)
    <3>1. k - n \in 1..m /\ k = n + (k - n)
      BY <1>1, <2>2
    <3> QED BY <3>1
  <2> QED BY <2>1, <2>2
<1>3. ASSUME Rising(u)
      PROVE  /\ Rising(s) /\ Rising(t)
             /\ \A i \in 1..n, j \in 1..m : s[i].uid < t[j].uid
  <2>1. Rising(s)
    <3>1. ASSUME NEW i \in 1..n, NEW j \in 1..n, i < j PROVE s[i].uid < s[j].uid
      <4>1. u[i] = s[i] /\ u[j] = s[j] /\ i \in 1..Len(u) /\ j \in 1..Len(u)
        BY <1>1
      <4> QED BY <1>3, <3>1, <4>1 DEF Rising
    <3> QED BY <3>1 DEF Rising
  <2>2. Rising(t)
    <3>1. ASSUME NEW i \in 1..m, NEW j \in 1..m, i < j PROVE t[i].uid < t[j].uid
      <4>1. /\ u[n + i] = t[i] /\ u[n + j] = t[j]
            /\ n + i \in 1..Len(u) /\ n + j \in 1..Len(u)
        BY <1>1
      <4>2. n + i < n + j
        BY <1>1, <3>1
      <4> QED BY <1>3, <4>1, <4>2 DEF Rising
    <3> QED BY <3>1 DEF Rising
  <2>3. ASSUME NEW i \in 1..n, NEW j \in 1..m PROVE s[i].uid < t[j].uid
    <3>1. u[i] = s[i] /\ u[n + j] = t[j] /\ i \in 1..Len(u) /\ n + j \in 1..Len(u)
      BY <1>1
    <3>2. i < n + j
      BY <1>1
    <3> QED BY <1>3, <3>1, <3>2 DEF Rising
  <2> QED BY <2>1, <2>2, <2>3
<1>4. ASSUME Rising(s), Rising(t), \A i \in 1..n, j \in 1..m : s[i].uid < t[j].uid
      PROVE  Rising(u)
  <2>1. ASSUME NEW k \in 1..Len(u), NEW l \in 1..Len(u), k < l PROVE u[k].uid < u[l].uid
    <3>1. CASE k \in 1..n /\ l \in 1..n
      <4>1. u[k] = s[k] /\ u[l] = s[l]
        BY <1>1, <3>1
      <4> QED BY <1>4, <2>1, <3>1, <4>1 DEF Rising
    <3>2. CASE k \in 1..n /\ \E j \in 1..m : l = n + j
      <4>1. PICK j \in 1..m : l = n + j
        BY <3>2
      <4>2. u[k] = s[k] /\ u[l] = t[j]
        BY <1>1, <3>2, <4>1
      <4> QED BY <1>4, <3>2, <4>2
    <3>3. CASE \E i \in 1..m : k = n + i
      <4>1. PICK i \in 1..m : k = n + i
        BY <3>3
      <4>2. ~(l \in 1..n)
        BY <1>1, <2>1, <4>1
      <4>3. PICK j \in 1..m : l = n + j
        BY <1>2, <4>2
      <4>4. i < j
        BY <1>1, <2>1, <4>1, <4>3
      <4>5. u[k] = t[i] /\ u[l] = t[j]
        BY <1>1, <4>1, <4>3
      <4> QED BY <1>4, <4>4, <4>5 DEF Rising
    <3> QED BY <1>2, <3>1, <3>2, <3>3
  <2> QED BY <2>1 DEF Rising
<1>5. ASSUME NEW k
      PROVE  SpokenAfter(u, k) <=> SpokenAfter(s, k) /\ SpokenAfter(t, k)
  <2>1. ASSUME SpokenAfter(u, k) PROVE SpokenAfter(s, k) /\ SpokenAfter(t, k)
    BY <1>1, <2>1 DEF SpokenAfter
  <2>2. ASSUME SpokenAfter(s, k), SpokenAfter(t, k) PROVE SpokenAfter(u, k)
    <3>1. ASSUME NEW i \in 1..Len(u) PROVE u[i].uid > k
      <4>1. CASE i \in 1..n
        BY <1>1, <2>2, <4>1 DEF SpokenAfter
      <4>2. CASE \E j \in 1..m : i = n + j
        BY <1>1, <2>2, <4>2 DEF SpokenAfter
      <4> QED BY <1>2, <4>1, <4>2
    <3> QED BY <3>1 DEF SpokenAfter
  <2> QED BY <2>1, <2>2
<1> QED BY <1>3, <1>4, <1>5 DEF u

-----------------------------------------------------------------------------
(* The rows of a tail.                                                     *)

(* The queue and the tail of t once the closed rows of next are numbered.  *)
Numbered(t, base, next) ==
  Assign([unsent |-> t.unsent, gap |-> t.gap], Len(t.flight),
         [base |-> base, next |-> t.next], next)

(* The tail t once the rows that closed in the view next have numbers.     *)
NumberedTail(t, base, next) ==
  [kind |-> "archive", binding |-> t.binding, next |-> base + ClosedEnd(next),
   settled |-> Len(next.rows) - next.unsettled, cursor |-> t.cursor, flight |-> t.flight,
   unsent |-> Numbered(t, base, next).unsent, gap |-> Numbered(t, base, next).gap,
   rows |-> next.rows, forget |-> NoBinding]

(* A view that may come after the tail t: every row is one of those t had, *)
(* or is new, and one without a number had none in t either.               *)
ComesAfter(next, t, base, uid, uids) ==
  /\ next.rows \in Seq([uid : uids, kind : Kinds]) /\ Rising(next.rows)
  /\ Len(next.rows) <= MaxMessages
  /\ next.first \in Nat /\ next.unsettled \in 0..Len(next.rows)
  /\ base \in Nat /\ t.next - base <= ClosedEnd(next)
  /\ \A j \in From(next, t.next - base) :
       \/ next.rows[j].uid >= uid
       \/ \E i \in (t.settled + 1)..Len(t.rows) : next.rows[j].uid = t.rows[i].uid
  /\ \A j \in 1..Len(next.rows) :
       next.rows[j].uid >= uid \/ \E i \in 1..Len(t.rows) : next.rows[j].uid = t.rows[i].uid

(* The elements of two sequences joined.                                   *)
LEMMA ConcatIndex ==
  ASSUME NEW S, NEW s \in Seq(S), NEW t \in Seq(S)
  PROVE  /\ s \o t \in Seq(S) /\ Len(s \o t) = Len(s) + Len(t)
         /\ \A i \in 1..Len(s) : i \in 1..Len(s \o t) /\ (s \o t)[i] = s[i]
         /\ \A i \in 1..Len(t) :
              Len(s) + i \in 1..Len(s \o t) /\ (s \o t)[Len(s) + i] = t[i]
  OBVIOUS

(* Rows of a tail are rows of a view.                                      *)
LEMMA RowsTyped ==
  ASSUME NEW uids, uids \subseteq Int, NEW rows \in Seq([uid : uids, kind : Kinds])
  PROVE  /\ ViewRows(rows)
         /\ \A i \in 1..Len(rows) : rows[i].uid \in uids
         /\ Len(rows) \in Nat
<1> DEFINE S == [uid : uids, kind : Kinds]
           T == [uid : Int, kind : Kinds]
<1>1. S \subseteq T
  OBVIOUS
<1>2. ASSUME NEW i \in 1..Len(rows) PROVE rows[i] \in S
  <2>1. rows \in Seq(S)
    OBVIOUS
  <2> HIDE DEF S
  <2> QED BY <2>1
<1>3. rows \in Seq(T)
  <2>1. rows \in Seq(S)
    OBVIOUS
  <2> HIDE DEF S, T
  <2>2. \A i \in 1..Len(rows) : rows[i] \in T
    BY <1>1, <1>2
  <2>3. rows = [i \in 1..Len(rows) |-> rows[i]] /\ Len(rows) \in Nat
    BY <2>1
  <2> QED BY <2>2, <2>3
<1>4. \A i \in 1..Len(rows) : rows[i].uid \in uids
  BY <1>2
<1> QED BY <1>3, <1>4 DEF ViewRows

(* What every sound tail's outbox is, in parts.                            *)
FlightEnd(t) == EndBefore(Acked(t.cursor), t.flight, Len(t.flight))

(* The flight of a sound tail is a chain from its cursor, and its queue    *)
(* fits behind the flight.                                                 *)
LEMMA TailParts ==
  ASSUME NEW uids, uids \subseteq Int, NEW batches, NEW t, TailSound(t, uids, batches)
  PROVE  /\ Acked(t.cursor) \in Int /\ FlightEnd(t) \in Int
         /\ Chained(Acked(t.cursor), t.flight)
         /\ Fits(uids, FlightEnd(t), [unsent |-> t.unsent, gap |-> t.gap], t.next)
         /\ Rising(t.flight) /\ Rising(t.unsent)
         /\ \A i \in 1..Len(t.flight), j \in 1..Len(t.unsent) : t.flight[i].uid < t.unsent[j].uid
         /\ \A i \in (t.settled + 1)..Len(t.rows) :
              /\ \A j \in 1..Len(t.flight) : t.flight[j].uid < t.rows[i].uid
              /\ \A j \in 1..Len(t.unsent) : t.unsent[j].uid < t.rows[i].uid
<1> DEFINE f == t.flight
           u == t.unsent
           e == Acked(t.cursor)
<1>1. /\ f \in Seq(OutboxRows(uids)) /\ u \in Seq(OutboxRows(uids))
      /\ t.gap \in Gaps /\ t.cursor \in Seq(Int) /\ t.kind = "archive"
      /\ t.settled \in Nat
  BY DEF TailSound, TailTyped, Gaps
<1>2. e \in Int
  <2>1. CASE t.cursor = None
    BY <2>1 DEF Acked
  <2>2. CASE t.cursor # None
    <3>1. 1 \in 1..Len(t.cursor)
      BY <1>1, <2>2 DEF None
    <3>2. t.cursor[1] \in Int
      BY <1>1, <3>1
    <3> QED BY <2>2, <3>2 DEF Acked
  <2> QED BY <2>1, <2>2
<1>3. FlightEnd(t) \in Int
  <2>1. ASSUME Len(f) > 0 PROVE f[Len(f)].seq \in Int
    <3>1. Len(f) \in 1..Len(f)
      BY <1>1, <2>1
    <3> QED BY <1>1, <3>1, QueueFields
  <2> QED BY <1>2, <2>1 DEF FlightEnd, EndBefore
<1>4. Partitions(t.cursor, f \o u, t.gap, t.next)
  BY <1>1 DEF TailSound, Parses
<1>5. Chained(e, f) /\ Chained(FlightEnd(t), u)
      /\ Closes(EndBefore(FlightEnd(t), u, Len(u)), t.gap, t.next)
  <2>1. Chained(e, f \o u) /\ Closes(EndBefore(e, f \o u, Len(f \o u)), t.gap, t.next)
    BY <1>4, PartitionsIsChain
  <2> QED BY <1>1, <2>1, ChainConcat DEF FlightEnd
<1> DEFINE q == [unsent |-> u, gap |-> t.gap]
<1>6. Fits(uids, FlightEnd(t), q, t.next)
  <2>1. q \in Queues(uids) /\ q.unsent = u /\ q.gap = t.gap
    BY <1>1 DEF Queues
  <2> HIDE DEF q, u
  <2> QED BY <1>5, <2>1 DEF Fits
<1>7. /\ Rising(f \o u)
      /\ \A i \in 1..Len(f \o u), j \in (t.settled + 1)..Len(t.rows) :
           (f \o u)[i].uid < t.rows[j].uid
  BY DEF TailSound, TailRising
<1>8. /\ Rising(f) /\ Rising(u)
      /\ \A i \in 1..Len(f), j \in 1..Len(u) : f[i].uid < u[j].uid
  BY <1>1, <1>7, ConcatRises
<1>9. ASSUME NEW i \in (t.settled + 1)..Len(t.rows)
      PROVE  /\ \A j \in 1..Len(f) : f[j].uid < t.rows[i].uid
             /\ \A j \in 1..Len(u) : u[j].uid < t.rows[i].uid
  <2>1. ASSUME NEW j \in 1..Len(f) PROVE f[j].uid < t.rows[i].uid
    <3>1. j \in 1..Len(f \o u) /\ (f \o u)[j] = f[j]
      <4> HIDE DEF f, u
      <4> QED BY <1>1, ConcatIndex
    <3> QED BY <1>7, <3>1
  <2>2. ASSUME NEW j \in 1..Len(u) PROVE u[j].uid < t.rows[i].uid
    <3>1. Len(f) + j \in 1..Len(f \o u) /\ (f \o u)[Len(f) + j] = u[j]
      <4> HIDE DEF f, u
      <4> QED BY <1>1, ConcatIndex
    <3> QED BY <1>7, <3>1
  <2> QED BY <2>1, <2>2
<1> QED BY <1>2, <1>3, <1>5, <1>6, <1>8, <1>9

(* Numbering keeps whatever is true of the uids.                           *)
LEMMA NumberedInto ==
  ASSUME NEW uids, uids \subseteq Int, NEW batches, NEW t, TailSound(t, uids, batches),
         NEW base, NEW uid, NEW uids2, uids2 \subseteq Int, NEW next,
         ComesAfter(next, t, base, uid, uids2),
         NEW U, U \subseteq Int,
         \A i \in 1..Len(t.unsent) : t.unsent[i].uid \in U,
         \A j \in From(next, t.next - base) : next.rows[j].uid \in U,
         \A j \in From(next, t.next - base) :
           \A i \in 1..Len(t.unsent) : t.unsent[i].uid < next.rows[j].uid
  PROVE  NumberedTo(U, FlightEnd(t), Len(t.flight), [base |-> base, next |-> t.next], next,
                    ClosedEnd(next), Numbered(t, base, next))
<1> DEFINE q == [unsent |-> t.unsent, gap |-> t.gap]
           seqs2 == [base |-> base, next |-> t.next]
           e == FlightEnd(t)
           start == t.next - base
<1>1. /\ t.flight \in Seq(OutboxRows(uids)) /\ t.unsent \in Seq(OutboxRows(uids))
      /\ t.kind = "archive" /\ t.next \in Nat
  BY DEF TailSound, TailTyped
<1>2. e \in Int /\ Fits(uids, e, q, t.next) /\ Rising(t.unsent)
  BY TailParts
<1>3. t.unsent \in Seq(OutboxRows(U))
  BY <1>1, Retyped
<1>4. q.unsent = t.unsent /\ q.gap = t.gap
  OBVIOUS
<1>5. Fits(U, e, q, t.next)
  <2>1. q \in Queues(U)
    <3>1. t.gap \in Gaps
      BY DEF TailSound, TailTyped, Gaps
    <3> QED BY <1>3, <3>1 DEF Queues
  <2> HIDE DEF q, e
  <2> QED BY <1>2, <2>1 DEF Fits
<1>6. /\ base \in Nat /\ start \in Int /\ start <= ClosedEnd(next)
      /\ next.rows \in Seq([uid : uids2, kind : Kinds])
      /\ ViewRows(next.rows) /\ Rising(next.rows)
      /\ next.first \in Nat /\ next.unsettled \in 0..Len(next.rows)
  <2>1. /\ base \in Nat /\ start <= ClosedEnd(next)
        /\ next.rows \in Seq([uid : uids2, kind : Kinds]) /\ Rising(next.rows)
        /\ next.first \in Nat /\ next.unsettled \in 0..Len(next.rows)
    BY DEF ComesAfter
  <2>2. ViewRows(next.rows)
    BY <2>1, RowsTyped
  <2> QED BY <1>1, <2>1, <2>2
<1>7. seqs2.base = base /\ seqs2.next = t.next
  OBVIOUS
<1>8. NumberedTo(U, e, Len(t.flight), seqs2, next, start, q)
  <2>1. Len(t.flight) + Len(t.unsent) <= MaxOutbox
    BY <1>1 DEF TailSound, Parses
  <2>2. Precedes(q.unsent, next, start)
    BY <1>4 DEF Precedes
  <2>3. base + start = t.next
    BY <1>1, <1>6
  <2>4. Rising(q.unsent) /\ Len(t.flight) + Len(q.unsent) <= MaxOutbox
    BY <1>2, <1>4, <2>1
  <2> HIDE DEF q, e, seqs2, start
  <2> QED BY <1>5, <1>7, <2>2, <2>3, <2>4 DEF NumberedTo
<1>9. ClosedEnd(next) \in Int
  BY <1>6 DEF ClosedEnd, ViewRows
<1> DEFINE end == ClosedEnd(next)
           a == Assign(q, Len(t.flight), seqs2, next)
<1>10. NumberedTo(U, e, Len(t.flight), seqs2, next,
                  IF end <= start THEN start ELSE end, a)
  <2>1. /\ Len(t.flight) \in Nat /\ seqs2.base \in Int /\ seqs2.next \in Int
        /\ start = seqs2.next - seqs2.base
    BY <1>1, <1>6, <1>7
  <2>2. \A j \in From(next, start) : next.rows[j].uid \in U
    OBVIOUS
  <2> HIDE DEF start, seqs2, q, e
  <2> QED BY <1>2, <1>6, <1>8, <2>1, <2>2, AssignNumbers
<1>11. (IF end <= start THEN start ELSE end) = end
  <2> HIDE DEF start, end
  <2>1. start \in Int /\ end \in Int /\ start <= end
    BY <1>6, <1>9 DEF end
  <2> QED BY <2>1
<1>12. a = Numbered(t, base, next)
  BY DEF Numbered
<1> HIDE DEF a, e, seqs2, end, start
<1> QED BY <1>10, <1>11, <1>12 DEF e, seqs2, end

(* The rows that get a number now were spoken after all that have one, and *)
(* so were those that stay open.                                           *)
LEMMA ComesLater ==
  ASSUME NEW uid \in Nat, NEW uids2, uids2 \subseteq Int, NEW batches,
         NEW t, TailSound(t, 1..(uid - 1), batches), NEW base, NEW next,
         ComesAfter(next, t, base, uid, uids2)
  PROVE  /\ \A j \in From(next, t.next - base) :
              /\ next.rows[j].uid \in Int
              /\ \A i \in 1..Len(t.flight) : t.flight[i].uid < next.rows[j].uid
              /\ \A i \in 1..Len(t.unsent) : t.unsent[i].uid < next.rows[j].uid
         /\ From(next, ClosedEnd(next)) \subseteq From(next, t.next - base)
         /\ \A j \in (Len(next.rows) - next.unsettled + 1)..Len(next.rows) :
              j \in From(next, ClosedEnd(next))
<1>1. /\ next.rows \in Seq([uid : uids2, kind : Kinds]) /\ ViewRows(next.rows)
      /\ next.first \in Nat /\ next.unsettled \in 0..Len(next.rows)
      /\ base \in Nat /\ t.next - base <= ClosedEnd(next)
      /\ \A j \in From(next, t.next - base) :
           \/ next.rows[j].uid >= uid
           \/ \E i \in (t.settled + 1)..Len(t.rows) : next.rows[j].uid = t.rows[i].uid
  <2>1. next.rows \in Seq([uid : uids2, kind : Kinds])
    BY DEF ComesAfter
  <2>2. ViewRows(next.rows)
    BY <2>1, RowsTyped
  <2> QED BY <2>1, <2>2 DEF ComesAfter
<1>2. /\ t.flight \in Seq(OutboxRows(1..(uid - 1))) /\ t.unsent \in Seq(OutboxRows(1..(uid - 1)))
      /\ t.next \in Nat
  BY DEF TailSound, TailTyped
<1>3. \A i \in (t.settled + 1)..Len(t.rows) :
        /\ \A j \in 1..Len(t.flight) : t.flight[j].uid < t.rows[i].uid
        /\ \A j \in 1..Len(t.unsent) : t.unsent[j].uid < t.rows[i].uid
  <2>1. 1..(uid - 1) \subseteq Int
    OBVIOUS
  <2> HIDE DEF TailSound
  <2> QED BY <2>1, TailParts
<1>4. /\ \A i \in 1..Len(t.flight) : t.flight[i].uid \in 1..(uid - 1)
      /\ \A i \in 1..Len(t.unsent) : t.unsent[i].uid \in 1..(uid - 1)
  BY <1>2, QueueFields
<1>5. ASSUME NEW j \in From(next, t.next - base)
      PROVE  /\ next.rows[j].uid \in Int
             /\ \A i \in 1..Len(t.flight) : t.flight[i].uid < next.rows[j].uid
             /\ \A i \in 1..Len(t.unsent) : t.unsent[i].uid < next.rows[j].uid
  <2>1. next.rows[j].uid \in Int
    <3>1. j \in 1..Len(next.rows)
      BY DEF From
    <3> QED BY <1>1, <3>1, ViewFields
  <2>2. CASE next.rows[j].uid >= uid
    <3> DEFINE u == next.rows[j].uid
    <3>1. \A x \in 1..(uid - 1) : x < u
      BY <2>1, <2>2
    <3> HIDE DEF u
    <3>2. /\ \A i \in 1..Len(t.flight) : t.flight[i].uid < u
          /\ \A i \in 1..Len(t.unsent) : t.unsent[i].uid < u
      BY <1>4, <3>1
    <3> QED BY <2>1, <3>2 DEF u
  <2>3. CASE \E i \in (t.settled + 1)..Len(t.rows) : next.rows[j].uid = t.rows[i].uid
    BY <1>3, <2>1, <2>3
  <2> QED BY <1>1, <2>2, <2>3
<1> DEFINE c == ClosedEnd(next)
           f == next.first
           n == Len(next.rows)
           o == next.unsettled
           s == t.next - base
<1>6. /\ c = f + n - o /\ f \in Nat /\ n \in Nat /\ o \in 0..n /\ c \in Int
      /\ s \in Int /\ s <= c
  <2>1. n \in Nat
    BY <1>1, RowsTyped
  <2>2. c = f + n - o
    BY DEF ClosedEnd
  <2>3. /\ f \in Nat /\ o \in 0..n /\ base \in Nat /\ t.next \in Nat
        /\ s = t.next - base /\ s <= c
    BY <1>1, <1>2
  <2> HIDE DEF c, f, n, o, s
  <2> QED BY <2>1, <2>2, <2>3
<1>7. \A j \in Int : f + j - 1 >= c => f + j - 1 >= s
  <2> HIDE DEF c, f, s
  <2> QED BY <1>6
<1>8. From(next, c) \subseteq From(next, s)
  <2> HIDE DEF c, s
  <2> QED BY <1>7 DEF From, f
<1>9. \A j \in (n - o + 1)..n : j \in 1..n /\ f + j - 1 >= c
  <2> HIDE DEF c, f, n, o
  <2> QED BY <1>6
<1>10. \A j \in (n - o + 1)..n : j \in From(next, c)
  <2> HIDE DEF c, o
  <2> QED BY <1>9 DEF From, f, n
<1> QED BY <1>5, <1>8, <1>10

(* What was spoken after k stays so when rows get their numbers.           *)
LEMMA NumberedSpoken ==
  ASSUME NEW uid \in Nat, NEW uids2, uids2 \subseteq Int, NEW batches,
         NEW t, TailSound(t, 1..(uid - 1), batches), NEW base, NEW next,
         ComesAfter(next, t, base, uid, uids2),
         NEW k \in Int, SpokenAfter(t.flight \o t.unsent, k),
         \A j \in From(next, t.next - base) : next.rows[j].uid > k
  PROVE  SpokenAfter(t.flight \o Numbered(t, base, next).unsent, k)
<1> DEFINE uids == 1..(uid - 1)
           U == {u \in Int : u > k}
           new == Numbered(t, base, next).unsent
<1>1. /\ t.flight \in Seq(OutboxRows(uids)) /\ t.unsent \in Seq(OutboxRows(uids))
      /\ uids \subseteq Int /\ U \subseteq Int
  BY DEF TailSound, TailTyped
<1>2. TailSound(t, uids, batches)
  OBVIOUS
<1>3. \A j \in From(next, t.next - base) :
        /\ next.rows[j].uid \in U
        /\ \A i \in 1..Len(t.unsent) : t.unsent[i].uid < next.rows[j].uid
  BY ComesLater
<1>4. SpokenAfter(t.flight, k) /\ SpokenAfter(t.unsent, k)
  <2> HIDE DEF uids
  <2> QED BY <1>1, ConcatRises
<1>5. \A i \in 1..Len(t.unsent) : t.unsent[i].uid \in U
  <2>1. \A i \in 1..Len(t.unsent) : t.unsent[i].uid \in uids
    <3> HIDE DEF uids
    <3> QED BY <1>1, QueueFields
  <2> QED BY <1>4, <2>1 DEF SpokenAfter
<1> HIDE DEF uids, U
<1>6. NumberedTo(U, FlightEnd(t), Len(t.flight), [base |-> base, next |-> t.next], next,
                 ClosedEnd(next), Numbered(t, base, next))
  BY <1>1, <1>2, <1>3, <1>5, NumberedInto
<1>7. new \in Seq(OutboxRows(U))
  BY <1>6 DEF NumberedTo, Fits, Queues
<1>8. SpokenAfter(new, k)
  <2>1. \A i \in 1..Len(new) : new[i].uid \in U
    BY <1>7, QueueFields
  <2> QED BY <2>1 DEF SpokenAfter, U
<1>9. new \in Seq(OutboxRows(Int)) /\ t.flight \in Seq(OutboxRows(Int))
  <2>1. \A i \in 1..Len(new) : new[i].uid \in Int
    BY <1>1, <1>7, QueueFields
  <2>2. \A i \in 1..Len(t.flight) : t.flight[i].uid \in Int
    BY <1>1, QueueFields
  <2> HIDE DEF new
  <2> QED BY <1>1, <1>7, <2>1, <2>2, Retyped
<1> HIDE DEF new
<1>10. SpokenAfter(t.flight \o new, k)
  BY <1>4, <1>8, <1>9, ConcatRises
<1> QED BY <1>10 DEF new

(* An index of a joined sequence that is not in its first part is in the   *)
(* second.                                                                 *)
LEMMA SecondPart ==
  ASSUME NEW m \in Nat, NEW k \in Nat, NEW i \in 1..(m + k), i \notin 1..m
  PROVE  i - m \in 1..k /\ m + (i - m) = i
  OBVIOUS

(* A tail stays sound when the rows that closed get their numbers.         *)
LEMMA NumberedIsSound ==
  ASSUME NEW uid \in Nat, NEW uid2 \in Nat, uid <= uid2,
         NEW batches, \A b \in batches : b.rows \in Seq(OutboxRows(1..(uid - 1))) /\ b.rows # <<>>,
         NEW t, TailSound(t, 1..(uid - 1), batches), NEW base, NEW next,
         ComesAfter(next, t, base, uid, 1..(uid2 - 1))
  PROVE  /\ TailSound(NumberedTail(t, base, next), 1..(uid2 - 1), batches)
         /\ Numbered(t, base, next) = [unsent |-> Numbered(t, base, next).unsent,
                                       gap |-> Numbered(t, base, next).gap]
<1> DEFINE uids  == 1..(uid - 1)
           uids2 == 1..(uid2 - 1)
           n     == NumberedTail(t, base, next)
           new   == Numbered(t, base, next).unsent
           gap   == Numbered(t, base, next).gap
           start == t.next - base
           end   == ClosedEnd(next)
           e     == FlightEnd(t)
<1>1. /\ uids \subseteq uids2 /\ uids2 \subseteq Int /\ uids \subseteq Int
      /\ \A x \in uids : x < uid
  OBVIOUS
<1>2. /\ t.flight \in Seq(OutboxRows(uids)) /\ t.unsent \in Seq(OutboxRows(uids))
      /\ t.gap \in Gaps /\ t.cursor \in Seq(Int) /\ Len(t.cursor) <= 1
      /\ t.kind = "archive" /\ t.settled \in Nat /\ t.next \in Nat
  BY DEF TailSound, TailTyped, Gaps
<1>3. TailSound(t, uids, batches) /\ ComesAfter(next, t, base, uid, uids2)
  OBVIOUS
<1>4. /\ \A j \in From(next, start) :
           /\ next.rows[j].uid \in Int
           /\ \A i \in 1..Len(t.flight) : t.flight[i].uid < next.rows[j].uid
           /\ \A i \in 1..Len(t.unsent) : t.unsent[i].uid < next.rows[j].uid
      /\ From(next, end) \subseteq From(next, start)
      /\ \A j \in (Len(next.rows) - next.unsettled + 1)..Len(next.rows) :
           j \in From(next, end)
  <2>1. uids2 \subseteq Int
    OBVIOUS
  <2> HIDE DEF TailSound, ComesAfter, uids2
  <2> QED BY <1>3, <2>1, ComesLater
<1>5. /\ next.rows \in Seq([uid : uids2, kind : Kinds]) /\ ViewRows(next.rows)
      /\ Len(next.rows) \in Nat
      /\ Rising(next.rows) /\ Len(next.rows) <= MaxMessages
      /\ next.first \in Nat /\ next.unsettled \in 0..Len(next.rows)
      /\ base \in Nat
      /\ \A j \in From(next, start) :
           \/ next.rows[j].uid >= uid
           \/ \E i \in (t.settled + 1)..Len(t.rows) : next.rows[j].uid = t.rows[i].uid
  <2>1. next.rows \in Seq([uid : uids2, kind : Kinds])
    BY DEF ComesAfter
  <2>2. ViewRows(next.rows) /\ Len(next.rows) \in Nat
    <3> HIDE DEF uids2
    <3> QED BY <1>1, <2>1, RowsTyped
  <2> QED BY <2>1, <2>2 DEF ComesAfter
<1>6. /\ \A j \in From(next, start) : j \in 1..Len(next.rows) /\ next.rows[j].uid \in uids2
  <2>1. \A j \in From(next, start) : j \in 1..Len(next.rows)
    BY DEF From
  <2>2. \A j \in 1..Len(next.rows) : next.rows[j].uid \in uids2
    <3> HIDE DEF uids2
    <3> QED BY <1>1, <1>5, RowsTyped
  <2> QED BY <2>1, <2>2
<1>7. \A i \in 1..Len(t.flight) : t.flight[i].uid \in uids
  <2> HIDE DEF uids
  <2> QED BY <1>2, QueueFields
<1>8. \A i \in 1..Len(t.unsent) : t.unsent[i].uid \in uids
  <2> HIDE DEF uids
  <2> QED BY <1>2, QueueFields
<1> HIDE DEF uids, uids2
<1> DEFINE U == {u \in uids2 : \A i \in 1..Len(t.flight) : t.flight[i].uid < u}
<1>9. /\ Chained(Acked(t.cursor), t.flight) /\ Acked(t.cursor) \in Int /\ e \in Int
      /\ Rising(t.flight) /\ Rising(t.unsent)
      /\ \A i \in 1..Len(t.flight), j \in 1..Len(t.unsent) : t.flight[i].uid < t.unsent[j].uid
  BY <1>1, <1>3, TailParts
<1>10. NumberedTo(U, e, Len(t.flight), [base |-> base, next |-> t.next], next, end,
                  Numbered(t, base, next))
  <2>1. \A i \in 1..Len(t.unsent) : t.unsent[i].uid \in U
    BY <1>1, <1>8, <1>9
  <2>2. \A j \in From(next, start) :
          /\ next.rows[j].uid \in U
          /\ \A i \in 1..Len(t.unsent) : t.unsent[i].uid < next.rows[j].uid
    BY <1>4, <1>6
  <2>3. U \subseteq Int
    BY <1>1
  <2> HIDE DEF U, e, end
  <2> QED BY <1>1, <1>3, <2>1, <2>2, <2>3, NumberedInto DEF e, end
<1>11. /\ new \in Seq(OutboxRows(U)) /\ gap \in Gaps
       /\ Chained(e, new) /\ Closes(EndBefore(e, new, Len(new)), gap, base + end)
       /\ Len(t.flight) + Len(new) <= MaxOutbox
       /\ Rising(new) /\ Precedes(new, next, end)
  BY <1>10 DEF NumberedTo, Fits, Queues
<1>22. Numbered(t, base, next) = [unsent |-> new, gap |-> gap]
  BY <1>10 DEF NumberedTo, Fits, Queues
<1>12. \A i \in 1..Len(new) : new[i].uid \in U
  BY <1>11, QueueFields
<1> HIDE DEF new, gap
<1>13. /\ new \in Seq(OutboxRows(uids2)) /\ t.flight \in Seq(OutboxRows(uids2))
  <2>1. \A i \in 1..Len(new) : new[i].uid \in uids2
    BY <1>12
  <2>2. \A i \in 1..Len(t.flight) : t.flight[i].uid \in uids2
    BY <1>1, <1>7
  <2> QED BY <1>2, <1>11, <2>1, <2>2, Retyped
<1>14. Partitions(t.cursor, t.flight \o new, gap, base + end)
  <2> DEFINE all == t.flight \o new
             a == Acked(t.cursor)
  <2>1. /\ Chained(a, all) <=> Chained(a, t.flight) /\ Chained(e, new)
        /\ EndBefore(a, all, Len(all)) = EndBefore(e, new, Len(new))
    BY <1>13, ChainConcat DEF FlightEnd
  <2>2. Chained(a, all) /\ Closes(EndBefore(a, all, Len(all)), gap, base + end)
    BY <1>9, <1>11, <2>1, Zenon
  <2> HIDE DEF all
  <2> QED BY <2>2, PartitionsIsChain DEF all
<1>15. /\ Len(next.rows) - next.unsettled \in 0..Len(next.rows)
       /\ base + end \in Nat /\ Len(next.rows) - next.unsettled <= base + end
  <2> DEFINE l == Len(next.rows)
             o == next.unsettled
             f == next.first
  <2>1. end = f + l - o /\ f \in Nat /\ l \in Nat /\ o \in 0..l /\ base \in Nat
    BY <1>5 DEF ClosedEnd
  <2> HIDE DEF end, l, o, f
  <2>2. l - o \in 0..l /\ base + end \in Nat /\ l - o <= base + end
    BY <2>1
  <2> QED BY <2>2 DEF l, o
<1>16. n = [kind |-> "archive", binding |-> t.binding, next |-> base + end,
            settled |-> Len(next.rows) - next.unsettled, cursor |-> t.cursor,
            flight |-> t.flight, unsent |-> new, gap |-> gap,
            rows |-> next.rows, forget |-> NoBinding]
  BY DEF NumberedTail, new, gap
<1> HIDE DEF n, end
<1>17. /\ n.kind = "archive" /\ n.binding = t.binding /\ n.next = base + end
       /\ n.settled = Len(next.rows) - next.unsettled /\ n.cursor = t.cursor
       /\ n.flight = t.flight /\ n.unsent = new /\ n.gap = gap /\ n.rows = next.rows
       /\ n.forget = NoBinding
  BY <1>16
<1>18. Parses(n)
  BY <1>5, <1>11, <1>14, <1>15, <1>17 DEF Parses
<1>19. TailTyped(n, uids2)
  <2>1. n.next \in Nat /\ n.settled \in Nat
    BY <1>15, <1>17
  <2>2. /\ n.rows \in Seq([uid : uids2, kind : Kinds])
        /\ n.flight \in Seq(OutboxRows(uids2)) /\ n.unsent \in Seq(OutboxRows(uids2))
        /\ n.gap \in {NoGap} \union (Int \X Int)
        /\ n.cursor \in Seq(Int) /\ Len(n.cursor) <= 1
    BY <1>2, <1>5, <1>11, <1>13, <1>17 DEF Gaps
  <2> QED BY <2>1, <2>2 DEF TailTyped
<1>20. TailRising(n)
  <2> DEFINE all == t.flight \o new
  <2>1. Rising(all)
    <3>1. \A i \in 1..Len(t.flight), j \in 1..Len(new) : t.flight[i].uid < new[j].uid
      BY <1>12
    <3> QED BY <1>1, <1>9, <1>11, <1>13, <3>1, ConcatRises
  <2>2. ASSUME NEW j \in (n.settled + 1)..Len(n.rows), NEW i \in 1..Len(all)
        PROVE  all[i].uid < n.rows[j].uid
    <3>1. j \in From(next, end) /\ j \in From(next, start)
      BY <1>4, <1>17
    <3>2. CASE i \in 1..Len(t.flight)
      <4>1. all[i] = t.flight[i]
        BY <1>13, <3>2, ConcatIndex
      <4> QED BY <1>4, <1>17, <3>1, <3>2, <4>1
    <3>3. CASE i \notin 1..Len(t.flight)
      <4>1. i - Len(t.flight) \in 1..Len(new) /\ Len(t.flight) + (i - Len(t.flight)) = i
        <5>1. Len(all) = Len(t.flight) + Len(new) /\ Len(t.flight) \in Nat /\ Len(new) \in Nat
          BY <1>13
        <5>2. i \in 1..(Len(t.flight) + Len(new))
          BY <5>1
        <5> HIDE DEF all
        <5> QED BY <3>3, <5>1, <5>2, SecondPart
      <4>2. all[i] = new[i - Len(t.flight)]
        <5>1. \A k \in 1..Len(new) : all[Len(t.flight) + k] = new[k]
          BY <1>13, ConcatIndex
        <5> HIDE DEF all
        <5> QED BY <4>1, <5>1
      <4> HIDE DEF all
      <4> QED BY <1>11, <1>17, <3>1, <4>1, <4>2 DEF Precedes
    <3> QED BY <3>2, <3>3
  <2>3. Rising(n.rows) /\ all = n.flight \o n.unsent
    BY <1>5, <1>17
  <2> HIDE DEF all
  <2> QED BY <2>1, <2>2, <2>3 DEF TailRising
<1>21. TailOffers(n, batches)
  <2>1. /\ t.cursor # None =>
             \E c \in batches : c.binding = t.binding /\ SeqThrough(c) = t.cursor[1]
        /\ \A b \in batches : b.binding = t.binding => b.rows = t.flight \/ BehindCursor(b, t)
    BY DEF TailSound, TailOffers
  <2>2. ASSUME NEW b \in batches, BehindCursor(b, t) PROVE BehindCursor(b, n)
    <3> DEFINE k == Last(b.rows).uid
    <3>1. /\ t.cursor # None /\ SeqThrough(b) <= t.cursor[1]
          /\ SpokenAfter(t.flight \o t.unsent, k)
          /\ \A j \in (t.settled + 1)..Len(t.rows) : t.rows[j].uid > k
      BY <2>2 DEF BehindCursor
    <3>2. k \in uids
      <4>1. b.rows \in Seq(OutboxRows(uids)) /\ b.rows # <<>>
        BY DEF uids
      <4>2. Len(b.rows) \in 1..Len(b.rows)
        BY <4>1
      <4>3. b.rows[Len(b.rows)].uid \in uids
        BY <4>1, <4>2, QueueFields
      <4> QED BY <4>3 DEF Last
    <3> HIDE DEF k
    <3>3. \A j \in From(next, start) : next.rows[j].uid > k
      <4>1. ASSUME NEW j \in From(next, start) PROVE next.rows[j].uid > k
        <5> DEFINE u == next.rows[j].uid
        <5>1. u \in Int /\ k \in Int /\ k < uid
          BY <1>1, <1>4, <3>2
        <5>2. CASE u >= uid
          <6> HIDE DEF u
          <6>1. u > k
            BY <5>1, <5>2
          <6> QED BY <6>1 DEF u
        <5>3. CASE \E i \in (t.settled + 1)..Len(t.rows) : u = t.rows[i].uid
          BY <3>1, <5>3
        <5> QED BY <1>5, <5>2, <5>3
      <4> QED BY <4>1
    <3>4. SpokenAfter(t.flight \o new, k)
      <4>1. k \in Int
        BY <1>1, <3>2
      <4>2. TailSound(t, 1..(uid - 1), batches) /\ uids2 \subseteq Int
        BY <1>1
      <4> HIDE DEF TailSound, ComesAfter
      <4> QED BY <1>3, <3>1, <3>3, <4>1, <4>2, NumberedSpoken DEF new
    <3>5. \A j \in (n.settled + 1)..Len(n.rows) : n.rows[j].uid > k
      BY <1>4, <1>17, <3>3
    <3>6. n.cursor # None /\ SeqThrough(b) <= n.cursor[1] /\ SpokenAfter(n.flight \o n.unsent, k)
      BY <1>17, <3>1, <3>4
    <3> QED BY <3>5, <3>6 DEF BehindCursor, k
  <2>3. /\ n.cursor # None =>
             \E c \in batches : c.binding = n.binding /\ SeqThrough(c) = n.cursor[1]
        /\ \A b \in batches : b.binding = n.binding => b.rows = n.flight \/ BehindCursor(b, n)
    BY <1>17, <2>1, <2>2
  <2> QED BY <2>3 DEF TailOffers
<1>23. TailSound(n, uids2, batches)
  BY <1>17, <1>18, <1>19, <1>20, <1>21 DEF TailSound
<1> QED BY <1>22, <1>23 DEF n, uids2, new, gap

-----------------------------------------------------------------------------
(* The changes of memory, as changes of its tail.                          *)

(* The tail of a conversation that has numbered no row yet.                *)
FreshTail(b, rows, forget) ==
  [kind |-> "archive", binding |-> b, next |-> 0, settled |-> 0, cursor |-> None,
   flight |-> <<>>, unsent |-> <<>>, gap |-> NoGap, rows |-> rows, forget |-> forget]

(* A conversation that has numbered nothing is sound, whatever rows it     *)
(* opens with.                                                             *)
LEMMA FreshIsSound ==
  ASSUME NEW uids, uids \subseteq Int, NEW batches, NEW b, NEW forget,
         NEW rows \in Seq([uid : uids, kind : Kinds]), Rising(rows), Len(rows) <= MaxMessages,
         \A batch \in batches : batch.binding # b,
         forget # NoBinding => b.gen > forget.gen /\ b.id # forget.id
  PROVE  TailSound(FreshTail(b, rows, forget), uids, batches)
<1> DEFINE t == FreshTail(b, rows, forget)
<1>1. /\ t.kind = "archive" /\ t.binding = b /\ t.next = 0 /\ t.settled = 0 /\ t.cursor = None
      /\ t.flight = <<>> /\ t.unsent = <<>> /\ t.gap = NoGap /\ t.rows = rows
      /\ t.forget = forget
  BY DEF FreshTail
<1> HIDE DEF t
<1>2. Len(rows) \in Nat
  BY RowsTyped
<1>3. Partitions(None, <<>> \o <<>>, NoGap, 0)
  BY DEF Partitions, None, NoGap
<1>4. Parses(t)
  <2>1. /\ Len(t.rows) <= MaxMessages /\ t.settled <= Len(t.rows) /\ t.settled <= t.next
        /\ Len(t.flight) + Len(t.unsent) <= MaxOutbox
    BY <1>1, <1>2, MaxOutboxAssumption
  <2> QED BY <1>1, <1>3, <2>1 DEF Parses
<1>5. TailTyped(t, uids)
  <2>1. <<>> \in Seq(OutboxRows(uids)) /\ None \in Seq(Int) /\ Len(None) <= 1
    BY DEF None
  <2> QED BY <1>1, <2>1 DEF TailTyped
<1>6. TailRising(t)
  <2>1. <<>> \o <<>> = <<>> /\ Rising(<<>>)
    BY DEF Rising
  <2>2. \A i \in 1..Len(<<>>) : FALSE
    OBVIOUS
  <2> QED BY <1>1, <2>1, <2>2 DEF TailRising
<1>7. TailOffers(t, batches)
  BY <1>1 DEF TailOffers
<1> QED BY <1>1, <1>4, <1>5, <1>6, <1>7 DEF TailSound, t

(* A tail stays sound when rows are spoken that it does not hold, and when *)
(* a batch is handed out that is another conversation's or the tail's own. *)
LEMMA SoundLater ==
  ASSUME NEW uids, NEW uids2, uids \subseteq uids2, NEW batches, NEW batches2,
         batches \subseteq batches2, NEW t, TailSound(t, uids, batches),
         \A b \in batches2 \ batches : b.binding = t.binding => b.rows = t.flight
  PROVE  TailSound(t, uids2, batches2)
<1>1. TailTyped(t, uids2)
  <2>1. [uid : uids, kind : Kinds] \subseteq [uid : uids2, kind : Kinds]
        /\ OutboxRows(uids) \subseteq OutboxRows(uids2)
    BY DEF OutboxRows
  <2>2. \A A, B : \A s \in Seq(A) : A \subseteq B => s \in Seq(B)
    <3>1. ASSUME NEW A, NEW B, NEW s \in Seq(A), A \subseteq B PROVE s \in Seq(B)
      <4>1. s = [i \in 1..Len(s) |-> s[i]] /\ Len(s) \in Nat
            /\ \A i \in 1..Len(s) : s[i] \in B
        BY <3>1
      <4> QED BY <4>1
    <3> QED BY <3>1
  <2>3. TailTyped(t, uids)
    BY DEF TailSound
  <2> DEFINE A == [uid : uids, kind : Kinds]
             B == [uid : uids2, kind : Kinds]
             C == OutboxRows(uids)
             D == OutboxRows(uids2)
  <2>4. t.rows \in Seq(A) /\ t.flight \in Seq(C) /\ t.unsent \in Seq(C)
    BY <2>3 DEF TailTyped
  <2>5. A \subseteq B /\ C \subseteq D
    BY <2>1
  <2> HIDE DEF A, B, C, D
  <2>6. t.rows \in Seq(B) /\ t.flight \in Seq(D) /\ t.unsent \in Seq(D)
    BY ONLY <2>2, <2>4, <2>5
  <2> QED BY <2>3, <2>6 DEF TailTyped, B, D
<1>2. TailOffers(t, batches2)
  BY DEF TailSound, TailOffers
<1> QED BY <1>1, <1>2 DEF TailSound

(* Two tails that differ at most in their outbox.                          *)
SameConversation(t, s) ==
  /\ t.kind = s.kind /\ t.binding = s.binding /\ t.next = s.next /\ t.settled = s.settled
  /\ t.gap = s.gap /\ t.rows = s.rows /\ t.forget = s.forget

(* A sequence is its first n elements and the rest.                        *)
LEMMA SplitRows ==
  ASSUME NEW S, NEW rows \in Seq(S), NEW n \in 1..Len(rows)
  PROVE  /\ SubSeq(rows, 1, n) \in Seq(S) /\ SubSeq(rows, n + 1, Len(rows)) \in Seq(S)
         /\ SubSeq(rows, 1, n) \o SubSeq(rows, n + 1, Len(rows)) = rows
         /\ SubSeq(rows, 1, n) # <<>>
<1> DEFINE a == SubSeq(rows, 1, n)
           b == SubSeq(rows, n + 1, Len(rows))
<1> DEFINE l == Len(rows)
<1>0. a \in Seq(S) /\ b \in Seq(S) /\ l \in Nat /\ n \in 1..l
  OBVIOUS
<1>1. /\ a \in Seq(S) /\ Len(a) = n /\ \A i \in 1..n : a[i] = rows[i]
  OBVIOUS
<1>2. /\ b \in Seq(S) /\ Len(b) = Len(rows) - n
      /\ \A i \in 1..(Len(rows) - n) : b[i] = rows[n + i]
  <2>1. CASE n < Len(rows)
    BY <2>1
  <2>2. CASE ~(n < Len(rows))
    BY <2>2
  <2> QED BY <2>1, <2>2
<1>7. Len(a) = n /\ Len(b) = l - n
  BY <1>1, <1>2
<1> HIDE DEF a, b, l
<1>3. a \o b \in Seq(S) /\ Len(a \o b) = l
  <2>1. Len(a \o b) = Len(a) + Len(b) /\ a \o b \in Seq(S)
    BY <1>0, ConcatIndex
  <2> QED BY ONLY <1>0, <1>7, <2>1
<1>4. ASSUME NEW i \in 1..Len(rows) PROVE (a \o b)[i] = rows[i]
  <2> DEFINE c == a \o b
  <2>4. /\ \A k \in 1..Len(a) : c[k] = a[k]
        /\ \A k \in 1..Len(b) : c[Len(a) + k] = b[k]
    BY <1>0, ConcatIndex
  <2>3. /\ \A k \in 1..n : c[k] = a[k]
        /\ \A k \in 1..(Len(rows) - n) : c[n + k] = b[k]
    BY <1>7, <2>4 DEF l
  <2> HIDE DEF c
  <2>1. CASE i <= n
    <3>1. i \in 1..n
      BY <2>1
    <3> QED BY <1>1, <2>3, <3>1 DEF c
  <2>2. CASE ~(i <= n)
    <3>1. i - n \in 1..(Len(rows) - n) /\ n + (i - n) = i
      BY <2>2
    <3>2. c[n + (i - n)] = b[i - n] /\ b[i - n] = rows[n + (i - n)]
      BY <1>2, <2>3, <3>1
    <3> QED BY <3>1, <3>2 DEF c
  <2> QED BY <2>1, <2>2
<1>5. a \o b = rows
  <2> DEFINE c == a \o b
  <2>0. c \in Seq(S)
    BY <1>3
  <2>1. c = [i \in 1..Len(c) |-> c[i]]
    <3> HIDE DEF c
    <3> QED BY ONLY <2>0
  <2>2. rows = [i \in 1..Len(rows) |-> rows[i]]
    OBVIOUS
  <2>3. Len(c) = l /\ Len(rows) = l /\ \A i \in 1..Len(rows) : c[i] = rows[i]
    BY <1>3, <1>4 DEF l
  <2> HIDE DEF c
  <2>4. c = rows
    BY <2>1, <2>2, <2>3
  <2> QED BY <2>4 DEF c
<1>6. a # <<>>
  BY <1>1
<1> QED BY <1>1, <1>2, <1>5, <1>6 DEF a, b

(* Freezing the first rows of the queue keeps the tail sound.              *)
LEMMA FrozenIsSound ==
  ASSUME NEW uids, uids \subseteq Int, NEW batches, \A b \in batches : b.rows # <<>>,
         NEW t, TailSound(t, uids, batches), t.flight = <<>>,
         NEW n \in 1..Len(t.unsent),
         NEW s, SameConversation(t, s), s.cursor = t.cursor,
         s.flight = SubSeq(t.unsent, 1, n), s.unsent = SubSeq(t.unsent, n + 1, Len(t.unsent))
  PROVE  /\ TailSound(s, uids, batches)
         /\ s.flight \o s.unsent = t.flight \o t.unsent
<1>1. t.unsent \in Seq(OutboxRows(uids))
  BY DEF TailSound, TailTyped
<1>2. /\ s.flight \in Seq(OutboxRows(uids)) /\ s.unsent \in Seq(OutboxRows(uids))
      /\ s.flight \o s.unsent = t.unsent
  BY <1>1, SplitRows
<1>3. t.flight \o t.unsent = t.unsent
  BY <1>1
<1>4. Len(s.flight) + Len(s.unsent) = Len(t.flight) + Len(t.unsent)
  <2>1. Len(s.flight \o s.unsent) = Len(s.flight) + Len(s.unsent)
    BY <1>2
  <2>2. Len(t.flight) = 0 /\ Len(t.unsent) \in Nat
    BY <1>1
  <2> QED BY <1>2, <2>1, <2>2
<1>5. Parses(s)
  BY <1>2, <1>3, <1>4 DEF TailSound, Parses, SameConversation
<1>6. TailTyped(s, uids)
  BY <1>2 DEF TailSound, TailTyped, SameConversation
<1>7. TailRising(s)
  BY <1>2, <1>3 DEF TailSound, TailRising, SameConversation
<1>8. TailOffers(s, batches)
  <2>1. ASSUME NEW b \in batches, BehindCursor(b, t) PROVE BehindCursor(b, s)
    BY <1>2, <1>3, <2>1 DEF BehindCursor, SameConversation
  <2> QED BY <2>1 DEF TailSound, TailOffers, SameConversation
<1> QED BY <1>2, <1>3, <1>5, <1>6, <1>7, <1>8 DEF TailSound, SameConversation

(* An acknowledged batch leaves the outbox, and the cursor takes its end.  *)
LEMMA AckedIsSound ==
  ASSUME NEW uids, uids \subseteq Int, NEW batches,
         \A b \in batches : b.rows \in Seq(OutboxRows(uids)) /\ b.rows # <<>>,
         NEW t, TailSound(t, uids, batches), t.flight # <<>>,
         NEW c \in batches, c.binding = t.binding, SeqThrough(c) = Last(t.flight).seq,
         NEW s, SameConversation(t, s), s.cursor = <<SeqThrough(c)>>,
         s.flight = <<>>, s.unsent = t.unsent
  PROVE  TailSound(s, uids, batches)
<1> DEFINE m == Len(t.flight)
           e == FlightEnd(t)
<1>1. /\ t.flight \in Seq(OutboxRows(uids)) /\ t.unsent \in Seq(OutboxRows(uids))
      /\ m \in 1..m /\ m \in Nat /\ m > 0
  <2>1. t.flight \in Seq(OutboxRows(uids)) /\ t.unsent \in Seq(OutboxRows(uids))
    BY DEF TailSound, TailTyped
  <2> QED BY <2>1
<1>2. /\ Acked(t.cursor) \in Int /\ e \in Int
      /\ Chained(Acked(t.cursor), t.flight)
      /\ Fits(uids, e, [unsent |-> t.unsent, gap |-> t.gap], t.next)
      /\ Rising(t.flight) /\ Rising(t.unsent)
      /\ \A i \in 1..Len(t.flight), j \in 1..Len(t.unsent) : t.flight[i].uid < t.unsent[j].uid
      /\ \A i \in (t.settled + 1)..Len(t.rows) :
           /\ \A j \in 1..Len(t.flight) : t.flight[j].uid < t.rows[i].uid
           /\ \A j \in 1..Len(t.unsent) : t.unsent[j].uid < t.rows[i].uid
  BY TailParts
<1>3. /\ e = Last(t.flight).seq /\ s.cursor = <<e>> /\ s.cursor[1] = e /\ s.cursor # None
      /\ e > Acked(t.cursor)
  <2>1. e = t.flight[m].seq
    BY <1>1 DEF FlightEnd, EndBefore
  <2>2. t.flight[m].seq > Acked(t.cursor)
    BY <1>1, <1>2, ChainRises
  <2> QED BY <2>1, <2>2 DEF Last, None
<1>4. s.flight \o s.unsent = t.unsent /\ Len(s.flight) = 0
  BY <1>1
<1>5. Partitions(s.cursor, s.flight \o s.unsent, s.gap, s.next)
  <2> DEFINE q == [unsent |-> t.unsent, gap |-> t.gap]
  <2>1. q.unsent = t.unsent /\ q.gap = t.gap /\ Fits(uids, e, q, t.next)
    BY <1>2
  <2> HIDE DEF q, e
  <2>2. Chained(e, t.unsent) /\ Closes(EndBefore(e, t.unsent, Len(t.unsent)), t.gap, t.next)
    BY <2>1 DEF Fits
  <2>3. Acked(s.cursor) = e
    BY <1>3 DEF Acked
  <2> QED BY <1>4, <2>2, <2>3, PartitionsIsChain DEF SameConversation
<1>6. Parses(s)
  <2>1. Len(s.flight) + Len(s.unsent) <= MaxOutbox
    <3>1. Len(t.flight) + Len(t.unsent) <= MaxOutbox
      BY DEF TailSound, Parses
    <3>2. Len(t.unsent) \in Nat
      BY <1>1
    <3> DEFINE x == Len(t.unsent)
    <3>3. m + x <= MaxOutbox /\ Len(s.unsent) = x /\ m \in Nat /\ x \in Nat
      BY <1>1, <3>1, <3>2
    <3> HIDE DEF m, x
    <3>4. 0 + x <= MaxOutbox
      BY <3>3, MaxOutboxAssumption
    <3> QED BY <1>4, <3>3, <3>4
  <2> QED BY <1>5, <2>1 DEF TailSound, Parses, SameConversation
<1>7. TailTyped(s, uids)
  <2>1. s.flight \in Seq(OutboxRows(uids)) /\ s.cursor \in Seq(Int) /\ Len(s.cursor) <= 1
    BY <1>2, <1>3
  <2> QED BY <2>1 DEF TailSound, TailTyped, SameConversation
<1>8. TailRising(s)
  <2>1. Rising(t.rows) /\ Rising(t.unsent)
    BY <1>2 DEF TailSound, TailRising
  <2> QED BY <1>2, <1>4, <2>1 DEF TailRising, SameConversation
<1>9. TailOffers(s, batches)
  <2>1. ASSUME NEW b \in batches, b.binding = t.binding PROVE BehindCursor(b, s)
    <3>1. CASE b.rows = t.flight
      <4>1. SeqThrough(b) = e /\ Last(b.rows) = t.flight[m]
        BY <1>3, <3>1 DEF SeqThrough, Last
      <4>2. SpokenAfter(t.unsent, t.flight[m].uid)
        <5>1. \A j \in 1..Len(t.unsent) :
                t.unsent[j].uid \in Int /\ t.flight[m].uid \in Int /\ t.flight[m].uid < t.unsent[j].uid
          BY <1>1, <1>2, QueueFields
        <5> HIDE DEF m
        <5> QED BY <5>1 DEF SpokenAfter
      <4>3. \A j \in (t.settled + 1)..Len(t.rows) : t.rows[j].uid > t.flight[m].uid
        <5>1. Len(t.rows) \in Nat /\ \A i \in 1..Len(t.rows) : t.rows[i].uid \in Int
          <6>1. t.rows \in Seq([uid : uids, kind : Kinds])
            BY DEF TailSound, TailTyped
          <6> QED BY <6>1, RowsTyped
        <5>2. t.settled \in Nat
          BY DEF TailSound, TailTyped
        <5>3. t.flight[m].uid \in Int
          BY <1>1, QueueFields
        <5>4. ASSUME NEW j \in (t.settled + 1)..Len(t.rows) PROVE t.rows[j].uid > t.flight[m].uid
          <6>1. j \in 1..Len(t.rows)
            BY <5>1, <5>2
          <6>2. t.rows[j].uid \in Int
            BY <5>1, <6>1
          <6>3. t.flight[m].uid < t.rows[j].uid
            BY <1>1, <1>2
          <6> DEFINE x == t.rows[j].uid
                     y == t.flight[m].uid
          <6> HIDE DEF x, y
          <6>4. x > y
            BY <5>3, <6>2, <6>3 DEF x, y
          <6> QED BY <6>4 DEF x, y
        <5> QED BY <5>4
      <4> HIDE DEF m, e
      <4> QED BY <1>2, <1>3, <1>4, <4>1, <4>2, <4>3 DEF BehindCursor, SameConversation
    <3>2. CASE BehindCursor(b, t)
      <4> DEFINE k == Last(b.rows).uid
      <4>1. /\ t.cursor # None /\ SeqThrough(b) <= t.cursor[1]
            /\ SpokenAfter(t.flight \o t.unsent, k)
            /\ \A j \in (t.settled + 1)..Len(t.rows) : t.rows[j].uid > k
        BY <3>2 DEF BehindCursor
      <4>2. SeqThrough(b) \in Int
        <5>1. b.rows \in Seq(OutboxRows(uids)) /\ b.rows # <<>>
          OBVIOUS
        <5>2. Len(b.rows) \in 1..Len(b.rows)
          BY <5>1
        <5> QED BY <5>1, <5>2, QueueFields DEF SeqThrough, Last
      <4>3. SeqThrough(b) <= e
        <5>1. t.cursor[1] = Acked(t.cursor)
          BY <4>1 DEF Acked
        <5> HIDE DEF e
        <5> QED BY <1>2, <1>3, <4>1, <4>2, <5>1
      <4>4. SpokenAfter(t.unsent, k)
        <5> HIDE DEF k
        <5> QED BY <1>1, <4>1, ConcatRises
      <4> QED BY <1>3, <1>4, <4>1, <4>3, <4>4 DEF BehindCursor, SameConversation
    <3> QED BY <2>1, <3>1, <3>2 DEF TailSound, TailOffers
  <2> QED BY <1>3, <2>1 DEF TailOffers, SameConversation
<1> QED BY <1>6, <1>7, <1>8, <1>9 DEF TailSound, SameConversation

(* A view whose rows are those of the view v, with some new ones behind    *)
(* them and the first n gone, comes after the tail t that v was written to.*)
LEMMA LaterView ==
  ASSUME NEW uid \in Nat, NEW uid2 \in Nat, NEW base \in Nat, NEW t, NEW v,
         t.rows = v.rows, t.next = base + ClosedEnd(v),
         t.settled = Len(v.rows) - v.unsettled,
         NEW uids, uids \subseteq Int, v.rows \in Seq([uid : uids, kind : Kinds]),
         v.first \in Nat, v.unsettled \in 0..Len(v.rows),
         NEW rows \in Seq([uid : 1..(uid2 - 1), kind : Kinds]), Rising(rows),
         Len(v.rows) <= Len(rows),
         \A i \in 1..Len(rows) :
           IF i <= Len(v.rows) THEN rows[i].uid = v.rows[i].uid ELSE rows[i].uid >= uid,
         NEW n \in 0..Len(rows), NEW next, next.first = v.first + n,
         next.rows \in Seq([uid : 1..(uid2 - 1), kind : Kinds]),
         Len(next.rows) = Len(rows) - n, Len(next.rows) <= MaxMessages,
         \A j \in 1..Len(next.rows) : next.rows[j] = rows[n + j],
         next.unsettled \in 0..Len(next.rows),
         Len(v.rows) - v.unsettled <= Len(rows) - next.unsettled
  PROVE  ComesAfter(next, t, base, uid, 1..(uid2 - 1))
<1> DEFINE l == Len(v.rows)
           m == Len(rows)
           k == Len(next.rows)
           o == v.unsettled
           p == next.unsettled
           f == v.first
<1>1. l \in Nat /\ m \in Nat
  <2>1. 1..(uid2 - 1) \subseteq Int
    OBVIOUS
  <2> QED BY <2>1, RowsTyped
<1>2. \A i \in 1..m : rows[i].uid \in Int
  <2>1. 1..(uid2 - 1) \subseteq Int
    OBVIOUS
  <2>2. \A i \in 1..m : rows[i].uid \in 1..(uid2 - 1)
    BY <2>1, RowsTyped
  <2> QED BY <2>1, <2>2
<1>3. /\ k = m - n /\ n \in 0..m /\ o \in 0..l /\ p \in 0..k /\ f \in Nat
      /\ next.first = f + n /\ l - o <= m - p /\ l <= m
  OBVIOUS
<1>4. ClosedEnd(v) = f + l - o /\ ClosedEnd(next) = f + n + k - p
  BY DEF ClosedEnd
<1>5. t.next - base = f + l - o
  <2> DEFINE c == ClosedEnd(v)
  <2>1. t.next = base + c /\ c = f + l - o
    BY <1>4
  <2> HIDE DEF c, f, l, o
  <2>2. c \in Int
    BY <1>1, <1>3, <2>1
  <2> QED BY <2>1, <2>2
<1> HIDE DEF l, m, k, o, p, f
<1>6. t.next - base <= ClosedEnd(next)
  BY <1>1, <1>3, <1>4, <1>5
<1>7. next.first \in Nat
  BY <1>1, <1>3
<1>8. \A j \in 1..k : n + j \in 1..m
  BY <1>1, <1>3
<1>9. Rising(next.rows)
  <2>1. ASSUME NEW i \in 1..k, NEW j \in 1..k, i < j PROVE next.rows[i].uid < next.rows[j].uid
    <3>1. n + i \in 1..m /\ n + j \in 1..m /\ n + i < n + j
      BY <1>1, <1>3, <1>8, <2>1
    <3>2. rows[n + i].uid < rows[n + j].uid
      BY <3>1 DEF Rising, m
    <3> QED BY <3>2 DEF k
  <2> QED BY <2>1 DEF Rising, k
<1>10. ASSUME NEW j \in From(next, t.next - base)
       PROVE  \/ next.rows[j].uid >= uid
              \/ \E i \in (t.settled + 1)..Len(t.rows) : next.rows[j].uid = t.rows[i].uid
  <2>1. j \in 1..k /\ f + n + j - 1 >= f + l - o
    BY <1>3, <1>5 DEF From, k
  <2>2. next.rows[j].uid = rows[n + j].uid /\ n + j \in 1..m
    BY <1>8, <2>1 DEF k
  <2>3. CASE n + j <= l
    <3>1. n + j \in (l - o + 1)..l
      BY <1>1, <1>3, <2>1, <2>3
    <3>2. rows[n + j].uid = v.rows[n + j].uid
      BY <2>2, <2>3 DEF l, m
    <3>3. n + j \in (t.settled + 1)..Len(t.rows)
      BY <3>1 DEF l, o
    <3> QED BY <2>2, <3>2, <3>3
  <2>4. CASE ~(n + j <= l)
    BY <2>2, <2>4 DEF l, m
  <2> QED BY <2>3, <2>4
<1>11. ASSUME NEW j \in 1..k
       PROVE  \/ next.rows[j].uid >= uid
              \/ \E i \in 1..Len(t.rows) : next.rows[j].uid = t.rows[i].uid
  <2>1. next.rows[j].uid = rows[n + j].uid /\ n + j \in 1..m
    BY <1>8 DEF k
  <2>2. CASE n + j <= l
    <3>1. n + j \in 1..l
      BY <1>1, <1>3, <2>1, <2>2
    <3>2. rows[n + j].uid = v.rows[n + j].uid
      BY <2>1, <2>2 DEF l, m
    <3>3. n + j \in 1..Len(t.rows)
      BY <3>1 DEF l
    <3> QED BY <2>1, <3>2, <3>3
  <2>3. CASE ~(n + j <= l)
    BY <2>1, <2>3 DEF l, m
  <2> QED BY <2>2, <2>3
<1> QED BY <1>6, <1>7, <1>9, <1>10, <1>11 DEF ComesAfter, k

(* What is left of a sequence without its first n elements.                *)
LEMMA RowsLeft ==
  ASSUME NEW S, NEW rows \in Seq(S), NEW n \in 0..Len(rows)
  PROVE  /\ SubSeq(rows, n + 1, Len(rows)) \in Seq(S)
         /\ Len(SubSeq(rows, n + 1, Len(rows))) = Len(rows) - n
         /\ \A j \in 1..(Len(rows) - n) : SubSeq(rows, n + 1, Len(rows))[j] = rows[n + j]
<1>1. CASE n < Len(rows)
  BY <1>1
<1>2. CASE ~(n < Len(rows))
  BY <1>2
<1> QED BY <1>1, <1>2

(* Evicting the first n rows leaves a view that comes after the tail.      *)
LEMMA EvictedView ==
  ASSUME NEW uid \in Nat, NEW uid2 \in Nat, NEW base \in Nat, NEW t,
         t.rows = view.rows, t.next = base + ClosedEnd(view),
         t.settled = Len(view.rows) - view.unsettled,
         NEW uids, uids \subseteq Int, view.rows \in Seq([uid : uids, kind : Kinds]),
         view.first \in Nat, view.unsettled \in 0..Len(view.rows),
         NEW rows \in Seq([uid : 1..(uid2 - 1), kind : Kinds]), Rising(rows),
         Len(view.rows) <= Len(rows),
         \A i \in 1..Len(rows) :
           IF i <= Len(view.rows) THEN rows[i].uid = view.rows[i].uid ELSE rows[i].uid >= uid,
         NEW open \in 0..Len(rows),
         Len(view.rows) - view.unsettled <= Len(rows) - open,
         NEW n \in Evictions(rows)
  PROVE  ComesAfter(Evict(rows, open, n), t, base, uid, 1..(uid2 - 1))
<1> DEFINE next == Evict(rows, open, n)
           S == [uid : 1..(uid2 - 1), kind : Kinds]
           m == Len(rows)
           k == IF open > m - n THEN 0 ELSE open
<1>1. m \in Nat /\ n \in 0..(m - 1) /\ m - n <= MaxMessages /\ open \in 0..m
  <2>1. 1..(uid2 - 1) \subseteq Int
    OBVIOUS
  <2>2. m \in Nat
    BY <2>1, RowsTyped
  <2> QED BY <2>2 DEF Evictions
<1>2. next.first = view.first + n /\ next.rows = SubSeq(rows, n + 1, m) /\ next.unsettled = k
  BY DEF Evict
<1>3. rows \in Seq(S)
  OBVIOUS
<1> HIDE DEF next, S
<1>4. /\ next.rows \in Seq(S) /\ Len(next.rows) = m - n
      /\ \A j \in 1..(m - n) : next.rows[j] = rows[n + j]
  <2>1. n \in 0..m
    BY <1>1
  <2> QED BY <1>2, <1>3, <2>1, RowsLeft
<1>5. /\ n \in 0..m /\ k \in 0..(m - n)
      /\ (Len(view.rows) - view.unsettled <= m - open) => (Len(view.rows) - view.unsettled <= m - k)
  <2>1. Len(view.rows) \in Nat /\ view.unsettled \in Int
    BY RowsTyped
  <2> DEFINE l == Len(view.rows)
             o == view.unsettled
  <2>2. l - o \in Int
    BY <2>1
  <2> HIDE DEF l, o, m
  <2>3. n \in 0..m /\ k \in 0..(m - n) /\ (l - o <= m - open => l - o <= m - k)
    BY <1>1, <2>2
  <2> QED BY <2>3 DEF l, o
<1>6. Len(next.rows) <= MaxMessages /\ next.unsettled \in 0..Len(next.rows)
  BY <1>1, <1>2, <1>4, <1>5
<1>7. /\ \A j \in 1..Len(next.rows) : next.rows[j] = rows[n + j]
      /\ Len(view.rows) - view.unsettled <= Len(rows) - next.unsettled
  BY <1>2, <1>4, <1>5
<1>8. next.rows \in Seq([uid : 1..(uid2 - 1), kind : Kinds]) /\ n \in 0..Len(rows)
  BY <1>4, <1>5 DEF S
<1>9. next.first = view.first + n /\ Len(next.rows) = Len(rows) - n
  BY <1>2, <1>4
<1> HIDE DEF m, k
<1>10. ComesAfter(next, t, base, uid, 1..(uid2 - 1))
  BY <1>6, <1>7, <1>8, <1>9, LaterView
<1> QED BY <1>10 DEF next

(* The tail records exactly the closed rows as numbered.                   *)
LEMMA SettledRows ==
  ASSUME NEW s, NEW v, s.base \in Nat, s.next = s.base + ClosedEnd(v),
         v.first \in Nat, Len(v.rows) \in Nat, v.unsettled \in 0..Len(v.rows)
  PROVE  Settled(s, v) = Len(v.rows) - v.unsettled
<1> DEFINE l == Len(v.rows)
           o == v.unsettled
           n == s.next
           c == ClosedEnd(v)
<1>1. /\ l \in Nat /\ o \in 0..l /\ n = s.base + c /\ c = v.first + l - o
  BY DEF ClosedEnd
<1> HIDE DEF l, o, n, c
<1>2. l - o \in Nat /\ n \in Int /\ l - o <= n
  BY <1>1
<1> DEFINE x == l - o
<1>5. x \in Nat /\ x <= n
  BY <1>2
<1> HIDE DEF x
<1>3. Min({x, n}) = x
  <2>1. Min({x, n}) = IF x <= n THEN x ELSE n
    <3>1. x \in Int /\ n \in Int
      BY <1>2, <1>5
    <3> QED BY <3>1, MaxOfTwo
  <2> QED BY <1>5, <2>1
<1>4. Max({0, x}) = x
  <2>1. Max({0, x}) = IF 0 >= x THEN 0 ELSE x
    BY <1>5, MaxOfTwo
  <2> QED BY <1>5, <2>1
<1> QED BY <1>3, <1>4 DEF Settled, l, o, n, x

(* What memory would write, while the process is up.                       *)
LEMMA CurrentFields ==
  ASSUME RowsInductive, Up
  PROVE  /\ TailSound(CurrentTail, Spoken, offered) /\ NumbersFollow
         /\ CurrentTail.kind = "archive" /\ CurrentTail.binding = binding
         /\ CurrentTail.rows = view.rows /\ CurrentTail.next = seqs.next
         /\ CurrentTail.next = seqs.base + ClosedEnd(view)
         /\ CurrentTail.settled = Len(view.rows) - view.unsettled
         /\ CurrentTail.cursor = cursor /\ CurrentTail.flight = flight
         /\ CurrentTail.unsent = queue.unsent /\ CurrentTail.gap = queue.gap
         /\ CurrentTail.forget = NoBinding
         /\ view.rows \in Seq([uid : Spoken, kind : Kinds]) /\ Rising(view.rows)
         /\ Len(view.rows) \in Nat /\ Len(view.rows) <= MaxMessages
         /\ nextUid \in Nat \ {0} /\ Spoken \subseteq Int
<1>1. TailSound(CurrentTail, Spoken, offered) /\ NumbersFollow /\ nextUid \in Nat \ {0}
  BY DEF RowsInductive
<1>2. /\ CurrentTail.kind = "archive" /\ CurrentTail.binding = binding
      /\ CurrentTail.rows = view.rows /\ CurrentTail.next = seqs.next
      /\ CurrentTail.settled = Settled(seqs, view)
      /\ CurrentTail.cursor = cursor /\ CurrentTail.flight = flight
      /\ CurrentTail.unsent = queue.unsent /\ CurrentTail.gap = queue.gap
      /\ CurrentTail.forget = NoBinding
  BY DEF CurrentTail
<1>3. /\ view.rows \in Seq([uid : Spoken, kind : Kinds]) /\ Rising(view.rows)
      /\ Len(view.rows) <= MaxMessages
  BY <1>1, <1>2 DEF TailSound, TailTyped, TailRising, Parses
<1>4. Spoken \subseteq Int
  BY DEF Spoken
<1>5. Len(view.rows) \in Nat
  BY <1>3, <1>4, RowsTyped
<1>6. seqs.next = seqs.base + ClosedEnd(view)
  <2> DEFINE c == seqs.base + ClosedEnd(view)
  <2>1. seqs = [base |-> seqs.base, next |-> c]
    BY <1>1 DEF NumbersFollow
  <2> HIDE DEF c
  <2>2. seqs.next = c
    BY <2>1
  <2> QED BY <2>2 DEF c
<1>7. Settled(seqs, view) = Len(view.rows) - view.unsettled
  BY <1>1, <1>5, <1>6, SettledRows DEF NumbersFollow
<1> QED BY <1>1, <1>2, <1>3, <1>4, <1>5, <1>6, <1>7

(* A change of the store numbers the rows that closed.                     *)
LEMMA UpdateNumbers ==
  ASSUME RowsInductive, Up, NEW next, Update(next), UNCHANGED <<binding, cursor, flight>>,
         next = [rows |-> next.rows, first |-> next.first, unsettled |-> next.unsettled],
         nextUid' \in Nat, nextUid <= nextUid',
         ComesAfter(next, CurrentTail, seqs.base, nextUid, 1..(nextUid' - 1))
  PROVE  /\ CurrentTail' = NumberedTail(CurrentTail, seqs.base, next)
         /\ TailSound(CurrentTail', 1..(nextUid' - 1), offered)
         /\ NumbersFollow'
<1> DEFINE t == CurrentTail
           base == seqs.base
           n == NumberedTail(t, base, next)
           q == Numbered(t, base, next)
           end == ClosedEnd(next)
<1>1. /\ TailSound(t, Spoken, offered) /\ NumbersFollow
      /\ t.kind = "archive" /\ t.binding = binding /\ t.next = seqs.next
      /\ t.cursor = cursor /\ t.flight = flight
      /\ t.unsent = queue.unsent /\ t.gap = queue.gap
      /\ nextUid \in Nat
  BY CurrentFields
<1>2. \A b \in offered : b.rows \in Seq(OutboxRows(1..(nextUid - 1))) /\ b.rows # <<>>
  BY DEF RowsInductive, Spoken
<1> HIDE DEF t
<1>3. TailSound(n, 1..(nextUid' - 1), offered) /\ q = [unsent |-> q.unsent, gap |-> q.gap]
  <2>1. TailSound(t, 1..(nextUid - 1), offered)
    BY <1>1 DEF Spoken
  <2>2. ComesAfter(next, t, base, nextUid, 1..(nextUid' - 1))
    BY DEF t
  <2> DEFINE uid2 == nextUid'
             batches == offered
             uid == nextUid
  <2>3. /\ uid2 \in Nat /\ uid \in Nat /\ uid <= uid2
        /\ TailSound(t, 1..(uid - 1), batches)
        /\ ComesAfter(next, t, base, uid, 1..(uid2 - 1))
        /\ \A b \in batches : b.rows \in Seq(OutboxRows(1..(uid - 1))) /\ b.rows # <<>>
    BY <1>1, <1>2, <2>1, <2>2
  <2> HIDE DEF uid2, batches, uid, base, n, q
  <2>4. TailSound(NumberedTail(t, base, next), 1..(uid2 - 1), batches)
        /\ Numbered(t, base, next) = [unsent |-> Numbered(t, base, next).unsent,
                                      gap |-> Numbered(t, base, next).gap]
    BY ONLY <2>3, NumberedIsSound
  <2> QED BY <2>4 DEF n, q, uid2, batches
<1>4. /\ base \in Nat /\ Len(next.rows) \in Nat
      /\ next.first \in Nat /\ next.unsettled \in 0..Len(next.rows)
      /\ t.next - base <= end
  <2>1. /\ next.rows \in Seq([uid : 1..(nextUid' - 1), kind : Kinds])
        /\ next.first \in Nat /\ next.unsettled \in 0..Len(next.rows)
        /\ t.next - base <= end /\ base \in Nat
    BY DEF ComesAfter, t
  <2> DEFINE U == 1..(nextUid' - 1)
  <2>2. U \subseteq Int /\ next.rows \in Seq([uid : U, kind : Kinds])
    BY <2>1
  <2> HIDE DEF U
  <2>3. Len(next.rows) \in Nat
    BY <2>2, RowsTyped
  <2> QED BY <2>1, <2>3
<1>5. /\ view' = next /\ queue' = q /\ seqs' = [base |-> base, next |-> base + end]
  <2>1. /\ queue = [unsent |-> queue.unsent, gap |-> queue.gap]
        /\ seqs = [base |-> base, next |-> t.next] /\ t.next \in Nat
    <3>1. seqs = [base |-> seqs.base, next |-> seqs.base + ClosedEnd(view)]
      BY <1>1 DEF NumbersFollow
    <3>2. queue = [unsent |-> queue.unsent, gap |-> queue.gap]
      BY <1>1 DEF NumbersFollow
    <3>3. t.next \in Nat
      BY <1>1 DEF TailSound, TailTyped
    <3> DEFINE c == seqs.base + ClosedEnd(view)
               b == seqs.base
    <3>4. seqs = [base |-> b, next |-> c]
      BY <3>1
    <3> HIDE DEF c, b
    <3>5. seqs = [base |-> b, next |-> seqs.next]
      BY <3>4
    <3> QED BY <1>1, <3>2, <3>3, <3>5 DEF b
  <2>2. queue' = q
    <3>1. queue' = Assign(queue, Len(flight), seqs, next)
      BY DEF Update
    <3> HIDE DEF base
    <3> QED BY <1>1, <2>1, <3>1 DEF Numbered
  <2>3. seqs' = [base |-> base, next |-> base + end]
    <3>1. seqs' = [seqs EXCEPT !.next = Max({seqs.next, base + end})]
      BY DEF Update, Advance
    <3> DEFINE f == next.first
               l == Len(next.rows)
               o == next.unsettled
    <3>2. end = f + l - o /\ f \in Nat /\ l \in Nat /\ o \in 0..l
      BY <1>4 DEF ClosedEnd
    <3> DEFINE x == base + end
               y == seqs.next
    <3>5. y \in Nat /\ base \in Nat /\ y - base <= end
      BY <1>1, <1>4, <2>1
    <3> HIDE DEF end, f, l, o, base, y
    <3>3. y \in Int /\ end \in Int /\ x \in Int /\ y <= x
      BY <3>2, <3>5
    <3>4. Max({y, x}) = x
      <4> HIDE DEF x, y
      <4>1. x \in Int /\ y \in Int /\ y <= x
        BY <3>3 DEF x, y
      <4>2. Max({y, x}) = IF y >= x THEN y ELSE x
        BY <4>1, MaxOfTwo
      <4> QED BY <4>1, <4>2
    <3> HIDE DEF x
    <3> QED BY <2>1, <3>1, <3>4 DEF x, y
  <2> QED BY <2>2, <2>3 DEF Update
<1>6. Settled(seqs', view') = Len(next.rows) - next.unsettled
  <2> DEFINE s == [base |-> base, next |-> base + end]
  <2>1. s.base = base /\ s.next = base + end
    OBVIOUS
  <2> HIDE DEF s, base
  <2>2. Settled(s, next) = Len(next.rows) - next.unsettled
    BY <1>4, <2>1, SettledRows
  <2> QED BY <1>5, <2>2 DEF s, base
<1>7. CurrentTail' = n
  <2>1. CurrentTail' = [kind |-> "archive", binding |-> t.binding, next |-> seqs'.next,
                        settled |-> Settled(seqs', view'), cursor |-> t.cursor,
                        flight |-> t.flight, unsent |-> queue'.unsent, gap |-> queue'.gap,
                        rows |-> view'.rows, forget |-> NoBinding]
    BY <1>1 DEF CurrentTail
  <2>2. seqs'.next = base + end
    BY <1>5
  <2> HIDE DEF base, end, q
  <2> QED BY <1>5, <1>6, <2>1, <2>2 DEF NumberedTail, end, q
<1>8. NumbersFollow'
  <2>1. seqs'.base = base
    BY <1>5
  <2>2. seqs' = [base |-> seqs'.base, next |-> seqs'.base + ClosedEnd(view')]
    BY <1>5, <2>1
  <2> HIDE DEF base, end, q
  <2>3. queue' = [unsent |-> queue'.unsent, gap |-> queue'.gap]
    BY <1>3, <1>5
  <2> QED BY <1>4, <1>5, <2>1, <2>2, <2>3 DEF NumbersFollow
<1> QED BY <1>3, <1>7, <1>8 DEF t, n, base

(* A row spoken now comes after all that were spoken.                      *)
LEMMA NewRow ==
  ASSUME NEW uid \in Nat \ {0}, NEW kind \in Kinds,
         NEW rows \in Seq([uid : 1..(uid - 1), kind : Kinds]), Rising(rows)
  PROVE  LET new == Append(rows, [uid |-> uid, kind |-> kind])
         IN  /\ new \in Seq([uid : 1..uid, kind : Kinds]) /\ Rising(new)
             /\ Len(new) = Len(rows) + 1
             /\ \A i \in 1..Len(new) :
                  IF i <= Len(rows) THEN new[i].uid = rows[i].uid ELSE new[i].uid >= uid
<1> DEFINE row == [uid |-> uid, kind |-> kind]
           new == Append(rows, row)
           S == [uid : 1..uid, kind : Kinds]
           U == 1..(uid - 1)
           l == Len(rows)
<1>1. rows \in Seq(S)
  <2>1. [uid : U, kind : Kinds] \subseteq S
    OBVIOUS
  <2> DEFINE T == [uid : U, kind : Kinds]
  <2>2. rows \in Seq(T)
    OBVIOUS
  <2>3. T \subseteq S
    BY <2>1
  <2> HIDE DEF T, S
  <2>4. rows = [i \in 1..Len(rows) |-> rows[i]] /\ Len(rows) \in Nat
        /\ \A i \in 1..Len(rows) : rows[i] \in S
    BY <2>2, <2>3
  <2> QED BY <2>4
<1>2. row \in S /\ row.uid = uid
  OBVIOUS
<1>3. \A i \in 1..l : rows[i].uid \in U
  <2>1. U \subseteq Int
    OBVIOUS
  <2>2. rows \in Seq([uid : U, kind : Kinds])
    OBVIOUS
  <2> HIDE DEF U, l
  <2> QED BY <2>1, <2>2, RowsTyped DEF l
<1> HIDE DEF row, S
<1>4. /\ new \in Seq(S) /\ Len(new) = l + 1 /\ l \in Nat
      /\ \A i \in 1..l : new[i] = rows[i]
      /\ new[l + 1] = row
  BY <1>1, <1>2
<1> HIDE DEF new, l
<1>5. \A i \in 1..(l + 1) : i \in 1..l \/ i = l + 1
  BY <1>4
<1>6. ASSUME NEW i \in 1..(l + 1), NEW j \in 1..(l + 1), i < j
      PROVE  new[i].uid < new[j].uid
  <2>1. i \in 1..l
    BY <1>4, <1>6
  <2>2. CASE j \in 1..l
    <3>1. rows[i].uid < rows[j].uid
      BY <1>6, <2>1, <2>2 DEF Rising, l
    <3> QED BY <1>4, <2>1, <2>2, <3>1
  <2>3. CASE j = l + 1
    <3>1. rows[i].uid \in 1..(uid - 1)
      BY <1>3, <2>1
    <3>2. rows[i].uid < uid
      BY <3>1
    <3> QED BY <1>2, <1>4, <2>1, <2>3, <3>2
  <2> QED BY <1>5, <2>2, <2>3
<1>7. Rising(new)
  BY <1>4, <1>6 DEF Rising
<1>8. ASSUME NEW i \in 1..(l + 1)
      PROVE  IF i <= l THEN new[i].uid = rows[i].uid ELSE new[i].uid >= uid
  <2>1. CASE i \in 1..l
    BY <1>4, <2>1
  <2>2. CASE i = l + 1
    <3>1. new[i].uid = uid /\ ~(i <= l)
      BY <1>2, <1>4, <2>2
    <3> QED BY <3>1
  <2> QED BY <1>5, <2>1, <2>2
<1> QED BY <1>4, <1>7, <1>8 DEF new, row, S, l

(* The changes that speak a row or close one.                              *)
SpeaksOrCloses ==
  \/ \E kind \in {"user", "invalid"} : RecordUserTranscript(kind)
  \/ OpenSegment \/ ExtendSegment \/ CloseSegment

(* Each change of the rows is an update with a view that comes after.      *)
LEMMA RowChanges ==
  ASSUME RowsInductive, SpeaksOrCloses
  PROVE  /\ Up /\ StoreFrame
         /\ nextUid' \in Nat \ {0} /\ nextUid <= nextUid'
         /\ \E next : /\ Update(next)
                      /\ next = [rows |-> next.rows, first |-> next.first,
                                 unsettled |-> next.unsettled]
                      /\ ComesAfter(next, CurrentTail, seqs.base, nextUid, 1..(nextUid' - 1))
<1> DEFINE l == Len(view.rows)
           o == view.unsettled
           uid == nextUid
           t == CurrentTail
           base == seqs.base
           rowsOf == [uid : 1..(uid - 1), kind : Kinds]
<1>0. Up
  BY DEF SpeaksOrCloses, RecordUserTranscript, OpenSegment, ExtendSegment, CloseSegment
<1>1. /\ t.rows = view.rows /\ t.next = base + ClosedEnd(view) /\ t.settled = l - o
      /\ view.rows \in Seq([uid : 1..(uid - 1), kind : Kinds]) /\ Rising(view.rows)
      /\ l \in Nat /\ l <= MaxMessages /\ uid \in Nat \ {0}
      /\ base \in Nat /\ view.first \in Nat /\ o \in 0..l
      /\ view = [rows |-> view.rows, first |-> view.first, unsettled |-> o]
  BY <1>0, CurrentFields DEF NumbersFollow, Spoken
<1>2. 1..(uid - 1) \subseteq Int
  OBVIOUS
<1> HIDE DEF t, base
<1>3. ASSUME NEW kind \in Kinds, NEW open,
             open \in 0..(l + 1), l - o <= l + 1 - open,
             NEW n \in Evictions(Append(view.rows, [uid |-> uid, kind |-> kind]))
      PROVE  ComesAfter(Evict(Append(view.rows, [uid |-> uid, kind |-> kind]), open, n),
                        t, base, uid, 1..uid)
  <2> DEFINE rows == Append(view.rows, [uid |-> uid, kind |-> kind])
             uid2 == uid + 1
  <2>1. /\ rows \in Seq([uid : 1..uid, kind : Kinds]) /\ Rising(rows) /\ Len(rows) = l + 1
        /\ \A i \in 1..Len(rows) :
             IF i <= l THEN rows[i].uid = view.rows[i].uid ELSE rows[i].uid >= uid
    BY <1>1, NewRow
  <2> HIDE DEF rows
  <2>2. uid2 \in Nat /\ uid2 - 1 = uid /\ uid \in Nat
    BY <1>1
  <2> HIDE DEF uid2
  <2>3. /\ rows \in Seq([uid : 1..(uid2 - 1), kind : Kinds])
        /\ open \in 0..Len(rows) /\ Len(view.rows) - view.unsettled <= Len(rows) - open
        /\ Len(view.rows) <= Len(rows)
        /\ \A i \in 1..Len(rows) :
             IF i <= Len(view.rows) THEN rows[i].uid = view.rows[i].uid ELSE rows[i].uid >= uid
        /\ n \in Evictions(rows)
    <3>1. n \in Evictions(rows)
      BY DEF rows
    <3>2. rows \in Seq([uid : 1..(uid2 - 1), kind : Kinds])
      BY <2>1, <2>2
    <3>3. open \in 0..(l + 1) /\ l - o <= l + 1 - open /\ l <= l + 1
      BY <1>1, <1>3
    <3>4. open \in 0..Len(rows) /\ l - o <= Len(rows) - open /\ l <= Len(rows)
      <4> DEFINE m == Len(rows)
      <4>1. m = l + 1
        BY <2>1
      <4> HIDE DEF l, o, m
      <4>2. open \in 0..m /\ l - o <= m - open /\ l <= m
        <5>1. l \in Nat /\ o \in Int /\ open \in Int
          BY <1>1, <3>3 DEF l, o
        <5> QED BY ONLY <3>3, <4>1, <5>1
      <4> QED BY <4>2 DEF m
    <3> QED BY <2>1, <3>1, <3>2, <3>4
  <2>4. ComesAfter(Evict(rows, open, n), t, base, uid, 1..(uid2 - 1))
    <3> DEFINE V == 1..(uid - 1)
    <3>1. /\ V \subseteq Int /\ view.rows \in Seq([uid : V, kind : Kinds])
          /\ t.rows = view.rows /\ t.next = base + ClosedEnd(view)
          /\ t.settled = Len(view.rows) - view.unsettled
          /\ view.first \in Nat /\ view.unsettled \in 0..Len(view.rows) /\ base \in Nat
      BY <1>1
    <3> HIDE DEF V
    <3> QED BY ONLY <2>1, <2>2, <2>3, <3>1, EvictedView
  <2> QED BY <2>2, <2>4 DEF rows
<1>4. ASSUME NEW kind \in {"user", "invalid"}, RecordUserTranscript(kind)
      PROVE  /\ StoreFrame /\ nextUid' = uid + 1
             /\ \E next : /\ Update(next)
                      /\ next = [rows |-> next.rows, first |-> next.first,
                                 unsettled |-> next.unsettled]
                      /\ ComesAfter(next, t, base, uid, 1..uid)
  <2> DEFINE rows == Append(view.rows, [uid |-> uid, kind |-> kind])
             open == IF view.unsettled > 0 THEN view.unsettled + 1 ELSE 0
  <2>1. StoreFrame /\ nextUid' = uid + 1 /\ \E n \in Evictions(rows) : Update(Evict(rows, open, n))
    BY <1>4 DEF RecordUserTranscript
  <2>2. PICK n \in Evictions(rows) : Update(Evict(rows, open, n))
    BY <2>1
  <2>3. open \in 0..(l + 1) /\ l - o <= l + 1 - open /\ kind \in Kinds
    <3>1. kind \in Kinds
      BY DEF Kinds
    <3>2. l \in Nat /\ o \in 0..l
      BY <1>1
    <3> HIDE DEF l
    <3>3. open \in 0..(l + 1) /\ l - o <= l + 1 - open
      BY <3>2
    <3> QED BY <3>1, <3>3
  <2> HIDE DEF open
  <2>4. ComesAfter(Evict(rows, open, n), t, base, uid, 1..uid)
    BY <1>3, <2>3
  <2>5. Evict(rows, open, n) = [rows |-> Evict(rows, open, n).rows,
          first |-> Evict(rows, open, n).first, unsettled |-> Evict(rows, open, n).unsettled]
    BY DEF Evict
  <2> HIDE DEF rows
  <2> QED BY <2>1, <2>2, <2>4, <2>5
<1>5. ASSUME OpenSegment
      PROVE  /\ StoreFrame /\ nextUid' = uid + 1
             /\ \E next : /\ Update(next)
                      /\ next = [rows |-> next.rows, first |-> next.first,
                                 unsettled |-> next.unsettled]
                      /\ ComesAfter(next, t, base, uid, 1..uid)
  <2> DEFINE rows == Append(view.rows, [uid |-> uid, kind |-> "assistant"])
  <2>1. StoreFrame /\ nextUid' = uid + 1 /\ \E n \in Evictions(rows) : Update(Evict(rows, 1, n))
    BY <1>5 DEF OpenSegment
  <2>2. PICK n \in Evictions(rows) : Update(Evict(rows, 1, n))
    BY <2>1
  <2>3. 1 \in 0..(l + 1) /\ l - o <= l + 1 - 1 /\ "assistant" \in Kinds
    <3>2. l \in Nat /\ o \in 0..l
      BY <1>1
    <3> HIDE DEF l, o
    <3> QED BY <3>2 DEF Kinds
  <2>4. ComesAfter(Evict(rows, 1, n), t, base, uid, 1..uid)
    BY <1>3, <2>3
  <2>5. Evict(rows, 1, n) = [rows |-> Evict(rows, 1, n).rows,
          first |-> Evict(rows, 1, n).first, unsettled |-> Evict(rows, 1, n).unsettled]
    BY DEF Evict
  <2> HIDE DEF rows
  <2> QED BY <2>1, <2>2, <2>4, <2>5
<1>6. ASSUME ExtendSegment
      PROVE  /\ StoreFrame /\ nextUid' = uid
             /\ \E next : /\ Update(next)
                      /\ next = [rows |-> next.rows, first |-> next.first,
                                 unsettled |-> next.unsettled]
                      /\ ComesAfter(next, t, base, uid, 1..(uid - 1))
  <2> DEFINE rows == view.rows
  <2>1. /\ StoreFrame /\ nextUid' = uid /\ o = 1
        /\ \E n \in Evictions(rows) : Update(Evict(rows, 1, n))
    BY <1>6 DEF ExtendSegment
  <2>2. PICK n \in Evictions(rows) : Update(Evict(rows, 1, n))
    BY <2>1
  <2>3. /\ rows \in Seq([uid : 1..(uid - 1), kind : Kinds]) /\ Rising(rows)
        /\ 1 \in 0..Len(rows) /\ Len(view.rows) - view.unsettled <= Len(rows) - 1
        /\ Len(view.rows) <= Len(rows) /\ uid \in Nat
        /\ \A i \in 1..Len(rows) :
             IF i <= Len(view.rows) THEN rows[i].uid = view.rows[i].uid ELSE rows[i].uid >= uid
    BY <1>1, <2>1
  <2>4. ComesAfter(Evict(rows, 1, n), t, base, uid, 1..(uid - 1))
    <3> DEFINE V == 1..(uid - 1)
    <3>1. /\ V \subseteq Int /\ view.rows \in Seq([uid : V, kind : Kinds])
          /\ t.rows = view.rows /\ t.next = base + ClosedEnd(view)
          /\ t.settled = Len(view.rows) - view.unsettled
          /\ view.first \in Nat /\ view.unsettled \in 0..Len(view.rows) /\ base \in Nat
      BY <1>1
    <3>2. n \in Evictions(rows)
      OBVIOUS
    <3> HIDE DEF V, rows
    <3> QED BY ONLY <2>3, <3>1, <3>2, EvictedView
  <2>5. Evict(rows, 1, n) = [rows |-> Evict(rows, 1, n).rows,
          first |-> Evict(rows, 1, n).first, unsettled |-> Evict(rows, 1, n).unsettled]
    BY DEF Evict
  <2> QED BY <2>1, <2>2, <2>4, <2>5
<1>7. ASSUME CloseSegment
      PROVE  /\ StoreFrame /\ nextUid' = uid
             /\ \E next : /\ Update(next)
                      /\ next = [rows |-> next.rows, first |-> next.first,
                                 unsettled |-> next.unsettled]
                      /\ ComesAfter(next, t, base, uid, 1..(uid - 1))
  <2> DEFINE next == [rows |-> view.rows, first |-> view.first, unsettled |-> 0]
             rows == view.rows
             v == view
  <2>1. StoreFrame /\ nextUid' = uid /\ Update([view EXCEPT !.unsettled = 0])
    BY <1>7 DEF CloseSegment
  <2>2. [view EXCEPT !.unsettled = 0] = next
    <3> DEFINE r == view.rows  f == view.first
    <3>1. view = [rows |-> r, first |-> f, unsettled |-> o]
      BY <1>1
    <3> HIDE DEF r, f, o
    <3>2. [view EXCEPT !.unsettled = 0] = [rows |-> r, first |-> f, unsettled |-> 0]
      BY <3>1
    <3> QED BY <3>2 DEF r, f
  <2>3. next.rows = rows /\ next.first = view.first /\ next.unsettled = 0
    OBVIOUS
  <2>4. next = [rows |-> next.rows, first |-> next.first, unsettled |-> next.unsettled]
    OBVIOUS
  <2> DEFINE V == 1..(uid - 1)
  <2>6. /\ V \subseteq Int /\ v.rows \in Seq([uid : V, kind : Kinds]) /\ uid \in Nat
        /\ t.rows = v.rows /\ t.next = base + ClosedEnd(v)
        /\ t.settled = Len(v.rows) - v.unsettled
        /\ v.first \in Nat /\ v.unsettled \in 0..Len(v.rows) /\ base \in Nat
        /\ rows = v.rows /\ Rising(rows) /\ l \in Nat /\ Len(rows) = l
        /\ Len(rows) <= MaxMessages /\ Len(v.rows) = l
    BY <1>1
  <2> HIDE DEF next, rows, v, V
  <2>7. /\ 0 \in 0..Len(rows) /\ next.first = v.first + 0
        /\ Len(next.rows) = Len(rows) - 0 /\ Len(next.rows) <= MaxMessages
        /\ \A j \in 1..Len(next.rows) : next.rows[j] = rows[0 + j]
        /\ next.unsettled \in 0..Len(next.rows)
        /\ Len(v.rows) <= Len(rows)
        /\ next.rows \in Seq([uid : V, kind : Kinds])
        /\ \A i \in 1..Len(rows) :
             IF i <= Len(v.rows) THEN rows[i].uid = v.rows[i].uid ELSE rows[i].uid >= uid
    BY <2>3, <2>6 DEF v
  <2>8. Len(v.rows) - v.unsettled <= Len(rows) - next.unsettled
    <3> HIDE DEF l
    <3>1. v.unsettled \in 0..l /\ next.unsettled = 0
      BY <2>3, <2>6
    <3> QED BY <2>6, <3>1
  <2>9. ComesAfter(next, t, base, uid, 1..(uid - 1))
    BY <2>6, <2>7, <2>8, LaterView DEF V
  <2> QED BY <2>1, <2>2, <2>4, <2>9
<1>8. nextUid' \in {uid, uid + 1}
  BY <1>4, <1>5, <1>6, <1>7 DEF SpeaksOrCloses
<1>9. nextUid' \in Nat \ {0} /\ nextUid <= nextUid' /\ (nextUid' = uid + 1 => nextUid' - 1 = uid)
  BY <1>1, <1>8
<1>10. StoreFrame /\ \E next : /\ Update(next)
                      /\ next = [rows |-> next.rows, first |-> next.first,
                                 unsettled |-> next.unsettled]
                      /\ ComesAfter(next, t, base, uid, 1..(nextUid' - 1))
  <2>1. CASE \E kind \in {"user", "invalid"} : RecordUserTranscript(kind)
    BY <1>4, <1>9, <2>1
  <2>2. CASE OpenSegment
    BY <1>5, <1>9, <2>2
  <2>3. CASE ExtendSegment
    BY <1>6, <2>3
  <2>4. CASE CloseSegment
    BY <1>7, <2>4
  <2> QED BY <2>1, <2>2, <2>3, <2>4 DEF SpeaksOrCloses
<1> QED BY <1>0, <1>9, <1>10 DEF t, base

-----------------------------------------------------------------------------
(* What Open restores.                                                     *)

(* The rows of a tail, restored, come after it: those it had numbered keep *)
(* their numbers, and the rest close.                                      *)
LEMMA RestoredComesAfter ==
  ASSUME NEW uid \in Nat, NEW batches, NEW t, TailSound(t, 1..(uid - 1), batches)
  PROVE  /\ ComesAfter(Restored(t.rows), t, t.next - t.settled, uid, 1..(uid - 1))
         /\ ClosedEnd(Restored(t.rows)) = Len(t.rows)
         /\ Len(t.rows) \in Nat /\ t.settled \in 0..Len(t.rows) /\ t.next - t.settled \in Nat
<1> DEFINE v == [rows |-> t.rows, first |-> 0, unsettled |-> Len(t.rows) - t.settled]
           next == Restored(t.rows)
           U == 1..(uid - 1)
           rows == t.rows
           base == t.next - t.settled
           l == Len(t.rows)
<1>1. /\ rows \in Seq([uid : U, kind : Kinds]) /\ Rising(rows) /\ l <= MaxMessages
      /\ t.settled \in Nat /\ t.next \in Nat /\ t.settled <= l /\ t.settled <= t.next
  BY DEF TailSound, TailTyped, TailRising, Parses
<1>2. U \subseteq Int
  OBVIOUS
<1>3. l \in Nat
  <2> HIDE DEF U
  <2> QED BY <1>1, <1>2, RowsTyped
<1>4. /\ v.rows = rows /\ v.first = 0 /\ v.unsettled = l - t.settled
      /\ next.rows = rows /\ next.first = 0 /\ next.unsettled = 0
  BY DEF Restored
<1> HIDE DEF v, next, U, rows, l
<1>5. ClosedEnd(v) = t.settled /\ ClosedEnd(next) = l
  <2>1. ClosedEnd(v) = 0 + l - (l - t.settled) /\ ClosedEnd(next) = 0 + l - 0
    BY <1>4 DEF ClosedEnd, rows, l
  <2> QED BY <1>1, <1>3, <2>1
<1>6. /\ base \in Nat /\ t.next = base + ClosedEnd(v) /\ t.settled = l - v.unsettled
      /\ v.unsettled \in 0..l /\ t.settled \in 0..l
  BY <1>1, <1>3, <1>4, <1>5
<1> HIDE DEF base
<1>7. /\ Len(v.rows) = l /\ Len(rows) = l /\ Len(next.rows) = l /\ t.rows = rows
  BY <1>4 DEF rows, l
<1>8. ComesAfter(next, t, base, uid, U)
  <2>1. /\ t.rows = v.rows /\ t.settled = Len(v.rows) - v.unsettled
        /\ v.rows \in Seq([uid : U, kind : Kinds])
        /\ v.first \in Nat /\ v.unsettled \in 0..Len(v.rows)
        /\ next.rows \in Seq([uid : U, kind : Kinds])
    BY <1>1, <1>4, <1>6, <1>7
  <2>2. /\ 0 \in 0..Len(rows) /\ next.first = v.first + 0 /\ Len(next.rows) = Len(rows) - 0
        /\ Len(v.rows) <= Len(rows) /\ Len(next.rows) <= MaxMessages
        /\ \A j \in 1..Len(next.rows) : next.rows[j] = rows[0 + j]
        /\ \A i \in 1..Len(rows) :
             IF i <= Len(v.rows) THEN rows[i].uid = v.rows[i].uid ELSE rows[i].uid >= uid
    BY <1>1, <1>3, <1>4, <1>7
  <2>3. /\ next.unsettled \in 0..Len(next.rows)
        /\ Len(v.rows) - v.unsettled <= Len(rows) - next.unsettled
    BY <1>1, <1>3, <1>4, <1>6, <1>7
  <2>4. /\ uid \in Nat /\ U \subseteq Int /\ rows \in Seq([uid : 1..(uid - 1), kind : Kinds])
        /\ next.rows \in Seq([uid : 1..(uid - 1), kind : Kinds]) /\ Rising(rows)
        /\ base \in Nat /\ t.next = base + ClosedEnd(v)
    BY <1>1, <1>2, <1>6, <2>1 DEF U
  <2>5. ComesAfter(next, t, base, uid, 1..(uid - 1))
    BY ONLY <2>1, <2>2, <2>3, <2>4, LaterView
  <2> QED BY <2>5 DEF U
<1> QED BY <1>3, <1>5, <1>6, <1>8 DEF next, U, base, l

(* What an open that restores the tail t leaves in memory.                 *)
Resumes(t) ==
  /\ binding' = t.binding /\ cursor' = t.cursor /\ flight' = t.flight
  /\ view' = Restored(t.rows)
  /\ queue' = Numbered(t, t.next - t.settled, Restored(t.rows))
  /\ seqs' = Advance([base |-> t.next - t.settled, next |-> t.next], Restored(t.rows))

(* A restored tail is sound as the tail of memory, and numbers its rows    *)
(* where the file left off.                                                *)
LEMMA ResumedIsSound ==
  ASSUME NEW uid \in Nat, NEW batches,
         \A b \in batches : b.rows \in Seq(OutboxRows(1..(uid - 1))) /\ b.rows # <<>>,
         NEW t, TailSound(t, 1..(uid - 1), batches), Resumes(t)
  PROVE  /\ CurrentTail' = NumberedTail(t, t.next - t.settled, Restored(t.rows))
         /\ TailSound(CurrentTail', 1..(uid - 1), batches) /\ NumbersFollow'
<1> DEFINE next == Restored(t.rows)
           base == t.next - t.settled
           l == Len(t.rows)
           n == NumberedTail(t, base, next)
           q == Numbered(t, base, next)
<1>1. /\ ComesAfter(next, t, base, uid, 1..(uid - 1)) /\ ClosedEnd(next) = l
      /\ l \in Nat /\ t.settled \in 0..l /\ base \in Nat /\ t.next \in Nat
  BY RestoredComesAfter DEF TailSound, TailTyped
<1>2. TailSound(n, 1..(uid - 1), batches) /\ q = [unsent |-> q.unsent, gap |-> q.gap]
  <2> DEFINE uid2 == uid
             old == batches
             tail == t
  <2>1. /\ uid2 \in Nat /\ uid \in Nat /\ uid <= uid2
        /\ TailSound(tail, 1..(uid - 1), old)
        /\ ComesAfter(next, tail, base, uid, 1..(uid2 - 1))
        /\ \A b \in old : b.rows \in Seq(OutboxRows(1..(uid - 1))) /\ b.rows # <<>>
    BY <1>1
  <2> HIDE DEF next, base, n, q, uid2, old, tail
  <2>2. /\ TailSound(NumberedTail(tail, base, next), 1..(uid2 - 1), old)
        /\ Numbered(tail, base, next) = [unsent |-> Numbered(tail, base, next).unsent,
                                      gap |-> Numbered(tail, base, next).gap]
    BY ONLY <2>1, NumberedIsSound
  <2> QED BY <2>2 DEF n, q, uid2, old, tail
<1>3. next = [rows |-> t.rows, first |-> 0, unsettled |-> 0]
      /\ next.rows = t.rows /\ next.first = 0 /\ next.unsettled = 0
  BY DEF Restored
<1>4. seqs' = [base |-> base, next |-> base + l] /\ seqs'.base = base /\ seqs'.next = base + l
  <2> DEFINE y == t.next
  <2>1. seqs' = [base |-> base, next |-> Max({y, base + ClosedEnd(next)})]
    <3> DEFINE s == [base |-> base, next |-> y]
    <3>1. seqs' = [s EXCEPT !.next = Max({s.next, s.base + ClosedEnd(next)})]
      BY DEF Resumes, Advance
    <3>2. s.next = y /\ s.base = base
      OBVIOUS
    <3> HIDE DEF base, y, next
    <3> QED BY <3>1, <3>2
  <2>2. y <= base + l /\ y \in Int /\ base + l \in Int
    BY <1>1
  <2> DEFINE x == base + l
  <2> HIDE DEF x, y, l, next, base
  <2>3. Max({y, x}) = IF y >= x THEN y ELSE x
    BY <2>2, MaxOfTwo DEF x
  <2>4. Max({y, x}) = x
    BY <2>2, <2>3 DEF x
  <2>5. seqs' = [base |-> base, next |-> x]
    BY <1>1, <2>1, <2>4 DEF x
  <2> QED BY <2>5 DEF x
<1>5. Settled(seqs', view') = l
  <2> DEFINE s == [base |-> base, next |-> base + l]
  <2>1. s.base = base /\ s.next = base + l
    OBVIOUS
  <2> HIDE DEF s, base, next
  <2>2. Settled(s, next) = Len(next.rows) - next.unsettled
    <3>1. s.next = s.base + ClosedEnd(next) /\ s.base \in Nat
      BY <1>1, <2>1
    <3>2. next.first \in Nat /\ Len(next.rows) \in Nat /\ next.unsettled \in 0..Len(next.rows)
      BY <1>1, <1>3
    <3> QED BY <3>1, <3>2, SettledRows
  <2>3. view' = next
    BY DEF Resumes, next
  <2> QED BY <1>1, <1>3, <1>4, <2>2, <2>3 DEF s
<1>6. CurrentTail' = n
  <2>1. CurrentTail' = [kind |-> "archive", binding |-> t.binding, next |-> seqs'.next,
                        settled |-> Settled(seqs', view'), cursor |-> t.cursor,
                        flight |-> t.flight, unsent |-> queue'.unsent, gap |-> queue'.gap,
                        rows |-> view'.rows, forget |-> NoBinding]
    BY DEF CurrentTail, Resumes
  <2>2. queue' = q /\ view' = next /\ seqs'.next = base + ClosedEnd(next)
        /\ Settled(seqs', view') = Len(next.rows) - next.unsettled
    BY <1>1, <1>3, <1>4, <1>5 DEF Resumes
  <2> HIDE DEF base, next, q
  <2> QED BY <2>1, <2>2 DEF NumberedTail, q
<1>7. NumbersFollow'
  <2>1. queue' = q /\ view' = next
    BY DEF Resumes
  <2> HIDE DEF base, next, q, l
  <2>2. /\ seqs' = [base |-> seqs'.base, next |-> seqs'.base + ClosedEnd(view')]
        /\ seqs'.base \in Nat
    BY <1>1, <1>4, <2>1
  <2>3. queue' = [unsent |-> queue'.unsent, gap |-> queue'.gap]
    BY <1>2, <2>1
  <2>4. /\ view'.first \in Nat /\ view'.unsettled \in 0..Len(view'.rows)
        /\ view' = [rows |-> view'.rows, first |-> view'.first, unsettled |-> view'.unsettled]
    BY <1>1, <1>3, <2>1 DEF l
  <2> QED BY <2>2, <2>3, <2>4 DEF NumbersFollow
<1> QED BY <1>2, <1>6, <1>7 DEF n, base, next

(* What a retired conversation leaves in memory: nothing of it.            *)
Empties ==
  /\ seqs' = [base |-> 0, next |-> 0] /\ cursor' = None /\ flight' = <<>>
  /\ queue' = EmptyQueue /\ view' = EmptyView

(* Memory that was emptied is the tail of a fresh conversation.            *)
LEMMA EmptiedIsSound ==
  ASSUME NEW uids, uids \subseteq Int, NEW batches, Empties,
         \A batch \in batches : batch.binding # binding'
  PROVE  /\ CurrentTail' = FreshTail(binding', <<>>, NoBinding)
         /\ TailSound(CurrentTail', uids, batches) /\ NumbersFollow'
<1>1. /\ ClosedEnd(EmptyView) = 0 /\ Len(EmptyView.rows) = 0 /\ EmptyView.unsettled = 0
      /\ EmptyView.rows = <<>> /\ EmptyView.first = 0
  BY DEF ClosedEnd, EmptyView
<1>2. Settled(seqs', view') = 0
  <2> DEFINE s == [base |-> 0, next |-> 0]
  <2>1. s.base = 0 /\ s.next = 0
    OBVIOUS
  <2> HIDE DEF s
  <2>2. Settled(s, EmptyView) = Len(EmptyView.rows) - EmptyView.unsettled
    BY <1>1, <2>1, SettledRows
  <2> QED BY <1>1, <2>2 DEF Empties, s
<1>3. CurrentTail' = FreshTail(binding', <<>>, NoBinding)
  <2>1. /\ seqs'.next = 0 /\ queue'.unsent = <<>> /\ queue'.gap = NoGap /\ view'.rows = <<>>
    BY <1>1 DEF Empties, EmptyQueue
  <2> QED BY <1>2, <2>1 DEF CurrentTail, FreshTail, Empties
<1>4. TailSound(FreshTail(binding', <<>>, NoBinding), uids, batches)
  <2>1. Rising(<<>>) /\ <<>> \in Seq([uid : uids, kind : Kinds]) /\ Len(<<>>) <= MaxMessages
    BY VoiceTailAssumption DEF Rising
  <2> DEFINE b == binding'
             rows == <<>>
             forget == NoBinding
  <2>2. /\ rows \in Seq([uid : uids, kind : Kinds]) /\ Rising(rows) /\ Len(rows) <= MaxMessages
        /\ \A batch \in batches : batch.binding # b
        /\ forget # NoBinding => b.gen > forget.gen /\ b.id # forget.id
    BY <2>1
  <2> HIDE DEF b, rows, forget
  <2> QED BY <2>2, FreshIsSound DEF b, rows, forget
<1>5. NumbersFollow'
  BY <1>1 DEF NumbersFollow, Empties, EmptyQueue, EmptyView
<1> QED BY <1>3, <1>4, <1>5

(* The rows of a version-1 tail are a fresh conversation's.                *)
LEMMA LegacySound ==
  ASSUME RowsInductive, diskTail.kind = "legacy", NEW b, \A batch \in offered : batch.binding # b
  PROVE  TailSound(FreshTail(b, diskTail.rows, NoBinding), Spoken, offered)
<1>1. diskTail.rows = LegacyRows /\ 1 \in Spoken /\ Spoken \subseteq Int
  BY DEF RowsInductive, InitialTail, Spoken
<1>2. LegacyRows \in Seq([uid : Spoken, kind : Kinds]) /\ Len(LegacyRows) = 1
  BY <1>1 DEF LegacyRows, Kinds
<1>3. Rising(LegacyRows) /\ Len(LegacyRows) <= MaxMessages
  BY <1>2, VoiceTailAssumption DEF Rising
<1> DEFINE uids == Spoken
           batches == offered
           rows == diskTail.rows
           forget == NoBinding
<1>4. /\ uids \subseteq Int /\ rows \in Seq([uid : uids, kind : Kinds]) /\ Rising(rows)
      /\ Len(rows) <= MaxMessages /\ \A batch \in batches : batch.binding # b
      /\ forget # NoBinding => b.gen > forget.gen /\ b.id # forget.id
  BY <1>1, <1>2, <1>3
<1> HIDE DEF uids, batches, rows, forget
<1>5. TailSound(FreshTail(b, rows, forget), uids, batches)
  BY ONLY <1>4, FreshIsSound
<1> QED BY <1>5 DEF uids, batches, rows, forget

(* The three ways Open begins: it restores a tail, or nothing.             *)
OpensLegacy ==
  /\ diskTail.kind = "legacy" /\ ~Unproven(diskTail)
  /\ Resumes(FreshTail(binding', diskTail.rows, NoBinding))
  /\ binding'.id = nextId
  /\ exposed' = IF diskDeletes.readable THEN exposed ELSE exposed \union recorded

OpensArchive ==
  /\ diskTail.kind = "archive" /\ ~Unproven(diskTail) /\ Resumes(diskTail)
  /\ exposed' = exposed

OpensEmpty == Empties /\ binding'.id = nextId /\ exposed' = exposed

(* Every open starts with no row, or with those of the file.               *)
LEMMA OpenRows ==
  ASSUME RowsInductive, KnownIds, Open
  PROVE  /\ UNCHANGED <<nextUid, offered>>
         /\ TailSound(CurrentTail', Spoken, offered) /\ NumbersFollow'
         /\ OpensEmpty \/ OpensLegacy \/ OpensArchive
<1>1. ASSUME NEW b, b.id = nextId, NEW batch \in offered PROVE batch.binding # b
  <2>1. batch.binding.id \in Known /\ nextId \in Nat
    BY DEF KnownIds
  <2>2. nextId \notin Known
    BY <2>1 DEF Known
  <2> QED BY <1>1, <2>1, <2>2
<1>2. ASSUME NEW d, NEW gen, NEW previous, Retire(d, NewBinding(gen, d, previous)),
             view' = EmptyView
      PROVE  Empties /\ binding'.id = nextId
  BY <1>2, FreshBinding DEF Retire, Empties
<1>4. OpenFresh \/ OpenRetired \/ OpenRefused => OpensEmpty
  <2>1. CASE OpenFresh
    BY <1>2, <2>1 DEF OpenFresh, OpensEmpty
  <2>2. CASE OpenRetired
    BY <1>2, <2>2 DEF OpenRetired, OpensEmpty
  <2>3. CASE OpenRefused
    <3>1. PICK d, gen, previous : Retire(d, NewBinding(gen, d, previous))
      BY <2>3, Zenon DEF OpenRefused
    <3>2. view' = EmptyView /\ exposed' = exposed
      BY <2>3 DEF OpenRefused
    <3> QED BY <1>2, <3>1, <3>2 DEF OpensEmpty
  <2> QED BY <2>1, <2>2, <2>3
<1>5. OpenLegacy => OpensLegacy
  <2> SUFFICES ASSUME OpenLegacy PROVE OpensLegacy
    OBVIOUS
  <2> DEFINE next == Restored(diskTail.rows)
             t == FreshTail(binding', diskTail.rows, NoBinding)
  <2>1. /\ binding' = NewBinding(0, RecordRead, NoBinding)
        /\ cursor' = None /\ flight' = <<>> /\ view' = next
        /\ queue' = Assign(EmptyQueue, 0, [base |-> 0, next |-> 0], next)
        /\ seqs' = Advance([base |-> 0, next |-> 0], next)
        /\ diskTail.kind = "legacy" /\ ~Unproven(diskTail)
        /\ exposed' = IF diskDeletes.readable THEN exposed ELSE exposed \union recorded
    BY DEF OpenLegacy
  <2>2. /\ t.binding = binding' /\ t.cursor = None /\ t.flight = <<>> /\ t.rows = diskTail.rows
        /\ t.next = 0 /\ t.settled = 0 /\ t.unsent = <<>> /\ t.gap = NoGap
    BY DEF FreshTail
  <2>3. t.next - t.settled = 0 /\ Len(t.flight) = 0 /\ EmptyQueue = [unsent |-> t.unsent, gap |-> t.gap]
    BY <2>2 DEF EmptyQueue
  <2> HIDE DEF t
  <2>4. queue' = Numbered(t, t.next - t.settled, Restored(t.rows))
    BY <2>1, <2>2, <2>3 DEF Numbered
  <2>5. Resumes(t)
    BY <2>1, <2>2, <2>3, <2>4 DEF Resumes
  <2> QED BY <2>1, <2>5, FreshBinding DEF OpensLegacy, t
<1>6. OpenArchive => OpensArchive
  <2> SUFFICES ASSUME OpenArchive PROVE OpensArchive
    OBVIOUS
  <2> DEFINE t == diskTail
  <2>1. /\ binding' = t.binding /\ cursor' = t.cursor /\ flight' = t.flight
        /\ view' = Restored(t.rows)
        /\ queue' = Assign([unsent |-> t.unsent, gap |-> t.gap], Len(t.flight),
                           [base |-> t.next - t.settled, next |-> t.next], Restored(t.rows))
        /\ seqs' = Advance([base |-> t.next - t.settled, next |-> t.next], Restored(t.rows))
        /\ t.kind = "archive" /\ ~Unproven(t) /\ exposed' = exposed
    BY DEF OpenArchive
  <2> HIDE DEF t
  <2>2. Resumes(t)
    BY <2>1 DEF Resumes, Numbered
  <2> QED BY <2>1, <2>2 DEF OpensArchive, t
<1>7. UNCHANGED <<nextUid, offered>>
  BY DEF Open, OpenFresh, OpenRetired, OpenLegacy, OpenArchive, OpenRefused, Opened
<1>8. /\ nextUid \in Nat \ {0} /\ Spoken = 1..(nextUid - 1) /\ Spoken \subseteq Int
      /\ \A b \in offered : b.rows \in Seq(OutboxRows(1..(nextUid - 1))) /\ b.rows # <<>>
  BY DEF RowsInductive, Spoken
<1>9. ASSUME NEW t, TailSound(t, Spoken, offered), Resumes(t)
      PROVE  TailSound(CurrentTail', Spoken, offered) /\ NumbersFollow'
  <2> DEFINE uid == nextUid
             batches == offered
             tail == t
  <2>1. /\ uid \in Nat /\ \A b \in batches : b.rows \in Seq(OutboxRows(1..(uid - 1))) /\ b.rows # <<>>
        /\ TailSound(tail, 1..(uid - 1), batches) /\ Resumes(tail)
    BY <1>8, <1>9
  <2> HIDE DEF uid, batches, tail
  <2>2. TailSound(CurrentTail', 1..(uid - 1), batches) /\ NumbersFollow'
    BY <2>1, ResumedIsSound
  <2> QED BY <2>2, <1>8 DEF uid, batches
<1>10. CASE OpenFresh \/ OpenRetired \/ OpenRefused
  <2>1. /\ OpensEmpty /\ Empties
        /\ \A batch \in offered : batch.binding # binding'
    BY <1>1, <1>4, <1>10 DEF OpensEmpty
  <2>2. TailSound(CurrentTail', Spoken, offered) /\ NumbersFollow'
    BY <1>8, <2>1, EmptiedIsSound
  <2> QED BY <1>7, <2>1, <2>2
<1>11. CASE OpenLegacy
  <2>1. OpensLegacy /\ \A batch \in offered : batch.binding # binding'
    BY <1>1, <1>5, <1>11 DEF OpensLegacy
  <2>2. TailSound(FreshTail(binding', diskTail.rows, NoBinding), Spoken, offered)
    BY <2>1, LegacySound DEF OpensLegacy
  <2> QED BY <1>7, <1>9, <2>1, <2>2 DEF OpensLegacy
<1>12. CASE OpenArchive
  <2>1. OpensArchive
    BY <1>6, <1>12
  <2>2. TailSound(diskTail, Spoken, offered)
    BY <2>1 DEF RowsInductive, OpensArchive
  <2> QED BY <1>7, <1>9, <2>1, <2>2 DEF OpensArchive
<1> QED BY <1>10, <1>11, <1>12 DEF Open

-----------------------------------------------------------------------------
(* The batches.                                                            *)

(* The batch that is handed out begins where the last one ended, and every *)
(* other batch of its conversation is behind it.                           *)
LEMMA BatchContinues ==
  ASSUME Inductive, RowsInductive, NextBatch
  PROVE  /\ \/ SeqFrom(Batch) = 0
            \/ \E c \in offered : c.binding = Batch.binding /\ SeqThrough(c) + 1 = SeqFrom(Batch)
         /\ \A c \in offered :
              \/ c.binding # Batch.binding \/ c = Batch
              \/ SeqThrough(c) < SeqFrom(Batch) /\ Last(c.rows).uid < Head(Batch.rows).uid
<1> DEFINE t == CurrentTail
           e == Acked(cursor)
<1>1. /\ Up /\ flight # <<>>
  BY DEF NextBatch
<1>2. /\ TailSound(t, Spoken, offered) /\ t.binding = binding /\ t.cursor = cursor
      /\ t.flight = flight /\ t.unsent = queue.unsent /\ Spoken \subseteq Int
  BY <1>1, CurrentFields
<1>3. flight \in Seq(OutboxRows(Spoken)) /\ queue.unsent \in Seq(OutboxRows(Spoken))
  BY <1>2 DEF TailSound, TailTyped
<1>4. e \in Int /\ Chained(e, flight)
  <2> HIDE DEF t
  <2> QED BY <1>2, TailParts
<1>5. /\ TailOffers(t, offered) /\ Batch.rows = flight /\ Batch.binding = binding
      /\ Head(flight) = flight[1] /\ 1 \in 1..Len(flight)
  BY <1>1, <1>2, <1>3 DEF TailSound, Batch
<1>6. SeqFrom(Batch) = e + 1
  <2>1. Follows(EndBefore(e, flight, 0), flight[1])
    BY <1>4, <1>5 DEF Chained
  <2> QED BY <1>5, <2>1 DEF Follows, EndBefore, SeqFrom
<1>7. CASE cursor = None
  <2>1. e = -1
    BY <1>7 DEF Acked
  <2>2. SeqFrom(Batch) = 0
    BY <1>6, <2>1
  <2>3. ASSUME NEW c \in offered, c.binding = Batch.binding PROVE c = Batch
    <3>1. c.rows = flight
      <4> HIDE DEF t
      <4> QED BY <1>2, <1>5, <1>7, <2>3 DEF TailOffers, BehindCursor
    <3>2. c = [binding |-> c.binding, rows |-> c.rows]
      BY DEF Inductive, RecordShapes
    <3> QED BY <1>5, <2>3, <3>1, <3>2 DEF Batch
  <2> QED BY <2>2, <2>3
<1>8. CASE cursor # None
  <2>1. e = cursor[1]
    BY <1>8 DEF Acked
  <2>2. \E c \in offered : c.binding = Batch.binding /\ SeqThrough(c) + 1 = SeqFrom(Batch)
    <3>1. PICK c \in offered : c.binding = binding /\ SeqThrough(c) = cursor[1]
      <4> HIDE DEF t
      <4> QED BY <1>2, <1>5, <1>8 DEF TailOffers
    <3> QED BY <1>5, <1>6, <2>1, <3>1
  <2>3. ASSUME NEW c \in offered, c.binding = Batch.binding, c # Batch
        PROVE  SeqThrough(c) < SeqFrom(Batch) /\ Last(c.rows).uid < Head(Batch.rows).uid
    <3>1. c.rows # flight
      <4>1. c = [binding |-> c.binding, rows |-> c.rows]
        BY DEF Inductive, RecordShapes
      <4> QED BY <1>5, <2>3, <4>1 DEF Batch
    <3>2. BehindCursor(c, t)
      <4> HIDE DEF t
      <4> QED BY <1>2, <1>5, <2>3, <3>1 DEF TailOffers
    <3> DEFINE k == Last(c.rows).uid
               n == SeqThrough(c)
    <3>3. n <= e /\ SpokenAfter(flight \o queue.unsent, k)
      <4> HIDE DEF t
      <4> QED BY <1>2, <2>1, <3>2 DEF BehindCursor
    <3>4. n \in Int /\ k \in Int
      <4>1. c.rows \in Seq(OutboxRows(Spoken)) /\ c.rows # <<>>
        BY DEF RowsInductive
      <4>2. Len(c.rows) \in 1..Len(c.rows)
        BY <4>1
      <4>3. c.rows[Len(c.rows)].seq \in Int /\ c.rows[Len(c.rows)].uid \in Spoken
        BY <4>1, <4>2, QueueFields
      <4> QED BY <1>2, <4>3 DEF SeqThrough, Last
    <3> HIDE DEF k, n
    <3>5. SpokenAfter(flight, k)
      BY <1>2, <1>3, <3>3, ConcatRises
    <3>6. flight[1].uid > k /\ flight[1].uid \in Int
      <4>1. flight[1].uid \in Spoken
        BY <1>3, <1>5, QueueFields
      <4> QED BY <1>2, <1>5, <3>5, <4>1 DEF SpokenAfter
    <3>7. n < e + 1
      BY <1>4, <3>3, <3>4
    <3>8. k < flight[1].uid
      <4> DEFINE x == flight[1].uid
      <4>1. x > k /\ x \in Int
        BY <3>6
      <4> HIDE DEF x
      <4>2. k < x
        BY <3>4, <4>1
      <4> QED BY <4>2 DEF x
    <3> QED BY <1>5, <1>6, <3>7, <3>8 DEF k, n
  <2> QED BY <2>2, <2>3
<1> QED BY <1>7, <1>8

(* To hand out a batch keeps OfferedOnce.                                  *)
LEMMA OfferedOnceStep ==
  ASSUME Inductive, RowsInductive, NextBatch
  PROVE  OfferedOnce'
<1> DEFINE x == Batch
           O == offered
<1>1. offered' = O \union {x} /\ O = offered
  BY DEF NextBatch
<1>2. /\ \/ SeqFrom(x) = 0
         \/ \E c \in O : c.binding = x.binding /\ SeqThrough(c) + 1 = SeqFrom(x)
      /\ \A c \in O :
           \/ c.binding # x.binding \/ c = x
           \/ SeqThrough(c) < SeqFrom(x) /\ Last(c.rows).uid < Head(x.rows).uid
  BY BatchContinues
<1>3. \A b \in O :
        /\ \/ SeqFrom(b) = 0
           \/ \E c \in O : c.binding = b.binding /\ SeqThrough(c) + 1 = SeqFrom(b)
        /\ \A c \in O :
             \/ c.binding # b.binding \/ c = b
             \/ SeqThrough(b) < SeqFrom(c) /\ Last(b.rows).uid < Head(c.rows).uid
             \/ SeqThrough(c) < SeqFrom(b) /\ Last(c.rows).uid < Head(b.rows).uid
  BY DEF RowsInductive, OfferedOnce
<1> DEFINE N == O \union {x}
<1> HIDE DEF x, O
<1>4. \A b \in N :
        /\ \/ SeqFrom(b) = 0
           \/ \E c \in N : c.binding = b.binding /\ SeqThrough(c) + 1 = SeqFrom(b)
        /\ \A c \in N :
             \/ c.binding # b.binding \/ c = b
             \/ SeqThrough(b) < SeqFrom(c) /\ Last(b.rows).uid < Head(c.rows).uid
             \/ SeqThrough(c) < SeqFrom(b) /\ Last(c.rows).uid < Head(b.rows).uid
  BY ONLY <1>2, <1>3
<1> QED BY <1>1, <1>4 DEF OfferedOnce

-----------------------------------------------------------------------------
(* No step makes the rows unsound.                                         *)

(* What the files and the mirror hold is sound, for a number of rows and a *)
(* set of batches that may have grown.                                     *)
FilesSound(uid, batches) ==
  /\ uid \in Nat \ {0}
  /\ \A b \in batches : b.rows \in Seq(OutboxRows(1..(uid - 1))) /\ b.rows # <<>>
  /\ Writing => TailSound(snap.tail, 1..(uid - 1), batches)
  /\ diskTail.kind = "archive" => TailSound(diskTail, 1..(uid - 1), batches)
  /\ diskTail.kind = "legacy" =>
       diskTail = InitialTail("legacy") /\ uid > 1 /\ "legacy" \in InitialTails

(* What is said of memory.                                                 *)
MemorySound(uid, batches) ==
  IF Up THEN TailSound(CurrentTail, 1..(uid - 1), batches) /\ NumbersFollow
        ELSE view = EmptyView /\ flight = <<>> /\ queue = EmptyQueue

(* RowsInductive is what it says of the files, of memory and of the        *)
(* batches.                                                                *)
LEMMA RowsParts ==
  RowsInductive <=> FilesSound(nextUid, offered) /\ MemorySound(nextUid, offered) /\ OfferedOnce
  BY DEF RowsInductive, FilesSound, MemorySound, Spoken

(* Rows spoken later do not disturb what the files hold.                   *)
LEMMA FilesLater ==
  ASSUME NEW batches, NEW uid, NEW uid2 \in Nat \ {0}, uid <= uid2, FilesSound(uid, batches)
  PROVE  FilesSound(uid2, batches)
<1> DEFINE U == 1..(uid - 1)
           V == 1..(uid2 - 1)
<1>1. U \subseteq V /\ uid \in Nat \ {0} /\ (uid > 1 => uid2 > 1)
  BY DEF FilesSound
<1>2. ASSUME NEW t, TailSound(t, U, batches) PROVE TailSound(t, V, batches)
  <2> DEFINE old == batches
             new == batches
             tail == t
  <2>1. TailSound(tail, U, old) /\ U \subseteq V /\ old \subseteq new
        /\ \A b \in new \ old : b.binding = tail.binding => b.rows = tail.flight
    BY <1>1, <1>2
  <2> HIDE DEF U, V, old, new, tail
  <2>2. TailSound(tail, V, new)
    BY ONLY <2>1, SoundLater
  <2> QED BY <2>2 DEF tail, new
<1>3. ASSUME NEW rows \in Seq(OutboxRows(U)) PROVE rows \in Seq(OutboxRows(V))
  <2>1. \A i \in 1..Len(rows) : rows[i].uid \in V
    <3>1. \A i \in 1..Len(rows) : rows[i].uid \in U
      <4> HIDE DEF U
      <4> QED BY QueueFields
    <3> QED BY <1>1, <3>1
  <2> HIDE DEF U, V
  <2> QED BY <2>1, Retyped
<1> HIDE DEF U, V
<1>4. /\ \A b \in batches : b.rows \in Seq(OutboxRows(U)) /\ b.rows # <<>>
      /\ Writing => TailSound(snap.tail, U, batches)
      /\ diskTail.kind = "archive" => TailSound(diskTail, U, batches)
      /\ diskTail.kind = "legacy" =>
           diskTail = InitialTail("legacy") /\ uid > 1 /\ "legacy" \in InitialTails
  BY DEF FilesSound, U
<1>5. /\ \A b \in batches : b.rows \in Seq(OutboxRows(V)) /\ b.rows # <<>>
      /\ Writing => TailSound(snap.tail, V, batches)
      /\ diskTail.kind = "archive" => TailSound(diskTail, V, batches)
      /\ diskTail.kind = "legacy" =>
           diskTail = InitialTail("legacy") /\ uid2 > 1 /\ "legacy" \in InitialTails
  BY <1>1, <1>2, <1>3, <1>4
<1> QED BY <1>5 DEF FilesSound, V

(* No file changes.                                                        *)
FilesKept == UNCHANGED <<pc, snap, diskTail>>

(* A step that writes no file keeps what is said of them.                  *)
LEMMA FilesKeptSound ==
  ASSUME NEW uid, NEW batches, FilesSound(uid, batches), FilesKept
  PROVE  FilesSound(uid, batches)'
<1>1. Writing' <=> Writing
  BY DEF FilesKept, Writing
<1> QED BY <1>1 DEF FilesSound, FilesKept

(* The store's changes.                                                    *)
LEMMA RowsStepStore ==
  ASSUME RowsInductive, SpeaksOrCloses
  PROVE  RowsInductive'
<1>1. /\ Up /\ StoreFrame /\ nextUid' \in Nat \ {0} /\ nextUid <= nextUid'
      /\ \E next : /\ Update(next)
                   /\ next = [rows |-> next.rows, first |-> next.first,
                              unsettled |-> next.unsettled]
                   /\ ComesAfter(next, CurrentTail, seqs.base, nextUid, 1..(nextUid' - 1))
  BY RowChanges
<1>2. FilesKept /\ UNCHANGED <<binding, cursor, flight, offered>> /\ Up'
  BY <1>1 DEF StoreFrame, mirror, disk, history, FilesKept, Up
<1>3. FilesSound(nextUid, offered) /\ OfferedOnce
  BY RowsParts
<1> DEFINE u == nextUid'
           o == offered
<1>4. FilesSound(u, o) /\ u \in Nat
  BY <1>1, <1>3, FilesLater
<1>5. FilesSound(nextUid', offered')
  BY <1>2, <1>4 DEF o
<1>6. TailSound(CurrentTail', 1..(nextUid' - 1), offered) /\ NumbersFollow'
  <2>1. PICK next : /\ Update(next)
                    /\ next = [rows |-> next.rows, first |-> next.first,
                               unsettled |-> next.unsettled]
                    /\ ComesAfter(next, CurrentTail, seqs.base, nextUid, 1..(nextUid' - 1))
    BY <1>1
  <2> QED BY <1>1, <1>2, <1>4, <2>1, UpdateNumbers DEF u
<1>7. OfferedOnce'
  BY <1>2, <1>3 DEF OfferedOnce
<1>8. Writing' <=> Writing
  BY <1>2 DEF FilesKept, Writing
<1> HIDE DEF u, o
<1>9. /\ nextUid' \in Nat \ {0}
      /\ \A b \in offered' : b.rows \in Seq(OutboxRows(1..(nextUid' - 1))) /\ b.rows # <<>>
  BY <1>5 DEF FilesSound
<1>10. /\ Writing' => TailSound(snap.tail', 1..(nextUid' - 1), offered')
       /\ diskTail'.kind = "archive" => TailSound(diskTail', 1..(nextUid' - 1), offered')
       /\ diskTail'.kind = "legacy" =>
            diskTail' = InitialTail("legacy") /\ nextUid' > 1 /\ "legacy" \in InitialTails
  <2>1. snap' = snap /\ diskTail' = diskTail
    BY <1>2 DEF FilesKept
  <2>2. /\ Writing => TailSound(snap.tail, 1..(nextUid' - 1), offered')
        /\ diskTail.kind = "archive" => TailSound(diskTail, 1..(nextUid' - 1), offered')
        /\ diskTail.kind = "legacy" =>
            diskTail = InitialTail("legacy") /\ nextUid' > 1 /\ "legacy" \in InitialTails
    BY <1>5 DEF FilesSound
  <2> QED BY <1>8, <2>1, <2>2
<1>11. TailSound(CurrentTail', 1..(nextUid' - 1), offered')
  BY <1>2, <1>6
<1> QED BY <1>2, <1>6, <1>7, <1>9, <1>10, <1>11 DEF RowsInductive, Spoken

(* Memory does not change.                                                 *)
MemoryKept == UNCHANGED <<view, binding, seqs, cursor, flight, queue, nextUid, offered>>

(* A step that leaves the rows in memory alone copies at most a sound tail *)
(* further towards the file.                                               *)
LEMMA RowsStepKept ==
  ASSUME RowsInductive, MemoryKept, Up' <=> Up,
         \/ diskTail' = diskTail
         \/ Writing /\ diskTail' = snap.tail
         \/ diskTail'.kind = "malformed",
         Writing' => \/ Writing /\ snap'.tail = snap.tail
                     \/ Up /\ snap'.tail = CurrentTail
  PROVE  RowsInductive'
<1>1. /\ view' = view /\ binding' = binding /\ seqs' = seqs /\ cursor' = cursor
      /\ flight' = flight /\ queue' = queue /\ nextUid' = nextUid /\ offered' = offered
  BY DEF MemoryKept
<1>2. CurrentTail' = CurrentTail /\ Spoken' = Spoken
  BY <1>1 DEF CurrentTail, Spoken
<1>3. NumbersFollow => NumbersFollow'
  BY <1>1 DEF NumbersFollow
<1>4. OfferedOnce => OfferedOnce'
  BY <1>1 DEF OfferedOnce
<1>5. /\ nextUid' \in Nat \ {0}
      /\ \A b \in offered' : b.rows \in Seq(OutboxRows(Spoken')) /\ b.rows # <<>>
  BY <1>1, <1>2 DEF RowsInductive
<1>6. IF Up' THEN TailSound(CurrentTail', Spoken', offered') /\ NumbersFollow'
             ELSE view' = EmptyView /\ flight' = <<>> /\ queue' = EmptyQueue
  BY <1>1, <1>2, <1>3 DEF RowsInductive
<1>7. Writing' => TailSound(snap'.tail, Spoken', offered')
  BY <1>1, <1>2 DEF RowsInductive
<1>8. diskTail'.kind = "archive" => TailSound(diskTail', Spoken', offered')
  BY <1>1, <1>2 DEF RowsInductive
<1>9. diskTail'.kind = "legacy" =>
        diskTail' = InitialTail("legacy") /\ nextUid' > 1 /\ "legacy" \in InitialTails
  <2>1. Writing => snap.tail.kind = "archive"
    BY DEF RowsInductive, TailSound
  <2> QED BY <1>1, <2>1 DEF RowsInductive
<1> QED BY <1>4, <1>5, <1>6, <1>7, <1>8, <1>9 DEF RowsInductive

(* Which steps those are.                                                  *)
LEMMA RowsStepElsewhere ==
  ASSUME RowsInductive,
         \/ OtherChange \/ NextDeletes \/ \E b \in released : AcknowledgeForget(b)
         \/ Mirror \/ CorruptTail \/ CorruptRecord \/ UNCHANGED vars
  PROVE  RowsInductive'
<1>1. CASE OtherChange \/ NextDeletes \/ (\E b \in released : AcknowledgeForget(b))
           \/ CorruptRecord \/ UNCHANGED vars
  <2>1. MemoryKept /\ pc' = pc /\ snap' = snap /\ diskTail' = diskTail
    BY <1>1 DEF OtherChange, NextDeletes, AcknowledgeForget, CorruptRecord, vars, StoreFrame,
       Changed, conversation, mirror, disk, history, bounds, versions, MemoryKept
  <2> QED BY <2>1, RowsStepKept DEF Up, Writing
<1>2. CASE CorruptTail
  <2>1. MemoryKept /\ pc' = pc /\ snap' = snap /\ diskTail'.kind = "malformed"
    BY <1>2 DEF CorruptTail, conversation, mirror, history, MemoryKept
  <2> QED BY <2>1, RowsStepKept DEF Up, Writing
<1>3. CASE Snapshot
  <2>1. MemoryKept /\ Up /\ Up' /\ diskTail' = diskTail /\ snap'.tail = CurrentTail
    BY <1>3 DEF Snapshot, conversation, disk, history, bounds, MemoryKept, Up
  <2> QED BY <2>1, RowsStepKept
<1>4. CASE WriteRecord
  <2>1. MemoryKept /\ Up /\ Up' /\ diskTail' = diskTail /\ snap' = snap /\ Writing
    BY <1>4 DEF WriteRecord, conversation, bounds, MemoryKept, Up, Writing
  <2> QED BY <2>1, RowsStepKept
<1>5. CASE WriteTail
  <2>1. MemoryKept /\ Up /\ Up' /\ diskTail' = snap.tail /\ snap' = snap /\ Writing
    BY <1>5 DEF WriteTail, conversation, history, bounds, MemoryKept, Up, Writing
  <2> QED BY <2>1, RowsStepKept
<1>6. CASE Landed \/ WriteFails
  <2>1. MemoryKept /\ Up /\ Up' /\ diskTail' = diskTail /\ ~Writing'
    BY <1>6 DEF Landed, WriteFails, conversation, disk, history, bounds, MemoryKept, Up, Writing
  <2> QED BY <2>1, RowsStepKept
<1> QED BY <1>1, <1>2, <1>3, <1>4, <1>5, <1>6 DEF Mirror

(* The archive sender's calls.                                             *)
LEMMA RowsStepArchive ==
  ASSUME Inductive, RowsInductive, Archive
  PROVE  RowsInductive'
<1>1. /\ Up /\ Up' /\ Writing' = Writing /\ snap' = snap /\ diskTail' = diskTail
      /\ view' = view /\ binding' = binding /\ seqs' = seqs /\ nextUid' = nextUid
  BY DEF Archive, Freeze, NextBatch, Acknowledge, Changed, conversation, mirror, disk, bounds,
     Up, Writing
<1>2. /\ Spoken' = Spoken /\ Spoken \subseteq Int
      /\ FilesSound(nextUid, offered) /\ OfferedOnce
      /\ \A b \in offered : b.rows \in Seq(OutboxRows(Spoken)) /\ b.rows # <<>>
  BY <1>1, RowsParts DEF Spoken, RowsInductive
<1> DEFINE t == CurrentTail
<1>3. /\ TailSound(t, Spoken, offered) /\ NumbersFollow /\ t.kind = "archive"
      /\ t.binding = binding /\ t.rows = view.rows /\ t.next = seqs.next
      /\ t.settled = Settled(seqs, view) /\ t.cursor = cursor /\ t.flight = flight
      /\ t.unsent = queue.unsent /\ t.gap = queue.gap /\ t.forget = NoBinding
  BY <1>1, CurrentFields DEF CurrentTail
<1>5. /\ CurrentTail'.kind = t.kind /\ CurrentTail'.binding = t.binding
      /\ CurrentTail'.next = t.next /\ CurrentTail'.settled = t.settled
      /\ CurrentTail'.rows = t.rows /\ CurrentTail'.forget = t.forget
      /\ CurrentTail'.cursor = cursor' /\ CurrentTail'.flight = flight'
      /\ CurrentTail'.unsent = queue'.unsent /\ CurrentTail'.gap = queue'.gap
  BY <1>1 DEF CurrentTail
<1>6. ASSUME offered' = offered, TailSound(CurrentTail', Spoken, offered),
             queue' = [unsent |-> queue'.unsent, gap |-> queue'.gap]
      PROVE  RowsInductive'
  <2>1. NumbersFollow'
    BY <1>1, <1>3, <1>6 DEF NumbersFollow
  <2>2. OfferedOnce'
    BY <1>2, <1>6 DEF OfferedOnce
  <2> QED BY <1>1, <1>2, <1>6, <2>1, <2>2 DEF RowsInductive
<1>7. CASE Freeze
  <2>1. PICK n \in 1..Min({MaxBatch, Len(queue.unsent)}) :
          /\ flight' = SubSeq(queue.unsent, 1, n)
          /\ queue' = [queue EXCEPT !.unsent = SubSeq(queue.unsent, n + 1, Len(queue.unsent))]
    BY <1>7 DEF Freeze
  <2>2. /\ offered' = offered /\ cursor' = cursor /\ flight = <<>>
    BY <1>7 DEF Freeze, history
  <2>3. n \in 1..Len(t.unsent)
    <3> DEFINE m == Len(queue.unsent)
    <3>1. m \in Nat
      BY <1>3 DEF TailSound, TailTyped
    <3>2. MaxBatch \in Int /\ m \in Int
      BY <3>1, VoiceTailAssumption
    <3> HIDE DEF m
    <3>3. Min({MaxBatch, m}) = IF MaxBatch <= m THEN MaxBatch ELSE m
      BY <3>2, MaxOfTwo
    <3>4. n \in 1..Min({MaxBatch, m})
      BY DEF m
    <3>5. n \in 1..m
      BY <3>2, <3>3, <3>4
    <3> HIDE DEF t
    <3> QED BY <1>3, <3>5 DEF m
  <2>4. queue' = [unsent |-> SubSeq(queue.unsent, n + 1, Len(queue.unsent)), gap |-> queue.gap]
    <3> DEFINE x == queue.unsent
               y == queue.gap
               z == SubSeq(x, n + 1, Len(x))
    <3>1. /\ queue = [unsent |-> x, gap |-> y]
          /\ queue' = [queue EXCEPT !.unsent = z]
      BY <1>3, <2>1 DEF NumbersFollow
    <3> HIDE DEF z, x, y
    <3>2. queue' = [unsent |-> z, gap |-> y]
      BY <3>1
    <3> QED BY <3>2 DEF x, y, z
  <2> DEFINE s == CurrentTail'
  <2>5. /\ queue' = [unsent |-> queue'.unsent, gap |-> queue'.gap]
        /\ queue'.unsent = SubSeq(queue.unsent, n + 1, Len(queue.unsent)) /\ queue'.gap = queue.gap
    BY <2>4
  <2> DEFINE uids == Spoken
             batches == offered
  <2>6. /\ SameConversation(t, s) /\ s.cursor = t.cursor
        /\ s.flight = SubSeq(t.unsent, 1, n) /\ s.unsent = SubSeq(t.unsent, n + 1, Len(t.unsent))
        /\ t.flight = <<>> /\ TailSound(t, uids, batches) /\ uids \subseteq Int
        /\ \A b \in batches : b.rows # <<>>
    BY <1>2, <1>3, <1>5, <2>1, <2>2, <2>5 DEF SameConversation
  <2> HIDE DEF s, t, uids, batches
  <2>7. TailSound(s, uids, batches)
    BY <2>3, <2>6, FrozenIsSound
  <2> QED BY <1>6, <2>2, <2>5, <2>7 DEF s, uids, batches
<1>8. CASE \E batch \in offered : Acknowledge(batch)
  <2>1. PICK c \in offered : Acknowledge(c)
    BY <1>8
  <2>2. /\ offered' = offered /\ queue' = queue /\ flight # <<>> /\ flight' = <<>>
        /\ c.binding = binding /\ SeqThrough(c) = SeqThrough(Batch)
        /\ cursor' = <<SeqThrough(c)>>
    BY <2>1 DEF Acknowledge
  <2>3. SeqThrough(Batch) = Last(flight).seq
    BY DEF SeqThrough, Batch
  <2> DEFINE s == CurrentTail'
             uids == Spoken
             batches == offered
  <2>4. /\ SameConversation(t, s) /\ s.cursor = <<SeqThrough(c)>>
        /\ s.flight = <<>> /\ s.unsent = t.unsent
        /\ t.flight # <<>> /\ TailSound(t, uids, batches) /\ uids \subseteq Int
        /\ \A b \in batches : b.rows \in Seq(OutboxRows(uids)) /\ b.rows # <<>>
        /\ c \in batches /\ c.binding = t.binding /\ SeqThrough(c) = Last(t.flight).seq
    BY <1>2, <1>3, <1>5, <2>2, <2>3 DEF SameConversation
  <2> HIDE DEF s, t, uids, batches
  <2>5. TailSound(s, uids, batches)
    BY <2>4, AckedIsSound
  <2>6. queue' = [unsent |-> queue'.unsent, gap |-> queue'.gap]
    BY <1>3, <2>2 DEF NumbersFollow
  <2> QED BY <1>6, <2>2, <2>5, <2>6 DEF s, uids, batches
<1>9. CASE NextBatch
  <2>1. /\ offered' = offered \union {Batch} /\ UNCHANGED <<cursor, flight, queue>>
        /\ flight # <<>> /\ written >= frozenVer
    BY <1>9 DEF NextBatch, conversation
  <2>2. CurrentTail' = t
    BY <1>1, <2>1 DEF CurrentTail
  <2>3. Batch.binding = binding /\ Batch.rows = flight
    BY DEF Batch
  <2>4. ASSUME NEW s, TailSound(s, Spoken, offered),
               s.binding = binding => s.flight = flight
        PROVE  TailSound(s, Spoken, offered')
    <3> DEFINE uids == Spoken
               uids2 == Spoken
               old == offered
               new == offered'
               tail == s
    <3>1. /\ uids \subseteq uids2 /\ old \subseteq new /\ TailSound(tail, uids, old)
          /\ \A b \in new \ old : b.binding = tail.binding => b.rows = tail.flight
      BY <2>1, <2>3, <2>4
    <3> HIDE DEF uids, uids2, old, new, tail
    <3>2. TailSound(tail, uids2, new)
      BY ONLY <3>1, SoundLater
    <3> QED BY <3>2 DEF tail, uids2, new
  <2>5. TailSound(CurrentTail', Spoken, offered')
    BY <1>3, <2>2, <2>4
  <2>6. Writing => snap.tail.flight = flight
    <3>1. ASSUME Writing PROVE snap.version >= frozenVer
      <4>1. written <= snap.version /\ written \in Nat /\ frozenVer \in Nat /\ snap.version \in Nat
        BY <3>1 DEF Inductive, VersionOrder
      <4> QED BY <2>1, <4>1
    <3> QED BY <2>1, <3>1 DEF Inductive, WritesAreCurrent
  <2>7. diskTail.kind = "archive" => diskTail.flight = flight
    BY <1>1, <2>1 DEF Inductive, WritesAreCurrent
  <2>8. /\ Writing => TailSound(snap.tail, Spoken, offered')
        /\ diskTail.kind = "archive" => TailSound(diskTail, Spoken, offered')
    BY <2>4, <2>6, <2>7 DEF RowsInductive
  <2>9. \A b \in offered' : b.rows \in Seq(OutboxRows(Spoken)) /\ b.rows # <<>>
    <3>1. flight \in Seq(OutboxRows(Spoken))
      BY <1>3 DEF TailSound, TailTyped
    <3> QED BY <1>2, <2>1, <2>3, <3>1
  <2>10. NumbersFollow'
    BY <1>1, <1>3, <2>1 DEF NumbersFollow
  <2>11. OfferedOnce'
    BY <1>9, OfferedOnceStep
  <2>12. /\ nextUid' \in Nat \ {0}
         /\ diskTail'.kind = "legacy" =>
              diskTail' = InitialTail("legacy") /\ nextUid' > 1 /\ "legacy" \in InitialTails
    BY <1>1 DEF RowsInductive
  <2> QED BY <1>1, <1>2, <2>5, <2>8, <2>9, <2>10, <2>11, <2>12 DEF RowsInductive
<1> QED BY <1>7, <1>8, <1>9 DEF Archive

(* A delete request and a stop of the host leave no row in memory; an open *)
(* leaves those that it restores.                                          *)
LEMMA RowsStepForget ==
  ASSUME Inductive, RowsInductive, RequestForget
  PROVE  RowsInductive'
<1>1. /\ Empties /\ binding'.id = nextId /\ Up'
      /\ UNCHANGED <<snap, diskTail, offered, nextUid>> /\ (Writing' <=> Writing)
  BY FreshBinding DEF RequestForget, Retire, Empties, mirror, disk, Up, Writing
<1>2. \A batch \in offered : batch.binding # binding'
  <2>1. nextId \in Nat /\ \A batch \in offered : batch.binding.id \in Known
    BY DEF Inductive, KnownIds
  <2>2. nextId \notin Known
    BY <2>1 DEF Known
  <2> QED BY <1>1, <2>1, <2>2
<1>3. /\ FilesSound(nextUid, offered) /\ OfferedOnce /\ Spoken' = Spoken /\ Spoken \subseteq Int
      /\ nextUid \in Nat \ {0}
  BY <1>1, RowsParts DEF Spoken, FilesSound
<1>4. TailSound(CurrentTail', Spoken, offered) /\ NumbersFollow'
  BY <1>1, <1>2, <1>3, EmptiedIsSound
<1>5. OfferedOnce'
  BY <1>1, <1>3 DEF OfferedOnce
<1>6. /\ \A b \in offered : b.rows \in Seq(OutboxRows(Spoken)) /\ b.rows # <<>>
      /\ Writing => TailSound(snap.tail, Spoken, offered)
      /\ diskTail.kind = "archive" => TailSound(diskTail, Spoken, offered)
      /\ diskTail.kind = "legacy" =>
           diskTail = InitialTail("legacy") /\ nextUid > 1 /\ "legacy" \in InitialTails
  BY DEF RowsInductive
<1> QED BY <1>1, <1>3, <1>4, <1>5, <1>6 DEF RowsInductive

(* Open leaves sound rows in memory.                                       *)
LEMMA RowsStepOpen ==
  ASSUME Inductive, RowsInductive, Open
  PROVE  RowsInductive'
<1>1. /\ UNCHANGED <<nextUid, offered>> /\ TailSound(CurrentTail', Spoken, offered)
      /\ NumbersFollow'
  BY OpenRows DEF Inductive
<1>2. diskTail' = diskTail /\ Up' /\ ~Writing'
  BY DEF Open, OpenFresh, OpenRetired, OpenLegacy, OpenArchive, OpenRefused, Opened, disk, Up,
     Writing
<1>3. Spoken' = Spoken /\ OfferedOnce'
  BY <1>1 DEF Spoken, RowsInductive, OfferedOnce
<1> QED BY <1>1, <1>2, <1>3 DEF RowsInductive

(* A host that stops leaves no row in memory.                              *)
LEMMA RowsStepStop ==
  ASSUME RowsInductive, Crash \/ Close
  PROVE  RowsInductive'
<1>1. /\ ~Up' /\ ~Writing' /\ view' = EmptyView /\ flight' = <<>> /\ queue' = EmptyQueue
      /\ UNCHANGED <<diskTail, offered, nextUid>>
  BY DEF Crash, Close, Down, disk, Up, Writing
<1>2. Spoken' = Spoken /\ OfferedOnce'
  BY <1>1 DEF Spoken, RowsInductive, OfferedOnce
<1> QED BY <1>1, <1>2 DEF RowsInductive

(* The first states have sound rows.                                       *)
LEMMA RowsInit == Init => RowsInductive
<1> SUFFICES ASSUME Init PROVE RowsInductive
  OBVIOUS
<1>1. /\ ~Up /\ ~Writing /\ offered = {} /\ view = EmptyView /\ flight = <<>>
      /\ queue = EmptyQueue /\ nextUid \in {1, 2}
  BY DEF Init, Up, Writing
<1>2. PICK kind \in InitialTails :
        diskTail = InitialTail(kind) /\ nextUid = (IF kind = "legacy" THEN 2 ELSE 1)
  BY DEF Init
<1>3. kind \in {"none", "legacy", "forget"}
  BY VoiceTailAssumption
<1>4. ASSUME diskTail.kind = "archive" PROVE TailSound(diskTail, Spoken, offered)
  <2>1. kind = "forget"
    BY <1>2, <1>3, <1>4 DEF InitialTail, NoTail
  <2> DEFINE b == [id |-> 2, gen |-> 1]
             forget == [id |-> 1, gen |-> 0]
             rows == <<>>
             uids == Spoken
             batches == offered
  <2>2. diskTail = FreshTail(b, rows, forget)
    BY <1>2, <2>1 DEF InitialTail, FreshTail
  <2>3. /\ uids \subseteq Int /\ rows \in Seq([uid : uids, kind : Kinds]) /\ Rising(rows)
        /\ Len(rows) <= MaxMessages /\ \A batch \in batches : batch.binding # b
        /\ forget # NoBinding => b.gen > forget.gen /\ b.id # forget.id
    BY <1>1, VoiceTailAssumption DEF Spoken, Rising
  <2> HIDE DEF b, forget, rows, uids, batches
  <2>4. TailSound(FreshTail(b, rows, forget), uids, batches)
    BY ONLY <2>3, FreshIsSound
  <2> QED BY <2>2, <2>4 DEF uids, batches
<1>5. ASSUME diskTail.kind = "legacy"
      PROVE  diskTail = InitialTail("legacy") /\ nextUid > 1 /\ "legacy" \in InitialTails
  BY <1>2, <1>3, <1>5 DEF InitialTail, NoTail
<1>6. OfferedOnce
  BY <1>1 DEF OfferedOnce
<1> QED BY <1>1, <1>4, <1>5, <1>6 DEF RowsInductive

(* No step makes the rows unsound.                                         *)
LEMMA RowsStep == Inductive /\ RowsInductive /\ [Next]_vars => RowsInductive'
<1> SUFFICES ASSUME Inductive, RowsInductive, [Next]_vars PROVE RowsInductive'
  OBVIOUS
<1>1. CASE SpeaksOrCloses
  BY <1>1, RowsStepStore
<1>2. CASE Archive
  BY <1>2, RowsStepArchive
<1>3. CASE OtherChange \/ NextDeletes \/ (\E b \in released : AcknowledgeForget(b))
           \/ Mirror \/ CorruptTail \/ CorruptRecord \/ UNCHANGED vars
  BY <1>3, RowsStepElsewhere
<1>4. CASE RequestForget
  BY <1>4, RowsStepForget
<1>5. CASE Open
  BY <1>5, RowsStepOpen
<1>6. CASE Crash \/ Close
  BY <1>6, RowsStepStop
<1> QED BY <1>1, <1>2, <1>3, <1>4, <1>5, <1>6
        DEF Next, StoreChange, SpeaksOrCloses, Forget, Environment

(* The numbering holds in every reachable state.                           *)
LEMMA RowsInvariant == Spec => [](Inductive /\ RowsInductive)
<1>1. Init => Inductive /\ RowsInductive
  BY InductiveInit, RowsInit
<1>2. Inductive /\ RowsInductive /\ [Next]_vars => (Inductive /\ RowsInductive)'
  BY InductiveStep, RowsStep
<1> QED BY <1>1, <1>2, PTL DEF Spec

(* DurableTailParses: the tail on disk is one the next start accepts       *)
(* (voice_tail.py _admit, _overflow, _discard against _parse_archive).     *)
THEOREM DurableTailAlwaysParses == Spec => []DurableTailParses
<1>1. RowsInductive => DurableTailParses
  BY DEF RowsInductive, DurableTailParses, TailSound
<1> QED BY <1>1, RowsInvariant, PTL

(* OfferedOnce: what the archive is offered of a conversation is one       *)
(* history, over every restart (voice_tail.py _assign, _freeze, _restore). *)
THEOREM OfferedIsOneHistory == Spec => []OfferedOnce
<1>1. RowsInductive => OfferedOnce
  BY DEF RowsInductive
<1> QED BY <1>1, RowsInvariant, PTL

-----------------------------------------------------------------------------
(* What is said of a deleted conversation.                                 *)

(* A row that gets its number was spoken after a request that the tail it  *)
(* was in was begun after.                                                 *)
LEMMA NumberedSince ==
  ASSUME NEW uid \in Nat, NEW uids2, uids2 \subseteq Int, NEW batches,
         NEW t, TailSound(t, 1..(uid - 1), batches), NEW base, NEW next,
         ComesAfter(next, t, base, uid, uids2),
         NEW r, r.upTo \in Nat, r.upTo < uid, SpokenSince(t, r)
  PROVE  SpokenSince(NumberedTail(t, base, next), r)
<1> DEFINE k == r.upTo
           n == NumberedTail(t, base, next)
<1>1. /\ n.binding = t.binding /\ n.rows = next.rows /\ n.flight = t.flight
      /\ n.unsent = Numbered(t, base, next).unsent
  BY DEF NumberedTail
<1> SUFFICES ASSUME SpokenAfter(t.rows, k), SpokenAfter(t.flight \o t.unsent, k)
             PROVE  SpokenAfter(next.rows, k)
                    /\ SpokenAfter(t.flight \o Numbered(t, base, next).unsent, k)
  BY <1>1 DEF SpokenSince
<1>2. /\ k \in Int /\ k < uid
      /\ next.rows \in Seq([uid : uids2, kind : Kinds])
      /\ \A j \in 1..Len(next.rows) :
           next.rows[j].uid >= uid \/ \E i \in 1..Len(t.rows) : next.rows[j].uid = t.rows[i].uid
  BY DEF ComesAfter
<1>3. \A j \in 1..Len(next.rows) : next.rows[j].uid \in Int
  BY <1>2, RowsTyped
<1> HIDE DEF k, n
<1>4. ASSUME NEW j \in 1..Len(next.rows) PROVE next.rows[j].uid > k
  <2>1. CASE next.rows[j].uid >= uid
    BY <1>2, <1>3, <2>1
  <2>2. CASE \E i \in 1..Len(t.rows) : next.rows[j].uid = t.rows[i].uid
    BY <2>2 DEF SpokenAfter
  <2> QED BY <1>2, <2>1, <2>2
<1>5. \A j \in From(next, t.next - base) : next.rows[j].uid > k
  BY <1>4 DEF From
<1>6. SpokenAfter(next.rows, k)
  BY <1>4 DEF SpokenAfter
<1>7. SpokenAfter(t.flight \o Numbered(t, base, next).unsent, k)
  <2> DEFINE old == batches
             tail == t
             uid2 == uid
  <2>1. /\ TailSound(tail, 1..(uid2 - 1), old) /\ ComesAfter(next, tail, base, uid2, uids2)
        /\ SpokenAfter(tail.flight \o tail.unsent, k) /\ uid2 \in Nat /\ k \in Int
        /\ uids2 \subseteq Int
        /\ \A j \in From(next, tail.next - base) : next.rows[j].uid > k
    BY <1>2, <1>5
  <2> HIDE DEF old, tail, uid2
  <2>2. SpokenAfter(tail.flight \o Numbered(tail, base, next).unsent, k)
    BY ONLY <2>1, NumberedSpoken
  <2> QED BY <2>2 DEF tail
<1> QED BY <1>6, <1>7

(* The store's changes keep it.                                            *)
LEMMA StoreSince ==
  ASSUME RowsInductive, SpeaksOrCloses,
         NEW r, r.upTo \in Nat, r.upTo < nextUid, SpokenSince(CurrentTail, r)
  PROVE  SpokenSince(CurrentTail', r)
<1>1. /\ Up /\ StoreFrame /\ nextUid' \in Nat \ {0} /\ nextUid <= nextUid'
      /\ \E next : /\ Update(next)
                   /\ next = [rows |-> next.rows, first |-> next.first,
                              unsettled |-> next.unsettled]
                   /\ ComesAfter(next, CurrentTail, seqs.base, nextUid, 1..(nextUid' - 1))
  BY RowChanges
<1>2. PICK next : /\ Update(next)
                  /\ next = [rows |-> next.rows, first |-> next.first,
                             unsettled |-> next.unsettled]
                  /\ ComesAfter(next, CurrentTail, seqs.base, nextUid, 1..(nextUid' - 1))
  BY <1>1
<1>3. UNCHANGED <<binding, cursor, flight>> /\ nextUid' \in Nat
  BY <1>1 DEF StoreFrame
<1>4. CurrentTail' = NumberedTail(CurrentTail, seqs.base, next)
  BY <1>1, <1>2, <1>3, UpdateNumbers
<1>5. TailSound(CurrentTail, 1..(nextUid - 1), offered) /\ nextUid \in Nat
  BY <1>1, CurrentFields DEF Spoken
<1> DEFINE t == CurrentTail
           base == seqs.base
           uid == nextUid
           uids2 == 1..(nextUid' - 1)
           batches == offered
<1>6. /\ uid \in Nat /\ uids2 \subseteq Int /\ TailSound(t, 1..(uid - 1), batches)
      /\ ComesAfter(next, t, base, uid, uids2)
      /\ r.upTo \in Nat /\ r.upTo < uid /\ SpokenSince(t, r)
  BY <1>1, <1>2, <1>5
<1> HIDE DEF t, base, uid, uids2, batches
<1>7. SpokenSince(NumberedTail(t, base, next), r)
  BY ONLY <1>6, NumberedSince
<1> QED BY <1>4, <1>7 DEF t, base

(* So does restoring the rows of the file.                                 *)
LEMMA ResumedSince ==
  ASSUME RowsInductive, OpensArchive,
         NEW r, r.upTo \in Nat, r.upTo < nextUid, SpokenSince(diskTail, r)
  PROVE  SpokenSince(CurrentTail', r)
<1> DEFINE t == diskTail
           base == t.next - t.settled
           uid == nextUid
           batches == offered
           next == Restored(t.rows)
<1>1. /\ TailSound(t, 1..(uid - 1), batches) /\ uid \in Nat /\ Resumes(t)
      /\ \A b \in batches : b.rows \in Seq(OutboxRows(1..(uid - 1))) /\ b.rows # <<>>
      /\ r.upTo \in Nat /\ r.upTo < uid /\ SpokenSince(t, r)
  BY DEF OpensArchive, RowsInductive, Spoken
<1> HIDE DEF t, uid, batches
<1>2. CurrentTail' = NumberedTail(t, base, next)
  BY <1>1, ResumedIsSound
<1>3. ComesAfter(next, t, base, uid, 1..(uid - 1))
  BY <1>1, RestoredComesAfter
<1> DEFINE uids2 == 1..(uid - 1)
<1>4. ComesAfter(next, t, base, uid, uids2) /\ uids2 \subseteq Int
      /\ TailSound(t, 1..(uid - 1), batches)
  BY <1>1, <1>3
<1> HIDE DEF base, next, uids2
<1>5. SpokenSince(NumberedTail(t, base, next), r)
  BY ONLY <1>1, <1>4, NumberedSince
<1> QED BY <1>2, <1>5

(* So do the archive sender's calls.                                       *)
LEMMA ArchiveSince ==
  ASSUME RowsInductive, Archive, NEW r, SpokenSince(CurrentTail, r)
  PROVE  SpokenSince(CurrentTail', r)
<1>1. /\ Up /\ view' = view /\ binding' = binding /\ seqs' = seqs
  BY DEF Archive, Freeze, NextBatch, Acknowledge, Changed, conversation, Up
<1>2. /\ TailSound(CurrentTail, Spoken, offered) /\ Spoken \subseteq Int
      /\ CurrentTail.flight = flight /\ CurrentTail.unsent = queue.unsent
      /\ CurrentTail.rows = view.rows /\ CurrentTail.binding = binding
  BY <1>1, CurrentFields
<1>3. /\ CurrentTail'.rows = view.rows /\ CurrentTail'.binding = binding
      /\ CurrentTail'.flight = flight' /\ CurrentTail'.unsent = queue'.unsent
  BY <1>1 DEF CurrentTail
<1> DEFINE k == r.upTo
           S == OutboxRows(Spoken)
<1>4. flight \in Seq(S) /\ queue.unsent \in Seq(S)
  BY <1>2 DEF TailSound, TailTyped
<1> SUFFICES ASSUME SpokenAfter(flight \o queue.unsent, k)
             PROVE  SpokenAfter(flight' \o queue'.unsent, k)
  BY <1>2, <1>3 DEF SpokenSince
<1>5. CASE Freeze
  <2>1. PICK n \in 1..Min({MaxBatch, Len(queue.unsent)}) :
          /\ flight' = SubSeq(queue.unsent, 1, n)
          /\ queue' = [queue EXCEPT !.unsent = SubSeq(queue.unsent, n + 1, Len(queue.unsent))]
    BY <1>5 DEF Freeze
  <2> DEFINE rows == queue.unsent
             m == Len(rows)
  <2>2. n \in 1..m
    <3>1. m \in Int /\ MaxBatch \in Int
      BY <1>4, VoiceTailAssumption
    <3> HIDE DEF m
    <3>2. Min({MaxBatch, m}) = IF MaxBatch <= m THEN MaxBatch ELSE m
      BY ONLY <3>1, MaxOfTwo
    <3>3. n \in 1..Min({MaxBatch, m})
      BY DEF m
    <3> QED BY <3>1, <3>2, <3>3
  <2>3. queue'.unsent = SubSeq(rows, n + 1, m) /\ flight = <<>>
    <3> DEFINE y == queue.gap
               z == SubSeq(rows, n + 1, m)
    <3>1. queue = [unsent |-> rows, gap |-> y] /\ queue' = [queue EXCEPT !.unsent = z]
      BY <1>1, <2>1, CurrentFields DEF NumbersFollow
    <3> HIDE DEF y, z, rows
    <3>2. queue' = [unsent |-> z, gap |-> y]
      BY <3>1
    <3> QED BY <1>5, <3>2 DEF Freeze, z
  <2> HIDE DEF S
  <2>4. flight' \o queue'.unsent = rows
    BY <1>4, <2>1, <2>2, <2>3, SplitRows
  <2>5. flight \o queue.unsent = rows
    BY <1>4, <2>3
  <2> QED BY <2>4, <2>5
<1>6. CASE \E batch \in offered : Acknowledge(batch)
  <2>1. flight' = <<>> /\ queue' = queue
    BY <1>6 DEF Acknowledge
  <2> DEFINE uids == Spoken
  <2>2. SpokenAfter(queue.unsent, k)
    <3>1. flight \in Seq(OutboxRows(uids)) /\ queue.unsent \in Seq(OutboxRows(uids))
          /\ uids \subseteq Int
      BY <1>2, <1>4
    <3> HIDE DEF uids, k
    <3> QED BY <3>1, ConcatRises
  <2>3. flight' \o queue'.unsent = queue.unsent
    BY <1>4, <2>1
  <2> QED BY <2>2, <2>3
<1>7. CASE NextBatch
  BY <1>7 DEF NextBatch, conversation
<1> QED BY <1>5, <1>6, <1>7 DEF Archive

-----------------------------------------------------------------------------
(* What the parts of the model do to GoneInductive.                        *)

(* Nothing is asked for at first.                                          *)
LEMMA GoneInit == Init => GoneInductive
<1> SUFFICES ASSUME Init PROVE GoneInductive
  OBVIOUS
<1>1. /\ asked = {} /\ recorded = {} /\ promised = {} /\ ~Up /\ ~Writing
      /\ diskDeletes.readable /\ exposed = {}
  BY DEF Init, Up, Writing
<1> QED BY <1>1 DEF GoneInductive, RequestsFollow, FilesTrail, RecordedIsOver, ExposedIsUnanswered

(* Steps that change no request and no copy of the rows but the one in     *)
(* memory.                                                                 *)
GoneFrame ==
  UNCHANGED <<pc, snap, binding, diskTail, diskDeletes, asked, recorded, promised, exposed>>

(* A step that leaves the files, the conversation and the requests alone,  *)
(* and adds no earlier row, keeps GoneInductive.                           *)
LEMMA GoneKept ==
  ASSUME GoneInductive, GoneFrame, nextUid \in Nat, nextUid' \in Nat, nextUid <= nextUid',
         \A r \in asked \union recorded :
           Up /\ r \notin exposed /\ SpokenSince(CurrentTail, r) => SpokenSince(CurrentTail', r)
  PROVE  GoneInductive'
<1>1. /\ pc' = pc /\ snap' = snap /\ binding' = binding /\ diskTail' = diskTail
      /\ diskDeletes' = diskDeletes /\ asked' = asked /\ recorded' = recorded
      /\ promised' = promised /\ exposed' = exposed
      /\ (Up' <=> Up) /\ (Writing' <=> Writing)
  BY DEF GoneFrame, Up, Writing
<1>2. FilesTrail' /\ RecordedIsOver' /\ ExposedIsUnanswered'
  BY <1>1 DEF GoneInductive, FilesTrail, RecordedIsOver, ExposedIsUnanswered
<1>3. ASSUME NEW r \in asked \union recorded
      PROVE  /\ r.upTo \in Nat /\ r.upTo < nextUid'
             /\ Up /\ r \notin exposed => SpokenSince(CurrentTail', r)
             /\ Writing /\ r \notin exposed => SpokenSince(snap.tail, r)
             /\ diskTail.kind = "archive" /\ r \notin exposed => SpokenSince(diskTail, r)
  <2>1. /\ r.upTo \in Nat /\ r.upTo < nextUid
        /\ Up /\ r \notin exposed => SpokenSince(CurrentTail, r)
        /\ Writing /\ r \notin exposed => SpokenSince(snap.tail, r)
        /\ diskTail.kind = "archive" /\ r \notin exposed => SpokenSince(diskTail, r)
    BY DEF GoneInductive, RequestsFollow
  <2>2. r.upTo < nextUid'
    BY <2>1
  <2> QED BY <2>1, <2>2
<1>4. RequestsFollow'
  BY <1>1, <1>3 DEF RequestsFollow
<1> QED BY <1>2, <1>4 DEF GoneInductive

(* The changes of memory: rows are only added behind a request, or         *)
(* numbered.                                                               *)
LEMMA GoneStepMemory ==
  ASSUME RowsInductive, GoneInductive,
         \/ StoreChange \/ Archive \/ NextDeletes \/ UNCHANGED vars
         \/ \E b \in released : AcknowledgeForget(b)
  PROVE  GoneInductive'
<1>1. nextUid \in Nat \ {0}
      /\ \A r \in asked \union recorded : r.upTo \in Nat /\ r.upTo < nextUid
  BY DEF RowsInductive, GoneInductive, RequestsFollow
<1>2. CASE SpeaksOrCloses
  <2>1. GoneFrame /\ nextUid' \in Nat /\ nextUid <= nextUid'
    BY <1>2, RowChanges DEF StoreFrame, mirror, disk, history, GoneFrame
  <2>2. \A r \in asked \union recorded : SpokenSince(CurrentTail, r) => SpokenSince(CurrentTail', r)
    BY <1>1, <1>2, StoreSince
  <2> QED BY <1>1, <2>1, <2>2, GoneKept
<1>3. CASE Archive
  <2>1. GoneFrame /\ nextUid' = nextUid
    BY <1>3 DEF Archive, Freeze, NextBatch, Acknowledge, Changed, mirror, disk, history, bounds,
       conversation, versions, GoneFrame
  <2>2. \A r \in asked \union recorded : SpokenSince(CurrentTail, r) => SpokenSince(CurrentTail', r)
    BY <1>3, ArchiveSince
  <2> QED BY <1>1, <2>1, <2>2, GoneKept
<1>4. CASE OtherChange \/ NextDeletes \/ UNCHANGED vars
           \/ \E b \in released : AcknowledgeForget(b)
  <2>1. GoneFrame /\ nextUid' = nextUid
        /\ UNCHANGED <<view, binding, seqs, cursor, flight, queue>>
    BY <1>4 DEF OtherChange, NextDeletes, AcknowledgeForget, Changed, StoreFrame, vars, mirror,
       disk, history, bounds, conversation, versions, GoneFrame
  <2>2. CurrentTail' = CurrentTail
    BY <2>1 DEF CurrentTail
  <2> QED BY <1>1, <2>1, <2>2, GoneKept
<1> QED BY <1>2, <1>3, <1>4 DEF StoreChange, SpeaksOrCloses

(* A request retires the conversation: nothing begun after it has a row.   *)
LEMMA GoneStepForget ==
  ASSUME DeletesInductive, RowsInductive, GoneInductive, RequestForget
  PROVE  GoneInductive'
<1>1. /\ Up /\ Empties /\ binding'.id = nextId /\ nextUid' = nextUid
      /\ pc' = pc /\ snap' = snap /\ diskTail' = diskTail /\ diskDeletes' = diskDeletes
      /\ recorded' = recorded /\ promised' = promised /\ exposed' = exposed
      /\ asked' = asked \union {[binding |-> binding, upTo |-> nextUid - 1]}
  BY FreshBinding DEF RequestForget, Retire, Empties, mirror, disk
<1>2. /\ nextId \in Nat \ {0} /\ binding.id \in Known
      /\ Writing => snap.tail.binding.id \in Known /\ snap.tail.binding.id <= binding.id
      /\ diskTail.kind = "archive" => diskTail.binding.id \in Known
      /\ diskTail.kind = "archive" => diskTail.binding.id <= binding.id
      /\ \A r \in recorded : r.binding.id \in Known
      /\ nextUid \in Nat \ {0}
  BY <1>1 DEF DeletesInductive, Inductive, KnownIds, RecordFirst, Retired, GoneInductive, FilesTrail,
     RowsInductive
<1>3. \A i \in Known : i \in Int /\ i < nextId
  BY <1>2 DEF Known
<1>4. FilesTrail' /\ RecordedIsOver' /\ ExposedIsUnanswered'
  <2>1. /\ Up' /\ (Writing' <=> Writing)
    BY <1>1 DEF Up, Writing
  <2>2. /\ diskTail.kind = "archive" => diskTail.binding.id <= nextId
        /\ \A r \in recorded : r.binding.id < nextId
    BY <1>2, <1>3
  <2>3. [binding |-> binding, upTo |-> nextUid - 1] \notin recorded
    BY DEF DeletesInductive, Retired
  <2> QED BY <1>1, <2>1, <2>2, <2>3 DEF GoneInductive, FilesTrail, RecordedIsOver, ExposedIsUnanswered
<1>5. /\ CurrentTail'.rows = <<>> /\ CurrentTail'.flight = <<>> /\ CurrentTail'.unsent = <<>>
  BY <1>1 DEF Empties, CurrentTail, EmptyView, EmptyQueue
<1>6. ASSUME NEW r PROVE SpokenSince(CurrentTail', r)
  <2>1. \A k : SpokenAfter(<<>>, k)
    BY DEF SpokenAfter
  <2>2. <<>> \o <<>> = <<>>
    OBVIOUS
  <2> QED BY <1>5, <2>1, <2>2 DEF SpokenSince
<1>7. ASSUME NEW r \in asked' \union recorded
      PROVE  /\ r.upTo \in Nat /\ r.upTo < nextUid
             /\ Writing /\ r \notin exposed => SpokenSince(snap.tail, r)
             /\ diskTail.kind = "archive" /\ r \notin exposed => SpokenSince(diskTail, r)
  <2>1. CASE r \in asked \union recorded
    BY <2>1 DEF GoneInductive, RequestsFollow
  <2>2. CASE r.binding = binding /\ r.upTo = nextUid - 1
    <3>1. /\ Writing => ~(r.binding.id < snap.tail.binding.id)
          /\ diskTail.kind = "archive" => ~(r.binding.id < diskTail.binding.id)
      BY <1>2, <1>3, <2>2
    <3>2. r.upTo \in Nat /\ r.upTo < nextUid
      BY <1>2, <2>2
    <3> QED BY <3>1, <3>2 DEF SpokenSince
  <2> QED BY <1>1, <2>1, <2>2
<1>8. RequestsFollow'
  <2>1. Writing' <=> Writing
    BY <1>1 DEF Writing
  <2> QED BY <1>1, <1>6, <1>7, <2>1 DEF RequestsFollow
<1> QED BY <1>4, <1>8 DEF GoneInductive

(* What the mirror writes is what memory held, the record before the tail. *)
LEMMA GoneStepMirror ==
  ASSUME DeletesInductive, RowsInductive, GoneInductive, Mirror
  PROVE  GoneInductive'
<1>1. /\ Up /\ Up' /\ UNCHANGED <<view, binding, seqs, cursor, flight, queue, nextUid, exposed>>
  BY DEF Mirror, Snapshot, WriteRecord, WriteTail, Landed, WriteFails, conversation, bounds, history,
     Up
<1>2. CurrentTail' = CurrentTail
  BY <1>1 DEF CurrentTail
<1>3. /\ \A r \in asked \union recorded :
           /\ r.upTo \in Nat /\ r.upTo < nextUid
           /\ r \notin exposed => SpokenSince(CurrentTail, r)
           /\ Writing /\ r \notin exposed => SpokenSince(snap.tail, r)
           /\ diskTail.kind = "archive" /\ r \notin exposed => SpokenSince(diskTail, r)
      /\ diskTail.kind = "archive" =>
           /\ diskTail.binding.id <= binding.id
           /\ Writing => diskTail.binding.id <= snap.tail.binding.id
      /\ Writing => diskDeletes.deletes.live.id <= snap.tail.binding.id
      /\ exposed \subseteq recorded /\ exposed \intersect (asked \union promised) = {}
      /\ \A r \in recorded :
           /\ r.binding.id < binding.id
           /\ Writing => r.binding.id < snap.tail.binding.id
           /\ diskDeletes.readable =>
                HoldsDeletes(diskDeletes.deletes) /\ r.binding.id < diskDeletes.deletes.live.id
      /\ \A r \in promised :
           /\ diskTail.kind # "legacy"
           /\ diskTail.kind = "archive" => r.binding.id < diskTail.binding.id
  BY <1>1 DEF GoneInductive, RequestsFollow, FilesTrail, RecordedIsOver, ExposedIsUnanswered
<1>4. /\ diskDeletes.deletes.live.id <= binding.id
      /\ Writing => snap.deletes.live = snap.tail.binding /\ snap.tail.binding.id <= binding.id
      /\ Writing => snap.tail.kind = "archive" /\ snap.tail.binding.id \in Known
      /\ pc = "record" => HoldsDeletes(snap.deletes)
      /\ binding.id \in Known
      /\ \A a \in asked : a.binding.id < binding.id
      /\ promised \subseteq recorded
  BY <1>1 DEF DeletesInductive, RecordFirst, Retired, Inductive, KnownIds
<1>5. \A i \in Known : i \in Int
  BY DEF Known
<1>6. CASE Snapshot
  <2>1. /\ asked' = asked /\ recorded' = recorded /\ promised' = promised
        /\ diskTail' = diskTail /\ diskDeletes' = diskDeletes /\ snap'.tail = CurrentTail
        /\ Writing'
    BY <1>6 DEF Snapshot, disk, history, Writing
  <2>2. CurrentTail.binding = binding
    BY DEF CurrentTail
  <2>3. RequestsFollow'
    BY <1>1, <1>2, <1>3, <2>1 DEF RequestsFollow
  <2>4. FilesTrail'
    BY <1>1, <1>3, <1>4, <2>1, <2>2 DEF FilesTrail
  <2>5. RecordedIsOver'
    BY <1>1, <1>3, <2>1, <2>2 DEF RecordedIsOver
  <2>6. ExposedIsUnanswered'
    BY <1>1, <1>3, <2>1 DEF ExposedIsUnanswered
  <2> QED BY <2>3, <2>4, <2>5, <2>6 DEF GoneInductive
<1>7. CASE WriteRecord
  <2> DEFINE covered == {a \in asked : a.binding.id < snap.tail.binding.id}
  <2>1. /\ pc = "record" /\ Writing /\ Writing' /\ snap' = snap /\ diskTail' = diskTail
        /\ diskDeletes' = [readable |-> TRUE, deletes |-> snap.deletes]
        /\ recorded' = recorded \union covered /\ asked' = asked /\ promised' = promised
    BY <1>7 DEF WriteRecord, Writing
  <2>2. /\ covered \subseteq asked /\ \A a \in covered : a.binding.id < snap.tail.binding.id
    OBVIOUS
  <2> HIDE DEF covered
  <2>3. diskDeletes'.readable /\ diskDeletes'.deletes = snap.deletes
    BY <2>1
  <2>4. RequestsFollow'
    BY <1>1, <1>2, <1>3, <2>1, <2>2 DEF RequestsFollow
  <2>5. FilesTrail'
    <3>1. snap.tail.binding.id <= snap.tail.binding.id
      BY <1>4, <1>5, <2>1
    <3> QED BY <1>1, <1>3, <1>4, <2>1, <2>3, <3>1 DEF FilesTrail
  <2>6. RecordedIsOver'
    BY <1>1, <1>3, <1>4, <2>1, <2>2, <2>3 DEF RecordedIsOver
  <2>7. ExposedIsUnanswered'
    BY <1>1, <1>3, <2>1, <2>2 DEF ExposedIsUnanswered
  <2> QED BY <2>4, <2>5, <2>6, <2>7 DEF GoneInductive
<1>8. CASE WriteTail
  <2>1. /\ Writing /\ Writing' /\ snap' = snap /\ diskTail' = snap.tail
        /\ diskDeletes' = diskDeletes /\ recorded' = recorded /\ asked' = asked
        /\ promised' = promised
    BY <1>8 DEF WriteTail, history, Writing
  <2>2. RequestsFollow'
    BY <1>1, <1>2, <1>3, <2>1 DEF RequestsFollow
  <2>3. FilesTrail'
    <3>1. snap.tail.binding.id <= snap.tail.binding.id
      BY <1>4, <1>5, <2>1
    <3> QED BY <1>1, <1>3, <1>4, <2>1, <3>1 DEF FilesTrail
  <2>4. RecordedIsOver'
    BY <1>1, <1>3, <1>4, <2>1 DEF RecordedIsOver
  <2>5. ExposedIsUnanswered'
    BY <1>1, <1>3, <2>1 DEF ExposedIsUnanswered
  <2> QED BY <2>2, <2>3, <2>4, <2>5 DEF GoneInductive
<1>9. CASE Landed
  <2>1. /\ pc = "landed" /\ Writing /\ ~Writing' /\ diskTail' = diskTail
        /\ diskDeletes' = diskDeletes /\ recorded' = recorded
        /\ IF snap.version >= forgetVer
           THEN promised' = promised \union asked /\ asked' = {}
           ELSE promised' = promised /\ asked' = asked
    BY <1>9 DEF Landed, disk, Writing
  <2>2. snap.version >= forgetVer => diskTail.kind = "archive" /\ diskTail.binding = binding
    BY <1>4, <2>1 DEF DeletesInductive, Inductive, WritesAreCurrent
  <2>3. asked' \subseteq asked
    BY <2>1
  <2>4. ASSUME NEW r \in promised'
        PROVE  /\ diskTail.kind # "legacy"
               /\ diskTail.kind = "archive" => r.binding.id < diskTail.binding.id
    <3>1. CASE r \in promised
      BY <1>3, <3>1
    <3>2. CASE snap.version >= forgetVer /\ r \in asked
      BY <1>4, <2>2, <3>2
    <3> QED BY <2>1, <3>1, <3>2
  <2>5. RequestsFollow'
    BY <1>1, <1>2, <1>3, <2>1, <2>3 DEF RequestsFollow
  <2>6. FilesTrail'
    BY <1>1, <1>3, <2>1 DEF FilesTrail
  <2>7. RecordedIsOver'
    BY <1>1, <1>3, <2>1, <2>4 DEF RecordedIsOver
  <2>8. ExposedIsUnanswered'
    BY <1>1, <1>3, <2>1 DEF ExposedIsUnanswered
  <2> QED BY <2>5, <2>6, <2>7, <2>8 DEF GoneInductive
<1>10. CASE WriteFails
  <2>1. /\ ~Writing' /\ diskTail' = diskTail /\ diskDeletes' = diskDeletes
        /\ recorded' = recorded /\ asked' = asked /\ promised' = promised
    BY <1>10 DEF WriteFails, disk, history, Writing
  <2>2. RequestsFollow'
    BY <1>1, <1>2, <1>3, <2>1 DEF RequestsFollow
  <2>3. FilesTrail' /\ RecordedIsOver' /\ ExposedIsUnanswered'
    BY <1>1, <1>3, <2>1 DEF FilesTrail, RecordedIsOver, ExposedIsUnanswered
  <2> QED BY <2>2, <2>3 DEF GoneInductive
<1> QED BY <1>6, <1>7, <1>8, <1>9, <1>10 DEF Mirror

(* An open restores the conversation that every recorded delete is before, *)
(* or no row; rows of a version-1 tail are restored when nothing is        *)
(* recorded, or the record that cannot be read exposes what is.            *)
LEMMA GoneStepOpen ==
  ASSUME DeletesInductive, RowsInductive, GoneInductive, Open
  PROVE  GoneInductive'
<1>1. /\ ~Up /\ Up' /\ ~Writing' /\ nextUid' = nextUid
      /\ diskTail' = diskTail /\ diskDeletes' = diskDeletes
      /\ asked' = asked /\ recorded' = recorded /\ promised' = promised
  BY DEF Open, OpenFresh, OpenRetired, OpenLegacy, OpenArchive, OpenRefused, Opened, disk, Up,
     Writing
<1>2. OpensEmpty \/ OpensLegacy \/ OpensArchive
  BY OpenRows DEF DeletesInductive, Inductive
<1>3. /\ asked = {} /\ promised \subseteq recorded /\ nextId \in Nat \ {0}
      /\ \A r \in recorded : r.binding.id \in Known
      /\ diskTail.kind = "archive" => diskTail.binding.id \in Known
  BY <1>1 DEF DeletesInductive, Retired, Inductive, KnownIds
<1>4. \A i \in Known : i \in Int /\ i < nextId /\ i # 0
  BY <1>3 DEF Known
<1>5. ASSUME NEW tail, ~Unproven(tail), recorded # {}
      PROVE  TailBinding(tail) = RecordRead.live
             /\ (diskDeletes.readable =>
                   \A r \in recorded : r.binding.id < TailBinding(tail).id)
             /\ (~diskDeletes.readable => TailBinding(tail) = NoBinding)
  <2>1. CASE diskDeletes.readable
    <3>1. RecordRead = diskDeletes.deletes
      BY <2>1 DEF RecordRead
    <3>2. HoldsDeletes(RecordRead) /\ \A r \in recorded : r.binding.id < RecordRead.live.id
      BY <1>5, <2>1, <3>1 DEF GoneInductive, RecordedIsOver
    <3> QED BY <1>5, <2>1, <3>2 DEF Unproven
  <2>2. CASE ~diskDeletes.readable
    <3>1. RecordRead = LostDeletes
      BY <2>2 DEF RecordRead
    <3>2. HoldsDeletes(RecordRead) /\ RecordRead.live = NoBinding
      BY <3>1 DEF HoldsDeletes, LostDeletes
    <3> QED BY <1>5, <2>2, <3>2 DEF Unproven
  <2> QED BY <2>1, <2>2
<1>6. /\ \A r \in recorded :
           r.binding.id < binding'.id /\ (r \notin exposed' => SpokenSince(CurrentTail', r))
      /\ diskTail.kind = "archive" => diskTail.binding.id <= binding'.id
      /\ exposed' \subseteq recorded /\ exposed' \intersect promised = {}
      /\ exposed \subseteq exposed'
  <2>1. exposed \subseteq recorded /\ exposed \intersect promised = {}
    BY DEF GoneInductive, ExposedIsUnanswered
  <2>2. CASE OpensEmpty
    <3>1. /\ CurrentTail'.rows = <<>> /\ CurrentTail'.flight = <<>> /\ CurrentTail'.unsent = <<>>
      BY <2>2 DEF OpensEmpty, Empties, CurrentTail, EmptyView, EmptyQueue
    <3>2. (\A k : SpokenAfter(<<>>, k)) /\ <<>> \o <<>> = <<>>
      BY DEF SpokenAfter
    <3>3. \A r \in recorded : SpokenSince(CurrentTail', r)
      BY <3>1, <3>2 DEF SpokenSince
    <3> QED BY <1>3, <1>4, <2>1, <2>2, <3>3 DEF OpensEmpty
  <2>3. CASE OpensArchive
    <3>1. /\ diskTail.kind = "archive" /\ ~Unproven(diskTail) /\ binding' = diskTail.binding
          /\ TailBinding(diskTail) = diskTail.binding /\ exposed' = exposed
      BY <2>3 DEF OpensArchive, Resumes, TailBinding
    <3>2. \A r \in recorded : r.binding.id < binding'.id
      BY <1>3, <1>4, <1>5, <3>1 DEF NoBinding
    <3>3. \A r \in recorded \ exposed : SpokenSince(CurrentTail', r)
      <4>1. \A r \in recorded \ exposed :
              r.upTo \in Nat /\ r.upTo < nextUid /\ SpokenSince(diskTail, r)
        BY <3>1 DEF GoneInductive, RequestsFollow
      <4> QED BY <2>3, <4>1, ResumedSince
    <3> QED BY <1>3, <1>4, <2>1, <3>1, <3>2, <3>3
  <2>4. CASE OpensLegacy
    <3>1. /\ diskTail.kind = "legacy" /\ ~Unproven(diskTail) /\ TailBinding(diskTail) = NoBinding
          /\ binding'.id = nextId
          /\ exposed' = IF diskDeletes.readable THEN exposed ELSE exposed \union recorded
      BY <2>4 DEF OpensLegacy, TailBinding
    <3>2. promised = {}
      BY <3>1 DEF GoneInductive, RecordedIsOver
    <3>3. diskDeletes.readable => recorded = {}
      <4>1. \A r \in recorded : r.binding.id \in Int /\ r.binding.id \in Known /\ ~(r.binding.id < 0)
        BY <1>3, <1>4 DEF Known
      <4> QED BY <1>5, <3>1, <4>1 DEF NoBinding
    <3> QED BY <1>3, <1>4, <2>1, <3>1, <3>2, <3>3
  <2> QED BY <1>2, <2>2, <2>3, <2>4
<1>7. RequestsFollow'
  BY <1>1, <1>3, <1>6 DEF GoneInductive, RequestsFollow
<1>8. FilesTrail'
  BY <1>1, <1>6 DEF GoneInductive, FilesTrail
<1>9. RecordedIsOver'
  BY <1>1, <1>6 DEF GoneInductive, RecordedIsOver
<1>10. ExposedIsUnanswered'
  BY <1>1, <1>3, <1>6 DEF ExposedIsUnanswered
<1> QED BY <1>7, <1>8, <1>9, <1>10 DEF GoneInductive

(* A stop and a damaged file leave less than there was.                    *)
LEMMA GoneStepEnvironment ==
  ASSUME DeletesInductive, GoneInductive, Environment
  PROVE  GoneInductive'
<1>1. /\ recorded' = recorded /\ promised' = promised /\ exposed' = exposed /\ nextUid' = nextUid
      /\ asked' \subseteq asked
  BY DEF Environment, Crash, Close, CorruptTail, CorruptRecord, history
<1>2. CASE Crash \/ Close
  <2>1. /\ ~Up' /\ ~Writing' /\ diskTail' = diskTail /\ diskDeletes' = diskDeletes
    BY <1>2 DEF Crash, Close, Down, disk, Up, Writing
  <2> QED BY <1>1, <2>1 DEF GoneInductive, RequestsFollow, FilesTrail, RecordedIsOver, ExposedIsUnanswered
<1>3. CASE CorruptTail
  <2>1. /\ ~Up' /\ ~Writing' /\ diskTail'.kind = "malformed" /\ diskDeletes' = diskDeletes
    BY <1>3 DEF CorruptTail, mirror, Up, Writing
  <2> QED BY <1>1, <2>1 DEF GoneInductive, RequestsFollow, FilesTrail, RecordedIsOver, ExposedIsUnanswered
<1>4. CASE CorruptRecord
  <2>1. /\ ~Up' /\ ~Writing' /\ diskTail' = diskTail
        /\ ~diskDeletes'.readable
    BY <1>4 DEF CorruptRecord, mirror, Up, Writing
  <2> QED BY <1>1, <2>1 DEF GoneInductive, RequestsFollow, FilesTrail, RecordedIsOver, ExposedIsUnanswered
<1> QED BY <1>2, <1>3, <1>4 DEF Environment

(* No step brings a deleted conversation back.                             *)
LEMMA GoneStep ==
  DeletesInductive /\ RowsInductive /\ GoneInductive /\ [Next]_vars => GoneInductive'
<1> SUFFICES ASSUME DeletesInductive, RowsInductive, GoneInductive, [Next]_vars
             PROVE  GoneInductive'
  OBVIOUS
<1>1. CASE \/ StoreChange \/ Archive \/ NextDeletes \/ UNCHANGED vars
           \/ \E b \in released : AcknowledgeForget(b)
  BY <1>1, GoneStepMemory
<1>2. CASE RequestForget
  BY <1>2, GoneStepForget
<1>3. CASE Mirror
  BY <1>3, GoneStepMirror
<1>4. CASE Open
  BY <1>4, GoneStepOpen
<1>5. CASE Environment
  BY <1>5, GoneStepEnvironment
<1> QED BY <1>1, <1>2, <1>3, <1>4, <1>5 DEF Next, Forget

(* What the runs check as one invariant: the deletes, the rows and what is *)
(* deleted (voice_tail.py).                                                *)
THEOREM TailInvariant == Spec => []TailInductive
<1>1. Init => TailInductive
  BY DeletesInit, RowsInit, GoneInit DEF TailInductive
<1>2. TailInductive /\ [Next]_vars => TailInductive'
  <2> SUFFICES ASSUME TailInductive, [Next]_vars PROVE TailInductive'
    OBVIOUS
  <2>1. DeletesInductive' /\ RowsInductive'
    BY DeletesStep, RowsStep DEF TailInductive, DeletesInductive
  <2>2. GoneInductive'
    BY GoneStep DEF TailInductive
  <2> QED BY <2>1, <2>2 DEF TailInductive
<1> QED BY <1>1, <1>2, PTL DEF Spec

(* DeletedStaysGone: once the record of a delete is durable no start       *)
(* continues the conversation or restores what was said in it, but in the  *)
(* one case the property names; and once the request returned no file      *)
(* holds it, without exception (voice_tail.py request_forget, _restore).   *)
THEOREM DeletedStaysDeleted == Spec => []DeletedStaysGone
<1>1. TailInductive => DeletedStaysGone
  <2> SUFFICES ASSUME TailInductive PROVE DeletedStaysGone
    OBVIOUS
  <2>1. DeletesInductive /\ RowsInductive /\ RequestsFollow /\ RecordedIsOver /\ ExposedIsUnanswered
    BY DEF TailInductive, GoneInductive
  <2>2. ASSUME NEW r \in recorded
        PROVE  /\ binding # r.binding
               /\ r \notin exposed =>
                    SpokenAfter(view.rows, r.upTo) /\ SpokenAfter(flight \o queue.unsent, r.upTo)
    <3>1. binding # r.binding
      BY <2>1 DEF DeletesInductive, Retired
    <3>2. CASE Up
      <4>1. (r \notin exposed => SpokenSince(CurrentTail, r)) /\ r.binding.id < binding.id
        BY <2>1, <3>2 DEF RequestsFollow, RecordedIsOver
      <4> QED BY <3>1, <4>1 DEF SpokenSince, CurrentTail
    <3>3. CASE ~Up
      <4>1. view.rows = <<>> /\ flight = <<>> /\ queue.unsent = <<>>
        BY <2>1, <3>3 DEF RowsInductive, EmptyView, EmptyQueue
      <4>2. (\A k : SpokenAfter(<<>>, k)) /\ <<>> \o <<>> = <<>>
        BY DEF SpokenAfter
      <4> QED BY <3>1, <4>1, <4>2
    <3> QED BY <3>2, <3>3
  <2>3. ASSUME NEW r \in promised, diskTail.kind \in {"legacy", "archive"}
        PROVE  SpokenAfter(diskTail.rows, r.upTo)
    <3>1. /\ diskTail.kind = "archive" /\ r.binding.id < diskTail.binding.id
          /\ r \in recorded /\ r \notin exposed
      BY <2>1, <2>3 DEF RecordedIsOver, DeletesInductive, Retired, ExposedIsUnanswered
    <3> QED BY <2>1, <3>1 DEF RequestsFollow, SpokenSince
  <2> QED BY <2>2, <2>3 DEF DeletedStaysGone
<1> QED BY <1>1, TailInvariant, PTL

=============================================================================
