---------------------------- MODULE UpdatesProofs ---------------------------
(***************************************************************************)
(* Theorems about Updates, for every set of tasks and turns and every      *)
(* capacity: its inductive invariant, and the safety properties that       *)
(* follow from it.  There is one lemma per action or family of actions,    *)
(* and under it one step for each part of the invariant it can disturb.    *)
(***************************************************************************)
EXTENDS UpdatesInduction, SubsequenceProofs, FiniteSetTheorems

-----------------------------------------------------------------------------
(* Sequences without repetitions.                                          *)

(* A sequence without repetitions, and the set of its elements.            *)
LEMMA DistinctCount ==
  ASSUME NEW S, NEW s \in Seq(S), IsInjective(s)
  PROVE  IsFiniteSet(ToSet(s)) /\ Cardinality(ToSet(s)) = Len(s)
<1>1. Len(s) \in Nat /\ s \in [1..Len(s) -> S] /\ DOMAIN s = 1..Len(s)
  BY LenProperties
<1>2. s \in [1..Len(s) -> ToSet(s)]
  BY <1>1 DEF ToSet
<1>3. s \in Bijection(1..Len(s), ToSet(s))
  BY <1>1, <1>2 DEF Bijection, Injection, Surjection, IsInjective, ToSet
<1>4. IsFiniteSet(1..Len(s)) /\ Cardinality(1..Len(s)) = Len(s)
  <2>1. 1 \in Int /\ Len(s) \in Int
    BY <1>1
  <2>2. IsFiniteSet(1..Len(s)) /\ Cardinality(1..Len(s)) = IF 1 > Len(s) THEN 0 ELSE Len(s) - 1 + 1
    BY <2>1, FS_Interval
  <2> QED BY <1>1, <2>2
<1>5. ExistsBijection(1..Len(s), ToSet(s))
  BY <1>3 DEF ExistsBijection
<1> QED BY <1>4, <1>5, FS_Bijection

LEMMA Occurrences ==
  ASSUME NEW S, NEW s \in Seq(S), IsInjective(s), NEW t
  PROVE  Cardinality({i \in DOMAIN s : s[i] = t}) = IF t \in ToSet(s) THEN 1 ELSE 0
<1>1. CASE t \in ToSet(s)
  <2>1. PICK i \in DOMAIN s : s[i] = t
    BY <1>1 DEF ToSet
  <2>2. {j \in DOMAIN s : s[j] = t} = {i}
    BY <2>1 DEF IsInjective
  <2> QED BY <1>1, <2>2, FS_Singleton
<1>2. CASE t \notin ToSet(s)
  <2>1. {j \in DOMAIN s : s[j] = t} = {}
    BY <1>2 DEF ToSet
  <2> QED BY <1>2, <2>1, FS_EmptySet
<1> QED BY <1>1, <1>2

LEMMA DistinctEmpty == IsInjective(<<>>) /\ ToSet(<<>>) = {}
  BY DEF IsInjective, ToSet

LEMMA DistinctAppend ==
  ASSUME NEW S, NEW s \in Seq(S), IsInjective(s), NEW e \in S, e \notin ToSet(s)
  PROVE  /\ Append(s, e) \in Seq(S) /\ IsInjective(Append(s, e))
         /\ ToSet(Append(s, e)) = ToSet(s) \union {e}
         /\ Len(Append(s, e)) = Len(s) + 1
<1> DEFINE n == Len(s)
           t == Append(s, e)
<1>1. /\ n \in Nat /\ DOMAIN s = 1..n /\ t \in Seq(S) /\ Len(t) = n + 1 /\ DOMAIN t = 1..(n + 1)
      /\ \A i \in 1..n : t[i] = s[i]
      /\ t[n + 1] = e
  BY LenProperties, AppendProperties
<1> HIDE DEF n, t
<1>2. \A i \in 1..n : t[i] # e
  BY <1>1 DEF ToSet
<1>3. IsInjective(t)
  <2> SUFFICES ASSUME NEW i \in 1..(n + 1), NEW j \in 1..(n + 1), t[i] = t[j] PROVE i = j
    BY <1>1 DEF IsInjective
  <2>1. (i \in 1..n \/ i = n + 1) /\ (j \in 1..n \/ j = n + 1)
    BY <1>1
  <2> QED BY <1>1, <1>2, <2>1 DEF IsInjective
<1>4. ToSet(t) = ToSet(s) \union {e}
  <2>1. \A i \in 1..(n + 1) : i \in 1..n \/ i = n + 1
    BY <1>1
  <2>2. n + 1 \in 1..(n + 1) /\ 1..n \subseteq 1..(n + 1)
    BY <1>1
  <2> QED BY <1>1, <2>1, <2>2 DEF ToSet
<1> QED BY <1>1, <1>3, <1>4 DEF n, t

LEMMA DistinctConcat ==
  ASSUME NEW S, NEW s \in Seq(S), NEW t \in Seq(S), IsInjective(s), IsInjective(t),
         ToSet(s) \intersect ToSet(t) = {}
  PROVE  /\ s \o t \in Seq(S) /\ IsInjective(s \o t)
         /\ ToSet(s \o t) = ToSet(s) \union ToSet(t)
         /\ Len(s \o t) = Len(s) + Len(t)
<1> DEFINE m == Len(s)
           n == Len(t)
           u == s \o t
<1>1. /\ m \in Nat /\ n \in Nat /\ DOMAIN s = 1..m /\ DOMAIN t = 1..n
      /\ u \in Seq(S) /\ Len(u) = m + n /\ DOMAIN u = 1..(m + n)
      /\ \A i \in 1..(m + n) : u[i] = IF i <= m THEN s[i] ELSE t[i - m]
  BY LenProperties, ConcatProperties
<1> HIDE DEF m, n, u
<1>2. \A i \in 1..m : i \in 1..(m + n) /\ u[i] = s[i]
  BY <1>1
<1>3. \A i \in 1..n : m + i \in 1..(m + n) /\ u[m + i] = t[i]
  BY <1>1
<1>4. \A i \in 1..(m + n) : i \in 1..m \/ \E k \in 1..n : i = m + k
  <2> SUFFICES ASSUME NEW i \in 1..(m + n), i \notin 1..m PROVE \E k \in 1..n : i = m + k
    OBVIOUS
  <2>1. i - m \in 1..n /\ i = m + (i - m)
    BY <1>1
  <2> QED BY <2>1
<1>5. IsInjective(u)
  <2> SUFFICES ASSUME NEW i \in 1..(m + n), NEW j \in 1..(m + n), u[i] = u[j] PROVE i = j
    BY <1>1 DEF IsInjective
  <2>1. CASE i \in 1..m /\ j \in 1..m
    BY <1>1, <1>2, <2>1 DEF IsInjective
  <2>2. ASSUME NEW k \in 1..n, NEW l \in 1..n, i = m + k, j = m + l PROVE i = j
    BY <1>1, <1>3, <2>2 DEF IsInjective
  <2>3. ASSUME NEW a \in 1..m, NEW k \in 1..n PROVE u[a] # u[m + k]
    BY <1>1, <1>2, <1>3, <2>3 DEF ToSet
  <2> QED BY <1>4, <2>1, <2>2, <2>3
<1>6. ToSet(u) = ToSet(s) \union ToSet(t)
  <2>1. ASSUME NEW x \in ToSet(u) PROVE x \in ToSet(s) \union ToSet(t)
    <3>1. PICK i \in 1..(m + n) : x = u[i]
      BY <1>1 DEF ToSet
    <3>2. CASE i \in 1..m
      BY <1>1, <1>2, <3>1, <3>2 DEF ToSet
    <3>3. CASE \E k \in 1..n : i = m + k
      BY <1>1, <1>3, <3>1, <3>3 DEF ToSet
    <3> QED BY <1>4, <3>2, <3>3
  <2>2. ToSet(s) \subseteq ToSet(u)
    BY <1>1, <1>2 DEF ToSet
  <2>3. ASSUME NEW i \in 1..n PROVE t[i] \in ToSet(u)
    <3>1. m + i \in DOMAIN u /\ t[i] = u[m + i]
      BY <1>1, <1>3
    <3> QED BY <3>1 DEF ToSet
  <2>4. ToSet(t) \subseteq ToSet(u)
    BY <1>1, <2>3 DEF ToSet
  <2> QED BY <2>1, <2>2, <2>4
<1> QED BY <1>1, <1>5, <1>6 DEF m, n, u

LEMMA DistinctSplit ==
  ASSUME NEW S, NEW s \in Seq(S), IsInjective(s), NEW n \in 0..Len(s)
  PROVE  LET a == SubSeq(s, 1, n)
             b == SubSeq(s, n + 1, Len(s))
         IN  /\ a \in Seq(S) /\ b \in Seq(S) /\ Len(a) = n /\ Len(b) = Len(s) - n
             /\ IsInjective(a) /\ IsInjective(b)
             /\ ToSet(a) \union ToSet(b) = ToSet(s) /\ ToSet(a) \intersect ToSet(b) = {}
<1> DEFINE k == Len(s)
           a == SubSeq(s, 1, n)
           b == SubSeq(s, n + 1, k)
<1>1. k \in Nat /\ DOMAIN s = 1..k /\ n \in Int /\ 1 \in Int /\ n + 1 \in Int /\ k \in Int
      /\ n \in Nat /\ n <= k /\ (\A i \in 1..n : s[i] \in S) /\ (\A i \in (n + 1)..k : s[i] \in S)
  BY LenProperties
<1>2. /\ a \in Seq(S) /\ Len(a) = (IF 1 <= n THEN n - 1 + 1 ELSE 0)
      /\ \A i \in 1..(n - 1 + 1) : a[i] = s[1 + i - 1]
  BY <1>1, SubSeqProperties
<1>3. /\ b \in Seq(S) /\ Len(b) = (IF n + 1 <= k THEN k - (n + 1) + 1 ELSE 0)
      /\ \A i \in 1..(k - (n + 1) + 1) : b[i] = s[(n + 1) + i - 1]
  BY <1>1, SubSeqProperties
<1> HIDE DEF k, a, b
<1>4. /\ Len(a) = n /\ DOMAIN a = 1..n /\ \A i \in 1..n : a[i] = s[i]
  BY <1>1, <1>2
<1>5. /\ Len(b) = k - n /\ DOMAIN b = 1..(k - n) /\ \A i \in 1..(k - n) : b[i] = s[n + i]
  BY <1>1, <1>3
<1>6. /\ \A i \in 1..n : i \in 1..k
      /\ \A i \in 1..(k - n) : n + i \in 1..k
      /\ \A i \in 1..n, j \in 1..(k - n) : i # n + j
  BY <1>1
<1>7. \A i \in 1..k : i \in 1..n \/ \E j \in 1..(k - n) : i = n + j
  <2> SUFFICES ASSUME NEW i \in 1..k, i \notin 1..n PROVE \E j \in 1..(k - n) : i = n + j
    OBVIOUS
  <2>1. i - n \in 1..(k - n) /\ i = n + (i - n)
    BY <1>1
  <2> QED BY <2>1
<1>8. IsInjective(a)
  BY <1>1, <1>4, <1>6 DEF IsInjective
<1>9. IsInjective(b)
  <2> SUFFICES ASSUME NEW i \in 1..(k - n), NEW j \in 1..(k - n), b[i] = b[j] PROVE i = j
    BY <1>5 DEF IsInjective
  <2>1. n + i = n + j
    BY <1>1, <1>5, <1>6 DEF IsInjective
  <2> QED BY <1>1, <2>1
<1>10. ToSet(a) \union ToSet(b) = ToSet(s)
  <2>1. ASSUME NEW x \in ToSet(s) PROVE x \in ToSet(a) \union ToSet(b)
    <3>1. PICK i \in 1..k : x = s[i]
      BY <1>1 DEF ToSet
    <3>2. CASE i \in 1..n
      BY <1>4, <3>1, <3>2 DEF ToSet
    <3>3. CASE \E j \in 1..(k - n) : i = n + j
      BY <1>5, <3>1, <3>3 DEF ToSet
    <3> QED BY <1>7, <3>2, <3>3
  <2>2. ToSet(a) \subseteq ToSet(s)
    BY <1>1, <1>4, <1>6 DEF ToSet
  <2>3. ASSUME NEW i \in 1..(k - n) PROVE b[i] \in ToSet(s)
    <3>1. n + i \in DOMAIN s /\ b[i] = s[n + i]
      BY <1>1, <1>5, <1>6
    <3> QED BY <3>1 DEF ToSet
  <2>4. ToSet(b) \subseteq ToSet(s)
    BY <1>5, <2>3 DEF ToSet
  <2> QED BY <2>1, <2>2, <2>4
<1>11. ToSet(a) \intersect ToSet(b) = {}
  <2> SUFFICES ASSUME NEW i \in 1..n, NEW j \in 1..(k - n), a[i] = b[j] PROVE FALSE
    BY <1>4, <1>5 DEF ToSet
  <2>1. s[i] = s[n + j]
    BY <1>4, <1>5
  <2>2. i \in 1..k /\ n + j \in 1..k /\ i # n + j
    BY <1>6
  <2> QED BY <1>1, <2>1, <2>2 DEF IsInjective
<1> QED BY <1>2, <1>3, <1>4, <1>5, <1>8, <1>9, <1>10, <1>11 DEF k, a, b

LEMMA DistinctTail ==
  ASSUME NEW S, NEW s \in Seq(S), IsInjective(s), s # <<>>
  PROVE  /\ Head(s) \in S /\ Tail(s) \in Seq(S) /\ IsInjective(Tail(s)) /\ Len(Tail(s)) = Len(s) - 1
         /\ ToSet(s) = {Head(s)} \union ToSet(Tail(s)) /\ Head(s) \notin ToSet(Tail(s))
<1> DEFINE n == Len(s)
           t == Tail(s)
<1>1. /\ n \in Nat /\ n > 0 /\ DOMAIN s = 1..n /\ Head(s) = s[1] /\ Head(s) \in S /\ t \in Seq(S)
      /\ Len(t) = n - 1 /\ DOMAIN t = 1..(n - 1)
      /\ \A i \in 1..(n - 1) : t[i] = s[i + 1]
  BY LenProperties, EmptySeq, HeadTailProperties
<1> HIDE DEF n, t
<1>2. /\ \A i \in 1..(n - 1) : i + 1 \in 1..n /\ i + 1 # 1
      /\ 1 \in 1..n
  BY <1>1
<1>3. \A i \in 1..n : i = 1 \/ \E j \in 1..(n - 1) : i = j + 1
  <2> SUFFICES ASSUME NEW i \in 1..n, i # 1 PROVE \E j \in 1..(n - 1) : i = j + 1
    OBVIOUS
  <2>1. i - 1 \in 1..(n - 1) /\ i = (i - 1) + 1
    BY <1>1
  <2> QED BY <2>1
<1>4. IsInjective(t)
  <2> SUFFICES ASSUME NEW i \in 1..(n - 1), NEW j \in 1..(n - 1), t[i] = t[j] PROVE i = j
    BY <1>1 DEF IsInjective
  <2>1. s[i + 1] = s[j + 1] /\ i + 1 \in DOMAIN s /\ j + 1 \in DOMAIN s
    BY <1>1, <1>2
  <2>2. i + 1 = j + 1
    BY <2>1 DEF IsInjective
  <2> QED BY <2>2
<1>5. Head(s) \notin ToSet(t)
  <2> SUFFICES ASSUME NEW i \in 1..(n - 1), t[i] = Head(s) PROVE FALSE
    BY <1>1 DEF ToSet
  <2>1. s[i + 1] = s[1] /\ i + 1 \in DOMAIN s /\ 1 \in DOMAIN s /\ i + 1 # 1
    BY <1>1, <1>2
  <2> QED BY <2>1 DEF IsInjective
<1>6. ToSet(s) = {Head(s)} \union ToSet(t)
  <2>1. ASSUME NEW i \in 1..n PROVE s[i] = Head(s) \/ s[i] \in ToSet(t)
    BY <1>1, <1>3 DEF ToSet
  <2>2. ASSUME NEW i \in 1..(n - 1) PROVE t[i] \in ToSet(s)
    <3>1. i + 1 \in DOMAIN s /\ t[i] = s[i + 1]
      BY <1>1, <1>2
    <3> QED BY <3>1 DEF ToSet
  <2>3. Head(s) \in ToSet(s)
    BY <1>1, <1>2 DEF ToSet
  <2>4. ToSet(s) \subseteq {Head(s)} \union ToSet(t)
    BY <1>1, <2>1 DEF ToSet
  <2>5. ToSet(t) \subseteq ToSet(s)
    BY <1>1, <2>2 DEF ToSet
  <2> QED BY <2>3, <2>4, <2>5
<1> QED BY <1>1, <1>4, <1>5, <1>6 DEF n, t

(* What Sift keeps of a sequence without repetitions has none either.      *)
Unsifted(u, keep) == IsInjective(u) => IsInjective(Sift(u, keep)) /\ ToSet(Sift(u, keep)) = ToSet(u) \intersect keep

LEMMA DistinctSift ==
  ASSUME NEW S, NEW s \in Seq(S), NEW keep, IsInjective(s)
  PROVE  IsInjective(Sift(s, keep)) /\ ToSet(Sift(s, keep)) = ToSet(s) \intersect keep
<1> DEFINE T == {u \in Seq(S) : ~Unsifted(u, keep)}
<1>1. SUFFICES ASSUME T # {} PROVE FALSE
  BY DEF Unsifted
<1>2. T \subseteq Seq(S) /\ <<>> \notin T
  BY SiftEmpty, DistinctEmpty DEF Unsifted
<1>3. PICK u \in Seq(S), e \in S : Append(u, e) \in T /\ u \notin T
  <2> HIDE DEF T
  <2> QED BY <1>1, <1>2, FirstFailure
<1>4. Unsifted(u, keep) /\ ~Unsifted(Append(u, e), keep)
  BY <1>3
<1> HIDE DEF T
<1>5. /\ Len(u) \in Nat /\ DOMAIN u = 1..Len(u) /\ DOMAIN Append(u, e) = 1..(Len(u) + 1)
      /\ \A i \in 1..Len(u) : Append(u, e)[i] = u[i]
      /\ Append(u, e)[Len(u) + 1] = e
  BY LenProperties, AppendProperties
<1>6. IsInjective(Append(u, e))
  BY <1>4 DEF Unsifted
<1>7. IsInjective(u)
  <2> SUFFICES ASSUME NEW i \in 1..Len(u), NEW j \in 1..Len(u), u[i] = u[j] PROVE i = j
    BY <1>5 DEF IsInjective
  <2>1. i \in DOMAIN Append(u, e) /\ j \in DOMAIN Append(u, e) /\ Append(u, e)[i] = Append(u, e)[j]
    BY <1>5
  <2> QED BY <1>6, <2>1 DEF IsInjective
<1>8. e \notin ToSet(u)
  <2> SUFFICES ASSUME NEW i \in 1..Len(u), u[i] = e PROVE FALSE
    BY <1>5 DEF ToSet
  <2>1. /\ i \in DOMAIN Append(u, e) /\ Len(u) + 1 \in DOMAIN Append(u, e) /\ i # Len(u) + 1
        /\ Append(u, e)[i] = Append(u, e)[Len(u) + 1]
    BY <1>5
  <2> QED BY <1>6, <2>1 DEF IsInjective
<1>9. ToSet(Append(u, e)) = ToSet(u) \union {e}
  BY <1>7, <1>8, DistinctAppend
<1>10. Sift(Append(u, e), keep) = IF e \in keep THEN Append(Sift(u, keep), e) ELSE Sift(u, keep)
  BY SiftAppend
<1>11. /\ IsInjective(Sift(u, keep)) /\ ToSet(Sift(u, keep)) = ToSet(u) \intersect keep
       /\ Sift(u, keep) \in Seq(S)
  BY <1>4, <1>7, SiftType DEF Unsifted
<1>12. CASE e \in keep
  <2>1. e \notin ToSet(Sift(u, keep))
    BY <1>8, <1>11
  <2>2. /\ IsInjective(Append(Sift(u, keep), e))
        /\ ToSet(Append(Sift(u, keep), e)) = ToSet(Sift(u, keep)) \union {e}
    BY <1>11, <2>1, DistinctAppend
  <2> QED BY <1>4, <1>9, <1>10, <1>11, <1>12, <2>2 DEF Unsifted
<1>13. CASE e \notin keep
  <2>1. ToSet(u) \intersect keep = ToSet(Append(u, e)) \intersect keep
    BY <1>9, <1>13
  <2> QED BY <1>4, <1>10, <1>11, <1>13, <2>1 DEF Unsifted
<1> QED BY <1>12, <1>13

-----------------------------------------------------------------------------
(* What the actions share.                                                 *)

USE UpdatesAssumption
USE DEF dvars, queues, owned, loop, speech, ops, rest

Stages == {"off", "reserved", "ready", "entering", "speaking", "ending", "revoked", "done"}
Bearing == {"none", "reserved", "consumed"}

(* The floor is taken from an operation that speaks, which goes on to end. *)
LEMMA RevokedMoves ==
  ASSUME Types, BearersHeld
  PROVE  /\ Revoked(pc) \in [Ops -> Stages]
         /\ \A o \in Ops : Revoked(pc)[o] = pc[o]
                           \/ (pc[o] = "speaking" /\ Revoked(pc)[o] = "revoked")
<1>1. pc \in [Ops -> Stages] /\ floor \in Ops \union {NoOne}
  BY DEF Types, TypeOK, Stages
<1>2. floor # NoOne => pc[floor] = "speaking"
  BY DEF BearersHeld
<1> QED BY <1>1, <1>2 DEF Revoked, Stages

(* Reservations are kept by whoever goes on.                               *)
LEMMA BearsOn ==
  ASSUME BearersHeld, \A o \in Ops : bearer'[o] # "none" <=> bearer[o] # "none",
         \A o \in Ops : pc'[o] \in {"off", "done"} <=> pc[o] \in {"off", "done"}
  PROVE  Bears(pc', bearer')
<1>1. Reserved(bearer') = Reserved(bearer)
  BY DEF Reserved
<1> QED BY <1>1 DEF BearersHeld, Bears

(* A new reservation is within the limit.                                  *)
LEMMA OneMoreBears ==
  ASSUME NEW pcs, NEW bs, Bears(pcs, bs), MayReserve(bs), NEW o \in Ops,
         NEW next, NEW given,
         \A p \in Ops : p # o => next[p] = pcs[p] /\ given[p] = bs[p],
         next[o] \notin {"off", "done"}, given[o] # "none"
  PROVE  Bears(next, given)
<1>1. Reserved(given) = Reserved(bs) \union {o}
  BY DEF Reserved
<1>2. /\ IsFiniteSet(Reserved(given))
      /\ Cardinality(Reserved(given)) = IF o \in Reserved(bs) THEN Cardinality(Reserved(bs))
                                        ELSE Cardinality(Reserved(bs)) + 1
  <2>1. IsFiniteSet(Reserved(bs))
    BY DEF Bears
  <2> QED BY ONLY <1>1, <2>1, FS_AddElement
<1>3. Cardinality(Reserved(bs)) \in Nat /\ Cardinality(Reserved(bs)) < MaxOperations
  BY FS_CardinalityType DEF Bears, MayReserve
<1>4. Cardinality(Reserved(given)) <= MaxOperations
  BY <1>2, <1>3
<1> QED BY <1>2, <1>4 DEF Bears

(* Fewer reservations are within it too.                                   *)
LEMMA FewerBear ==
  ASSUME NEW pcs, NEW bs, Bears(pcs, bs), NEW next, NEW given,
         \A o \in Ops : given[o] # "none" => bs[o] # "none",
         \A o \in Ops : given[o] # "none" => next[o] \notin {"off", "done"},
         \A o \in Ops \ {Idle} : next[o] \notin {"off", "done"} => given[o] # "none"
  PROVE  Bears(next, given)
<1>1. Reserved(given) \subseteq Reserved(bs)
  BY DEF Reserved
<1>2. IsFiniteSet(Reserved(given)) /\ Cardinality(Reserved(given)) <= Cardinality(Reserved(bs))
  BY <1>1, FS_Subset DEF Bears
<1>3. Cardinality(Reserved(given)) \in Nat /\ Cardinality(Reserved(bs)) \in Nat
  BY <1>2, FS_CardinalityType DEF Bears
<1>4. Cardinality(Reserved(given)) <= MaxOperations
  BY <1>2, <1>3 DEF Bears
<1> QED BY <1>2, <1>4 DEF Bears

(* An idle operation that is started bears what it reserves.               *)
LEMMA DrainBears ==
  ASSUME NEW pcs \in [Ops -> Stages], NEW bs \in [Ops -> Bearing], Bears(pcs, bs),
         NEW waiting, NEW on, WithDrain(pcs, bs, waiting, on)
  PROVE  /\ pc' \in [Ops -> Stages] /\ bearer' \in [Ops -> Bearing] /\ Bears(pc', bearer')
         /\ \A o \in Ops : pc'[o] = pcs[o] \/ (o = Idle /\ pcs[o] = "off" /\ pc'[o] = "ready")
<1>1. Idle \in Ops
  BY DEF Ops
<1>2. CASE pc' = pcs /\ bearer' = bs
  BY <1>2
<1>3. CASE /\ MayReserve(bs) /\ pcs[Idle] = "off"
           /\ pc' = [pcs EXCEPT ![Idle] = "ready"] /\ bearer' = [bs EXCEPT ![Idle] = "reserved"]
  <2>1. pc' \in [Ops -> Stages] /\ bearer' \in [Ops -> Bearing]
    BY <1>3 DEF Stages, Bearing
  <2>2. /\ \A p \in Ops : p # Idle => pc'[p] = pcs[p] /\ bearer'[p] = bs[p]
        /\ pc'[Idle] = "ready" /\ bearer'[Idle] = "reserved"
    BY <1>1, <1>3
  <2>3. Bears(pc', bearer')
    <3>1. pc'[Idle] \notin {"off", "done"} /\ bearer'[Idle] # "none"
      BY <2>2
    <3>2. Bears(pcs, bs) /\ MayReserve(bs)
      BY <1>3
    <3> QED BY ONLY <1>1, <2>2, <3>1, <3>2, OneMoreBears
  <2> QED BY <1>3, <2>1, <2>2, <2>3
<1> QED BY <1>2, <1>3 DEF WithDrain

(* A step that moves operations along and leaves every update where it is. *)
Unmoved == UNCHANGED <<hand, kind, unresolved, decisions, mentions, interrupts, slots, claims,
                       settled, mine>>

Moves ==
  \A o \in Ops : \/ pc'[o] = pc[o]
                 \/ Running(o) /\ pc'[o] \in {"entering", "speaking", "ending", "revoked"}
                 \/ o \notin Tasks /\ mine[o] = <<>>

LEMMA QuietStep ==
  ASSUME UpdatesInductive, Unmoved, Types', Moves,
         \/ consumer' = consumer /\ active' = active
         \/ consumer'.at \in {"next", "over"} /\ (consumer.at # "held" \/ executor' # "open"),
         executor' = "open" => executor = "open", failed => failed'
  PROVE  HandHeld' /\ QueuesHeld' /\ ClaimsHeld' /\ InterruptsHeld' /\ SlotsHeld'
<1> USE DEF UpdatesInductive, Unmoved
<1>1. \A k : Published(k)' = Published(k)
  BY DEF Published
<1>2. \A t \in Tasks : pc[t] # "reserved"
  BY DEF InterruptsHeld, Running
<1>3. \A t \in Tasks : /\ pc'[t] = "off" <=> pc[t] = "off"
                       /\ pc'[t] = "done" <=> pc[t] = "done"
                       /\ pc'[t] # "reserved"
  BY <1>2 DEF Moves, Ops, Running
<1>4. \A o \in Ops : mine[o] # <<>> => pc'[o] \in {"entering", "speaking", "ending", "revoked"}
  BY DEF Moves, ClaimsHeld
<1>5. HandHeld' /\ SlotsHeld'
  BY DEF HandHeld, SlotsHeld
<1>6. QueuesHeld'
  BY <1>1 DEF QueuesHeld, Mentions, Interrupts
<1>7. ClaimsHeld'
  BY <1>1, <1>4 DEF ClaimsHeld, Mentions, Interrupts
<1>8. \A t \in Tasks : /\ Running(t)' <=> Running(t)
                       /\ pc'[t] # "off" /\ pc'[t] # "done" => Running(t)'
  <2>1. \A t \in Tasks : pc[t] \in Stages /\ pc'[t] \in Stages
    <3>1. pc \in [Ops -> Stages]
      BY DEF Types, TypeOK, Stages
    <3>2. pc' \in [Ops -> Stages]
      BY DEF Types, TypeOK, Stages
    <3> QED BY <3>1, <3>2 DEF Ops
  <2>3. \A t \in Tasks : pc[t] # "off" /\ pc[t] # "done" => Running(t)
    BY DEF InterruptsHeld
  <2> QED BY <1>3, <2>1, <2>3 DEF Running, Stages
<1>9. /\ \A t \in Tasks : /\ Held(t)' => Held(t)
                         /\ executor' = "open" /\ Held(t) => Held(t)'
      /\ consumer'.at = "held" => consumer'.task \in Tasks
      /\ consumer'.at = "replacing" => consumer'.task \in Tasks /\ active' \in Tasks
  <2>1. CASE consumer' = consumer /\ active' = active
    <3>1. \A t \in Tasks : Held(t)' <=> Held(t)
      BY <2>1 DEF Held
    <3> QED BY <2>1, <3>1 DEF InterruptsHeld
  <2>2. CASE consumer'.at \in {"next", "over"} /\ (consumer.at # "held" \/ executor' # "open")
    <3>1. \A t \in Tasks : ~Held(t)' /\ (Held(t) => executor' # "open")
      BY <2>2 DEF Held
    <3>2. consumer'.at # "held" /\ consumer'.at # "replacing"
      BY <2>2
    <3> QED BY <3>1, <3>2
  <2> QED BY <2>1, <2>2
<1>10. InterruptsHeld'
  <2>1. ASSUME NEW t \in Tasks
        PROVE  /\ pc'[t] # "off" => t \in Interrupts' \ ToSet(decisions')
               /\ pc'[t] # "off" => IF pc'[t] = "done" THEN t \in settled' ELSE Running(t)' /\ t \in claims'
               /\ t \in Interrupts' \intersect ToSet(decisions') => t \notin claims' \union settled'
    <3>1. /\ pc[t] # "off" => t \in Interrupts \ ToSet(decisions)
          /\ pc[t] # "off" => IF pc[t] = "done" THEN t \in settled ELSE Running(t) /\ t \in claims
          /\ t \in Interrupts \intersect ToSet(decisions) => t \notin claims \union settled
      BY DEF InterruptsHeld
    <3>2. Interrupts' = Interrupts
      BY <1>1 DEF Interrupts
    <3>3. /\ pc'[t] = "off" <=> pc[t] = "off"
          /\ pc'[t] = "done" <=> pc[t] = "done"
          /\ Running(t)' <=> Running(t)
      BY <1>3, <1>8
    <3> QED BY <3>1, <3>2, <3>3
  <2>2. ASSUME NEW t \in Tasks, Held(t)'
        PROVE  /\ t \in Published("retain")' \union Mentions' \union Interrupts'
               /\ t \notin ToSet(decisions')
               /\ kind'[t] = "interrupt" => t \in claims' /\ pc'[t] = "off"
    <3>1. Held(t)
      BY <1>9, <2>2 DEF Held
    <3>2. /\ t \in Published("retain") \union Mentions \union Interrupts
          /\ t \notin ToSet(decisions)
          /\ kind[t] = "interrupt" => t \in claims /\ pc[t] = "off"
      BY <3>1 DEF InterruptsHeld
    <3>3. pc'[t] = "off" <=> pc[t] = "off"
      BY <1>3
    <3> QED BY <1>1, <3>2, <3>3 DEF Mentions, Interrupts
  <2>3. executor' = "open" /\ ~failed' =>
          \A t \in Interrupts' :
            t \in ToSet(decisions') \/ t \in settled' \/ Running(t)' \/ Held(t)'
    <3>1. Interrupts \subseteq Tasks /\ Interrupts' = Interrupts
      BY <1>1 DEF Interrupts, Published
    <3> QED BY <1>8, <1>9, <3>1 DEF InterruptsHeld
  <2> QED BY <1>9, <2>1, <2>2, <2>3 DEF InterruptsHeld
<1> QED BY <1>5, <1>6, <1>7, <1>10

LEMMA QuietKeeps ==
  ASSUME UpdatesInductive, Unmoved, Types', Moves, Bears(pc', bearer'),
         floor' # NoOne => pc'[floor'] = "speaking",
         \/ consumer' = consumer /\ active' = active
         \/ consumer'.at \in {"next", "over"} /\ (consumer.at # "held" \/ executor' # "open"),
         executor' = "open" => executor = "open", failed => failed'
  PROVE  UpdatesInductive'
<1>1. HandHeld' /\ QueuesHeld' /\ ClaimsHeld' /\ InterruptsHeld' /\ SlotsHeld'
  BY QuietStep
<1>2. BearersHeld'
  BY DEF BearersHeld, Bears, Reserved
<1> QED BY <1>1, <1>2 DEF UpdatesInductive

(* The values of what such a step may change.                              *)
Movable ==
  /\ consumer \in [at : {"next", "held", "replacing", "over"}, task : Tasks \union {NoOne}]
  /\ active \in Tasks \union {NoOne} /\ said \subseteq Ops /\ origins \subseteq Tasks
  /\ floor \in Ops \union {NoOne} /\ revision \in Ops \union {NoOne}
  /\ resumable \in BOOLEAN /\ paused \in BOOLEAN /\ failed \in BOOLEAN
  /\ executor \in {"open", "closing", "joined", "closed", "stuck"} /\ faults \in 0..MaxFaults

LEMMA IsMovable ==
  ASSUME Types
  PROVE  Movable
  BY DEF Types, TypeOK, Movable

LEMMA QuietTypes ==
  ASSUME Types, Unmoved, director' = director, evidence' = evidence,
         pc' \in [Ops -> Stages], bearer' \in [Ops -> Bearing], Movable'
  PROVE  Types'
  BY DEF Types, TypeOK, Unmoved, Stages, Bearing, Movable

(* What the types and the reservations say of the operations.              *)
LEMMA OpsTyped ==
  ASSUME UpdatesInductive
  PROVE  /\ pc \in [Ops -> Stages] /\ bearer \in [Ops -> Bearing] /\ Bears(pc, bearer)
         /\ floor \in Ops \union {NoOne}
         /\ floor # NoOne => pc[floor] = "speaking"
         /\ Turns \subseteq Ops /\ Tasks \subseteq Ops /\ Idle \in Ops /\ NoOne \notin Ops
         /\ Turns \intersect Tasks = {} /\ Idle \notin Turns \union Tasks
  BY DEF UpdatesInductive, Types, TypeOK, Stages, Bearing, Ops, BearersHeld

-----------------------------------------------------------------------------
(* Actions that move an operation along.                                   *)

LEMMA ReserveKeeps ==
  ASSUME UpdatesInductive, NEW u \in Turns, Reserve(u)
  PROVE  UpdatesInductive'
<1>1. /\ pc \in [Ops -> Stages] /\ bearer \in [Ops -> Bearing] /\ u \in Ops
      /\ pc[u] = "off" /\ MayReserve(bearer)
      /\ pc' = [pc EXCEPT ![u] = "reserved"] /\ bearer' = [bearer EXCEPT ![u] = "reserved"]
  BY OpsTyped DEF Reserve
<1>2. Types'
  <2>1. pc' \in [Ops -> Stages] /\ bearer' \in [Ops -> Bearing]
    BY <1>1, OpsTyped DEF Stages, Bearing
  <2>2. /\ Unmoved /\ director' = director /\ evidence' = evidence
        /\ UNCHANGED <<consumer, active, said, origins, speech, paused, failed, executor, faults>>
    BY DEF Unmoved, Reserve
  <2>3. Movable'
    BY <2>2, IsMovable DEF UpdatesInductive, Movable
  <2> QED BY <2>1, <2>2, <2>3, QuietTypes DEF UpdatesInductive
<1>3. Moves /\ Unmoved
  BY <1>1, OpsTyped DEF UpdatesInductive, ClaimsHeld, Moves, Unmoved, Reserve
<1>4. Bears(pc', bearer')
  <2>1. /\ \A p \in Ops : p # u => pc'[p] = pc[p] /\ bearer'[p] = bearer[p]
        /\ pc'[u] \notin {"off", "done"} /\ bearer'[u] # "none"
    BY <1>1
  <2>2. Bears(pc, bearer) /\ MayReserve(bearer) /\ u \in Ops
    BY <1>1, OpsTyped
  <2> QED BY ONLY <2>1, <2>2, OneMoreBears
<1>5. /\ floor' = floor /\ consumer' = consumer /\ active' = active
      /\ executor' = executor /\ failed' = failed
  BY DEF Reserve
<1>6. floor' # NoOne => pc'[floor'] = "speaking"
  BY <1>1, <1>5, OpsTyped
<1> QED BY <1>2, <1>3, <1>4, <1>5, <1>6, QuietKeeps

LEMMA ReleaseKeeps ==
  ASSUME UpdatesInductive, NEW u \in Turns, Release(u)
  PROVE  UpdatesInductive'
<1>1. /\ pc \in [Ops -> Stages] /\ bearer \in [Ops -> Bearing] /\ u \in Ops
      /\ pc[u] = "reserved"
      /\ pc' = [pc EXCEPT ![u] = "off"] /\ bearer' = [bearer EXCEPT ![u] = "none"]
  BY OpsTyped DEF Release
<1>2. Types'
  <2>1. pc' \in [Ops -> Stages] /\ bearer' \in [Ops -> Bearing]
    BY <1>1, OpsTyped DEF Stages, Bearing
  <2>2. /\ Unmoved /\ director' = director /\ evidence' = evidence
        /\ UNCHANGED <<consumer, active, said, origins, speech, paused, failed, executor, faults>>
    BY DEF Unmoved, Release
  <2>3. Movable'
    BY <2>2, IsMovable DEF UpdatesInductive, Movable
  <2> QED BY <2>1, <2>2, <2>3, QuietTypes DEF UpdatesInductive
<1>3. Moves /\ Unmoved
  BY <1>1, OpsTyped DEF UpdatesInductive, ClaimsHeld, Moves, Unmoved, Release
<1>4. Bears(pc', bearer')
  <2>1. /\ \A o \in Ops : bearer'[o] # "none" => bearer[o] # "none"
        /\ \A o \in Ops : bearer'[o] # "none" => pc'[o] \notin {"off", "done"}
        /\ \A o \in Ops \ {Idle} : pc'[o] \notin {"off", "done"} => bearer'[o] # "none"
    BY <1>1, OpsTyped DEF Bears
  <2>2. Bears(pc, bearer)
    BY OpsTyped
  <2> QED BY ONLY <2>1, <2>2, FewerBear
<1>5. /\ floor' = floor /\ consumer' = consumer /\ active' = active
      /\ executor' = executor /\ failed' = failed
  BY DEF Release
<1>6. floor' # NoOne => pc'[floor'] = "speaking"
  BY <1>1, <1>5, OpsTyped
<1> QED BY <1>2, <1>3, <1>4, <1>5, <1>6, QuietKeeps

(* Operations go on with the reservations they have.                       *)
Onward ==
  /\ pc' \in [Ops -> Stages]
  /\ \A o \in Ops : \/ pc'[o] = pc[o]
                    \/ Running(o) /\ pc'[o] \in {"entering", "speaking", "ending", "revoked"}
  /\ floor' # NoOne => pc'[floor'] = "speaking"

LEMMA GoOn ==
  ASSUME UpdatesInductive, Unmoved, director' = director, evidence' = evidence, Movable', Onward,
         bearer' \in [Ops -> Bearing], \A o \in Ops : bearer'[o] # "none" <=> bearer[o] # "none",
         \/ consumer' = consumer /\ active' = active
         \/ consumer'.at \in {"next", "over"} /\ (consumer.at # "held" \/ executor' # "open"),
         executor' = "open" => executor = "open", failed => failed'
  PROVE  UpdatesInductive'
<1>1. Types'
  BY QuietTypes DEF UpdatesInductive, Onward
<1>2. \A o \in Ops : pc'[o] \in {"off", "done"} <=> pc[o] \in {"off", "done"}
  BY DEF Running, Onward
<1>3. Bears(pc', bearer')
  BY <1>2, BearsOn DEF UpdatesInductive
<1>4. Moves /\ (floor' # NoOne => pc'[floor'] = "speaking")
  BY DEF Onward, Moves
<1> QED BY <1>1, <1>3, <1>4, QuietKeeps

LEMMA RespondKeeps ==
  ASSUME UpdatesInductive, NEW u \in Turns, Respond(u)
  PROVE  UpdatesInductive'
<1>1. /\ pc \in [Ops -> Stages] /\ u \in Ops /\ pc[u] = "reserved"
      /\ pc' = [pc EXCEPT ![u] = "ready"] /\ bearer' = bearer
  BY OpsTyped DEF Respond
<1>2. Types'
  <2>1. pc' \in [Ops -> Stages] /\ bearer' \in [Ops -> Bearing]
    BY <1>1, OpsTyped DEF Stages, Bearing
  <2>2. /\ Unmoved /\ director' = director /\ evidence' = evidence
        /\ UNCHANGED <<consumer, active, said, origins, speech, paused, failed, executor, faults>>
    BY DEF Unmoved, Respond
  <2>3. Movable'
    BY <2>2, IsMovable DEF UpdatesInductive, Movable
  <2> QED BY <2>1, <2>2, <2>3, QuietTypes DEF UpdatesInductive
<1>3. Moves /\ Unmoved
  BY <1>1, OpsTyped DEF UpdatesInductive, ClaimsHeld, Moves, Unmoved, Respond
<1>4. /\ floor' = floor /\ consumer' = consumer /\ active' = active
      /\ executor' = executor /\ failed' = failed
  BY DEF Respond
<1>5. Bears(pc', bearer')
  <2>1. \A o \in Ops : pc'[o] \in {"off", "done"} <=> pc[o] \in {"off", "done"}
    BY <1>1
  <2>2. \A o \in Ops : bearer'[o] # "none" <=> bearer[o] # "none"
    BY <1>1
  <2> QED BY <2>1, <2>2, BearsOn DEF UpdatesInductive
<1>6. floor' # NoOne => pc'[floor'] = "speaking"
  BY <1>1, <1>4, OpsTyped
<1> QED BY <1>2, <1>3, <1>4, <1>5, <1>6, QuietKeeps

LEMMA EnterKeeps ==
  ASSUME UpdatesInductive, NEW o \in Ops, Enter(o)
  PROVE  UpdatesInductive'
<1>1. Unmoved /\ director' = director /\ evidence' = evidence
  BY DEF Unmoved, Enter
<1>2. Movable'
  <2>1. Movable
    BY IsMovable DEF UpdatesInductive
  <2> QED BY <2>1, OpsTyped DEF Movable, Enter
<1>3. Onward
  BY OpsTyped DEF Onward, Stages, Running, Enter
<1>4. bearer' = bearer
  BY DEF Enter
<1>5. /\ consumer' = consumer /\ active' = active /\ failed' = failed
      /\ executor' = "open" => executor = "open"
  BY DEF Enter
<1> QED BY <1>1, <1>2, <1>3, <1>4, <1>5, OpsTyped, GoOn

LEMMA OpeningRefusedKeeps ==
  ASSUME UpdatesInductive, NEW o \in Ops, OpeningRefused(o)
  PROVE  UpdatesInductive'
<1>1. Unmoved /\ director' = director /\ evidence' = evidence
  BY DEF Unmoved, OpeningRefused
<1>2. Movable'
  <2>1. Movable
    BY IsMovable DEF UpdatesInductive
  <2> QED BY <2>1, OpsTyped DEF Movable, OpeningRefused
<1>3. Onward
  BY OpsTyped DEF Onward, Stages, Running, OpeningRefused
<1>4. bearer' = bearer
  BY DEF OpeningRefused
<1>5. /\ consumer' = consumer /\ active' = active /\ failed' = failed
      /\ executor' = "open" => executor = "open"
  BY DEF OpeningRefused
<1> QED BY <1>1, <1>2, <1>3, <1>4, <1>5, OpsTyped, GoOn

LEMMA SupersededKeeps ==
  ASSUME UpdatesInductive, NEW o \in Ops, Superseded(o)
  PROVE  UpdatesInductive'
<1>1. Unmoved /\ director' = director /\ evidence' = evidence
  BY DEF Unmoved, Superseded
<1>2. Movable'
  <2>1. Movable
    BY IsMovable DEF UpdatesInductive
  <2> QED BY <2>1, OpsTyped DEF Movable, Superseded
<1>3. Onward
  BY OpsTyped DEF Onward, Stages, Running, Superseded
<1>4. bearer' = bearer
  BY DEF Superseded
<1>5. /\ consumer' = consumer /\ active' = active /\ failed' = failed
      /\ executor' = "open" => executor = "open"
  BY DEF Superseded
<1> QED BY <1>1, <1>2, <1>3, <1>4, <1>5, OpsTyped, GoOn

LEMMA SayKeeps ==
  ASSUME UpdatesInductive, NEW o \in Ops, Say(o)
  PROVE  UpdatesInductive'
<1>1. Unmoved /\ director' = director /\ evidence' = evidence
  BY DEF Unmoved, Say
<1>2. Movable'
  <2>1. Movable
    BY IsMovable DEF UpdatesInductive
  <2> QED BY <2>1, OpsTyped DEF Movable, Say
<1>3. Onward
  BY OpsTyped DEF Onward, Stages, Running, Say
<1>4. bearer' = bearer
  BY DEF Say
<1>5. /\ consumer' = consumer /\ active' = active /\ failed' = failed
      /\ executor' = "open" => executor = "open"
  BY DEF Say
<1> QED BY <1>1, <1>2, <1>3, <1>4, <1>5, OpsTyped, GoOn

LEMMA SpeechEndsKeeps ==
  ASSUME UpdatesInductive, NEW o \in Ops, SpeechEnds(o)
  PROVE  UpdatesInductive'
<1>1. Unmoved /\ director' = director /\ evidence' = evidence
  BY DEF Unmoved, SpeechEnds
<1>2. Movable'
  <2>1. Movable
    BY IsMovable DEF UpdatesInductive
  <2> QED BY <2>1, OpsTyped DEF Movable, SpeechEnds
<1>3. Onward
  BY OpsTyped DEF Onward, Stages, Running, SpeechEnds
<1>4. bearer' = bearer
  BY DEF SpeechEnds
<1>5. /\ consumer' = consumer /\ active' = active /\ failed' = failed
      /\ executor' = "open" => executor = "open"
  BY DEF SpeechEnds
<1> QED BY <1>1, <1>2, <1>3, <1>4, <1>5, OpsTyped, GoOn

LEMMA OperationFailsKeeps ==
  ASSUME UpdatesInductive, NEW o \in Ops, OperationFails(o)
  PROVE  UpdatesInductive'
<1>1. Unmoved /\ director' = director /\ evidence' = evidence
  BY DEF Unmoved, OperationFails
<1>2. Movable'
  <2>1. Movable
    BY IsMovable DEF UpdatesInductive
  <2> QED BY <2>1, OpsTyped DEF Movable, OperationFails, Fault
<1>3. Onward
  BY OpsTyped DEF Onward, Stages, Running, OperationFails
<1>4. bearer' = bearer
  BY DEF OperationFails
<1>5. /\ consumer' = consumer /\ active' = active /\ failed' = failed
      /\ executor' = "open" => executor = "open"
  BY DEF OperationFails
<1> QED BY <1>1, <1>2, <1>3, <1>4, <1>5, OpsTyped, GoOn

LEMMA CancelForegroundKeeps ==
  ASSUME UpdatesInductive, CancelForeground
  PROVE  UpdatesInductive'
<1>1. Unmoved /\ director' = director /\ evidence' = evidence
  BY DEF Unmoved, CancelForeground
<1>2. Movable'
  <2>1. Movable
    BY IsMovable DEF UpdatesInductive
  <2> QED BY <2>1, OpsTyped DEF Movable, CancelForeground
<1>3. Onward
  BY OpsTyped, RevokedMoves DEF UpdatesInductive, Onward, Running, CancelForeground
<1>4. bearer' = bearer
  BY DEF CancelForeground
<1>5. /\ consumer' = consumer /\ active' = active /\ failed' = failed
      /\ executor' = "open" => executor = "open"
  BY DEF CancelForeground
<1> QED BY <1>1, <1>2, <1>3, <1>4, <1>5, OpsTyped, GoOn

LEMMA BeginCloseKeeps ==
  ASSUME UpdatesInductive, BeginClose
  PROVE  UpdatesInductive'
<1>1. Unmoved /\ director' = director /\ evidence' = evidence
  BY DEF Unmoved, BeginClose
<1>2. Movable'
  <2>1. Movable
    BY IsMovable DEF UpdatesInductive
  <2> QED BY <2>1, OpsTyped DEF Movable, BeginClose
<1>3. Onward
  BY OpsTyped, RevokedMoves DEF UpdatesInductive, Onward, Running, BeginClose
<1>4. bearer' = bearer
  BY DEF BeginClose
<1>5. /\ consumer' = consumer /\ active' = active /\ failed' = failed
      /\ executor' = "open" => executor = "open"
  BY DEF BeginClose
<1> QED BY <1>1, <1>2, <1>3, <1>4, <1>5, OpsTyped, GoOn

LEMMA StartSpeakingKeeps ==
  ASSUME UpdatesInductive, NEW t \in Tasks, StartSpeaking(t)
  PROVE  UpdatesInductive'
<1>1. Unmoved /\ director' = director /\ evidence' = evidence
  BY DEF Unmoved, StartSpeaking
<1>2. Movable'
  <2>1. Movable
    BY IsMovable DEF UpdatesInductive
  <2> QED BY <2>1, OpsTyped DEF Movable, StartSpeaking, GoForFloor
<1>3. Onward
  <2>1. pc[t] = "ready" /\ pc' = [Revoked(pc) EXCEPT ![t] = "entering"] /\ floor' = NoOne
    BY DEF StartSpeaking, GoForFloor
  <2> QED BY <2>1, OpsTyped, RevokedMoves DEF UpdatesInductive, Onward, Running, Stages
<1>4. bearer' \in [Ops -> Bearing] /\ \A o \in Ops : bearer'[o] # "none" <=> bearer[o] # "none"
  <2>1. pc[t] = "ready" /\ (bearer' = [bearer EXCEPT ![t] = "consumed"] \/ bearer' = bearer)
    BY DEF StartSpeaking, WithEvidence
  <2>2. bearer[t] # "none"
    BY <2>1, OpsTyped DEF Bears
  <2> QED BY <2>1, <2>2, OpsTyped DEF Bearing
<1>5. /\ consumer' = consumer /\ active' = active /\ failed' = failed /\ executor' = executor
  BY DEF StartSpeaking
<1> QED BY <1>1, <1>2, <1>3, <1>4, <1>5, GoOn

LEMMA CancelOperationsKeeps ==
  ASSUME UpdatesInductive, CancelOperations
  PROVE  UpdatesInductive'
<1>1. Unmoved /\ director' = director /\ evidence' = evidence
  BY DEF Unmoved, CancelOperations
<1>2. Movable'
  <2>1. Movable
    BY IsMovable DEF UpdatesInductive
  <2> QED BY <2>1, OpsTyped DEF Movable, CancelOperations
<1>3. Onward
  BY OpsTyped DEF Onward, Stages, Running, CancelOperations
<1>4. bearer' = bearer
  BY DEF CancelOperations
<1>5. /\ consumer'.at = "over" /\ executor' = "joined" /\ failed' = failed
  BY DEF CancelOperations
<1> QED BY <1>1, <1>2, <1>3, <1>4, <1>5, OpsTyped, GoOn

LEMMA PauseKeeps ==
  ASSUME UpdatesInductive, Pause
  PROVE  UpdatesInductive'
<1>1. Unmoved /\ director' = director /\ evidence' = evidence
  BY DEF Unmoved, Pause
<1>2. Movable'
  <2>1. Movable
    BY IsMovable DEF UpdatesInductive
  <2> QED BY <2>1, OpsTyped DEF Movable, Pause
<1>3. Onward
  BY OpsTyped DEF Onward, Stages, Running, Pause
<1>4. bearer' = bearer
  BY DEF Pause
<1>5. /\ consumer' = consumer /\ active' = active /\ failed' = failed
      /\ executor' = "open" => executor = "open"
  BY DEF Pause
<1> QED BY <1>1, <1>2, <1>3, <1>4, <1>5, OpsTyped, GoOn

LEMMA NoDecisionKeeps ==
  ASSUME UpdatesInductive, NoDecision
  PROVE  UpdatesInductive'
<1>1. Unmoved /\ director' = director /\ evidence' = evidence
  BY DEF Unmoved, NoDecision
<1>2. Movable'
  <2>1. Movable
    BY IsMovable DEF UpdatesInductive
  <2> QED BY <2>1, OpsTyped DEF Movable, NoDecision, ConsumerEnds
<1>3. Onward
  BY OpsTyped DEF Onward, Stages, Running, NoDecision
<1>4. bearer' = bearer
  BY DEF NoDecision
<1>5. /\ consumer'.at = "over" /\ consumer.at # "held" /\ executor' = executor
      /\ failed => failed'
  BY DEF NoDecision, ConsumerEnds
<1> QED BY <1>1, <1>2, <1>3, <1>4, <1>5, OpsTyped, GoOn

LEMMA ReplaceTimesOutKeeps ==
  ASSUME UpdatesInductive, ReplaceTimesOut
  PROVE  UpdatesInductive'
<1>1. Unmoved /\ director' = director /\ evidence' = evidence
  BY DEF Unmoved, ReplaceTimesOut
<1>2. Movable'
  <2>1. Movable
    BY IsMovable DEF UpdatesInductive
  <2> QED BY <2>1, OpsTyped DEF Movable, ReplaceTimesOut, ConsumerEnds, Fault
<1>3. Onward
  BY OpsTyped DEF Onward, Stages, Running, ReplaceTimesOut
<1>4. bearer' = bearer
  BY DEF ReplaceTimesOut
<1>5. /\ consumer'.at = "over" /\ consumer.at # "held" /\ executor' = executor
      /\ failed => failed'
  BY DEF ReplaceTimesOut, ConsumerEnds
<1> QED BY <1>1, <1>2, <1>3, <1>4, <1>5, OpsTyped, GoOn

LEMMA ReplacedKeeps ==
  ASSUME UpdatesInductive, Replaced
  PROVE  UpdatesInductive'
<1>1. Unmoved /\ director' = director /\ evidence' = evidence
  BY DEF Unmoved, Replaced
<1>2. Movable'
  <2>1. Movable
    BY IsMovable DEF UpdatesInductive
  <2> QED BY <2>1, OpsTyped DEF UpdatesInductive, InterruptsHeld, Movable, Replaced
<1>3. Onward
  BY OpsTyped DEF Onward, Stages, Running, Replaced
<1>4. bearer' = bearer
  BY DEF Replaced
<1>5. /\ consumer'.at = "next" /\ consumer.at # "held" /\ executor' = executor /\ failed' = failed
  BY DEF Replaced
<1> QED BY <1>1, <1>2, <1>3, <1>4, <1>5, OpsTyped, GoOn

LEMMA UnpauseKeeps ==
  ASSUME UpdatesInductive, Unpause
  PROVE  UpdatesInductive'
<1>1. Unmoved /\ director' = director /\ evidence' = evidence
  BY DEF Unmoved, Unpause
<1>2. Movable'
  <2>1. Movable
    BY IsMovable DEF UpdatesInductive
  <2> QED BY <2>1 DEF Movable, Unpause
<1>3. /\ pc' \in [Ops -> Stages] /\ bearer' \in [Ops -> Bearing] /\ Bears(pc', bearer')
      /\ \A o \in Ops : pc'[o] = pc[o] \/ (o = Idle /\ pc[o] = "off" /\ pc'[o] = "ready")
  BY OpsTyped, DrainBears DEF Unpause
<1>4. Types'
  BY <1>1, <1>2, <1>3, QuietTypes DEF UpdatesInductive
<1>5. Moves
  BY <1>3, OpsTyped DEF UpdatesInductive, ClaimsHeld, Moves
<1>6. /\ consumer' = consumer /\ active' = active /\ executor' = executor /\ failed' = failed
      /\ floor' = floor
  BY DEF Unpause
<1>7. floor' # NoOne => pc'[floor'] = "speaking"
  BY <1>3, <1>6, OpsTyped
<1> QED BY <1>1, <1>3, <1>4, <1>5, <1>6, <1>7, QuietKeeps

-----------------------------------------------------------------------------
(* Mentions that are claimed and given back.                               *)

LEMMA PublishedSame ==
  ASSUME UNCHANGED <<hand, kind, unresolved>>
  PROVE  \A k : Published(k)' = Published(k)
  BY DEF Published

(* The interrupts do not notice.                                           *)
LEMMA InterruptsAside ==
  ASSUME UpdatesInductive, UNCHANGED <<hand, kind, unresolved, decisions, consumer, active, failed, executor>>,
         \A t \in Interrupts : /\ t \in claims' <=> t \in claims
                               /\ t \in settled' <=> t \in settled,
         \A t \in Tasks : \/ pc'[t] = pc[t]
                          \/ Running(t) /\ pc'[t] \in {"entering", "speaking", "ending", "revoked"}
  PROVE  InterruptsHeld'
<1>1. InterruptsHeld
  BY DEF UpdatesInductive
<1>2. /\ Interrupts' = Interrupts /\ Mentions' = Mentions /\ Published("retain")' = Published("retain")
      /\ Interrupts \subseteq Tasks
      /\ \A t \in Interrupts : kind[t] = "interrupt"
      /\ \A t \in Tasks : kind[t] = "interrupt" => t \notin Mentions /\ t \notin Published("retain")
  BY PublishedSame DEF Interrupts, Mentions, Published
<1>3. \A t \in Tasks : /\ Running(t)' <=> Running(t)
                       /\ pc'[t] = "off" <=> pc[t] = "off"
                       /\ pc'[t] = "done" <=> pc[t] = "done"
                       /\ Held(t)' <=> Held(t)
  BY DEF Running, Held
<1>4. ASSUME NEW t \in Tasks
      PROVE  /\ pc'[t] # "off" => t \in Interrupts' \ ToSet(decisions')
             /\ pc'[t] # "off" => IF pc'[t] = "done" THEN t \in settled' ELSE Running(t)' /\ t \in claims'
             /\ t \in Interrupts' \intersect ToSet(decisions') => t \notin claims' \union settled'
  <2>1. /\ pc[t] # "off" => t \in Interrupts \ ToSet(decisions)
        /\ pc[t] # "off" => IF pc[t] = "done" THEN t \in settled ELSE Running(t) /\ t \in claims
        /\ t \in Interrupts \intersect ToSet(decisions) => t \notin claims \union settled
    BY <1>1 DEF InterruptsHeld
  <2> QED BY <1>2, <1>3, <2>1
<1>5. ASSUME NEW t \in Tasks, Held(t)'
      PROVE  /\ t \in Published("retain")' \union Mentions' \union Interrupts'
             /\ t \notin ToSet(decisions')
             /\ kind'[t] = "interrupt" => t \in claims' /\ pc'[t] = "off"
  <2>1. Held(t)
    BY <1>5 DEF Held
  <2>2. /\ t \in Published("retain") \union Mentions \union Interrupts
        /\ t \notin ToSet(decisions)
        /\ kind[t] = "interrupt" => t \in claims /\ pc[t] = "off"
    BY <1>1, <2>1 DEF InterruptsHeld
  <2> QED BY <1>2, <1>3, <2>2
<1>6. executor' = "open" /\ ~failed' =>
        \A t \in Interrupts' : t \in ToSet(decisions') \/ t \in settled' \/ Running(t)' \/ Held(t)'
  BY <1>1, <1>2, <1>3 DEF InterruptsHeld
<1>7. /\ consumer'.at = "held" => consumer'.task \in Tasks
      /\ consumer'.at = "replacing" => consumer'.task \in Tasks /\ active' \in Tasks
  BY <1>1 DEF InterruptsHeld
<1> QED BY <1>4, <1>5, <1>6, <1>7 DEF InterruptsHeld

(* The claims that hold slots.                                             *)
Slotted == {t \in claims : kind[t] = "mention"}

LEMMA ClaimsCounted ==
  ASSUME UpdatesInductive
  PROVE  /\ IsFiniteSet(claims) /\ IsFiniteSet(Slotted)
         /\ Cardinality(claims) \in Nat /\ Cardinality(Slotted) \in Nat
         /\ Cardinality(claims) <= MaxMentions + MaxInterrupts
         /\ MaxMentions + MaxInterrupts \in Nat
         /\ ClaimsLeft = MaxMentions + MaxInterrupts - Cardinality(claims) /\ ClaimsLeft \in Nat
         /\ slots \in Nat /\ Len(mentions) \in Nat
         /\ Slotted = Mentions \intersect claims
<1>1. IsFiniteSet(claims) /\ Cardinality(claims) <= MaxMentions + MaxInterrupts /\ slots \in 0..MaxMentions
      /\ mentions \in Seq(Tasks) /\ claims \subseteq Mentions \union Interrupts
  BY DEF UpdatesInductive, Types, TypeOK, ClaimsHeld
<1>2. Slotted \subseteq claims
  BY DEF Slotted
<1>3. /\ IsFiniteSet(Slotted) /\ Cardinality(claims) \in Nat /\ Cardinality(Slotted) \in Nat
  BY ONLY <1>1, <1>2, FS_Subset, FS_CardinalityType
<1>4. MaxMentions \in Nat /\ MaxInterrupts \in Nat
  OBVIOUS
<1>5. Slotted = Mentions \intersect claims
  BY <1>1 DEF Slotted, Mentions, Interrupts, Published
<1> QED BY <1>1, <1>3, <1>4, <1>5 DEF ClaimsLeft

LEMMA DisjointCount ==
  ASSUME NEW S, NEW T, IsFiniteSet(S), IsFiniteSet(T), S \intersect T = {}
  PROVE  IsFiniteSet(S \union T) /\ Cardinality(S \union T) = Cardinality(S) + Cardinality(T)
<1>1. IsFiniteSet(S \union T)
      /\ Cardinality(S \union T) = Cardinality(S) + Cardinality(T) - Cardinality(S \intersect T)
  BY FS_Union
<1>2. Cardinality(S) \in Nat /\ Cardinality(T) \in Nat /\ Cardinality(S \intersect T) = 0
  BY FS_CardinalityType, FS_EmptySet
<1> QED BY <1>1, <1>2

LEMMA LessCount ==
  ASSUME NEW S, NEW T, IsFiniteSet(S), T \subseteq S
  PROVE  /\ IsFiniteSet(S \ T) /\ IsFiniteSet(T)
         /\ Cardinality(S \ T) = Cardinality(S) - Cardinality(T)
         /\ Cardinality(T) \in Nat /\ Cardinality(S) \in Nat /\ Cardinality(S \ T) \in Nat
<1>1. IsFiniteSet(T) /\ IsFiniteSet(S \ T)
  BY FS_Subset, FS_Difference
<1>2. Cardinality(S \ T) = Cardinality(S) - Cardinality(S \intersect T)
  BY FS_Difference
<1>3. S \intersect T = T
  OBVIOUS
<1>4. Cardinality(T) \in Nat /\ Cardinality(S) \in Nat /\ Cardinality(S \ T) \in Nat
  BY <1>1, FS_CardinalityType
<1> QED BY <1>1, <1>2, <1>3, <1>4

(* An operation takes mentions from the queue and has a claim on each.     *)
LEMMA MentionsTaken ==
  ASSUME UpdatesInductive, NEW o \in Turns \union {Idle},
         NEW taken \in Seq(Tasks), NEW left \in Seq(Tasks), IsInjective(taken), IsInjective(left),
         ToSet(taken) \union ToSet(left) = ToSet(mentions), ToSet(taken) \intersect ToSet(left) = {},
         Len(taken) + Len(left) = Len(mentions), Len(taken) <= ClaimsLeft, mine[o] = <<>>,
         mine' = [mine EXCEPT ![o] = taken], mentions' = left, claims' = claims \union ToSet(taken),
         pc'[o] \in {"entering", "speaking", "ending", "revoked"},
         \A p \in Ops : \/ p = o \/ pc'[p] = pc[p]
                        \/ Running(p) /\ pc'[p] \in {"entering", "speaking", "ending", "revoked"},
         UNCHANGED <<hand, kind, unresolved, decisions, interrupts, slots, settled, consumer, active,
                     failed, executor>>
  PROVE  /\ HandHeld' /\ QueuesHeld' /\ ClaimsHeld' /\ InterruptsHeld' /\ SlotsHeld'
         /\ mine' \in [Ops -> Seq(Tasks)] /\ claims' \subseteq Tasks /\ IsFiniteSet(claims')
         /\ Cardinality(claims') <= MaxMentions + MaxInterrupts
<1>0. HandHeld /\ QueuesHeld /\ ClaimsHeld /\ InterruptsHeld /\ SlotsHeld /\ Types
  BY DEF UpdatesInductive
<1>1. /\ o \in Ops /\ o \notin Tasks /\ mine \in [Ops -> Seq(Tasks)] /\ claims \subseteq Tasks
      /\ ToSet(taken) \subseteq Tasks /\ Len(taken) \in Nat /\ Len(left) \in Nat
  <2>1. ToSet(taken) \subseteq Tasks
    BY DEF ToSet
  <2>2. o \in Ops /\ o \notin Tasks
    BY OpsTyped
  <2>3. mine \in [Ops -> Seq(Tasks)] /\ claims \subseteq Tasks
    BY <1>0 DEF Types, TypeOK
  <2>4. Len(taken) \in Nat /\ Len(left) \in Nat
    OBVIOUS
  <2> QED BY <2>1, <2>2, <2>3, <2>4
<1>2. /\ Mentions' = Mentions /\ Interrupts' = Interrupts
      /\ Published("retain")' = Published("retain")
  BY PublishedSame DEF Mentions, Interrupts
<1>3. ToSet(taken) \subseteq Mentions \ (claims \union settled)
  BY <1>0 DEF QueuesHeld
<1>4. HandHeld'
  BY <1>0 DEF HandHeld
<1>5. QueuesHeld'
  BY <1>0, <1>2, <1>3 DEF QueuesHeld
<1>6. mine' \in [Ops -> Seq(Tasks)] /\ mine'[o] = taken /\ \A p \in Ops : p # o => mine'[p] = mine[p]
  BY <1>1
<1>7. ClaimsHeld'
  <2>1. /\ claims' \union settled' \subseteq Mentions' \union Interrupts'
        /\ claims' \intersect settled' = {}
    BY <1>0, <1>2, <1>3 DEF ClaimsHeld
  <2>2. ASSUME NEW p \in Ops
        PROVE  /\ IsInjective(mine'[p]) /\ ToSet(mine'[p]) \subseteq Mentions' \intersect claims'
               /\ mine'[p] # <<>> => /\ p \notin Tasks
                                     /\ pc'[p] \in {"entering", "speaking", "ending", "revoked"}
    <3>1. CASE p = o
      BY <1>1, <1>2, <1>3, <1>6, <3>1
    <3>2. CASE p # o
      BY <1>0, <1>2, <1>6, <3>2 DEF ClaimsHeld
    <3> QED BY <3>1, <3>2
  <2>3. ASSUME NEW p \in Ops, NEW q \in Ops, p # q
        PROVE  ToSet(mine'[p]) \intersect ToSet(mine'[q]) = {}
    <3>1. \A r \in Ops : r # o => ToSet(mine[r]) \intersect ToSet(taken) = {}
      BY <1>0, <1>3 DEF ClaimsHeld
    <3>2. CASE p # o /\ q # o
      BY <1>0, <1>6, <2>3, <3>2 DEF ClaimsHeld
    <3> QED BY <1>6, <2>3, <3>1, <3>2
  <2>4. ASSUME NEW t \in Mentions' \intersect claims' PROVE \E p \in Ops : t \in ToSet(mine'[p])
    <3>1. CASE t \in ToSet(taken)
      BY <1>1, <1>6, <3>1
    <3>2. CASE t \in Mentions \intersect claims
      <4>1. PICK p \in Ops : t \in ToSet(mine[p])
        BY <1>0, <3>2 DEF ClaimsHeld
      <4>2. p # o
        BY <4>1, DistinctEmpty
      <4> QED BY <1>6, <4>1, <4>2
    <3> QED BY <1>2, <2>4, <3>1, <3>2
  <2>5. Mentions' \subseteq ToSet(mentions') \union claims' \union settled'
    BY <1>0, <1>2 DEF ClaimsHeld
  <2> QED BY <2>1, <2>2, <2>3, <2>4, <2>5 DEF ClaimsHeld
<1>8. InterruptsHeld'
  <2>1. \A t \in Interrupts : t \notin ToSet(taken)
    BY <1>3 DEF Interrupts, Mentions, Published
  <2> QED BY <1>1, <2>1, OpsTyped, InterruptsAside
<1>9. IsFiniteSet(ToSet(taken)) /\ Cardinality(ToSet(taken)) = Len(taken)
  BY DistinctCount
<1>10. /\ IsFiniteSet(claims') /\ Cardinality(claims') = Cardinality(claims) + Len(taken)
       /\ claims' \subseteq Tasks /\ Cardinality(claims') <= MaxMentions + MaxInterrupts
  <2>1. IsFiniteSet(claims') /\ Cardinality(claims') = Cardinality(claims) + Len(taken)
    BY <1>3, <1>9, ClaimsCounted, DisjointCount
  <2>2. /\ Cardinality(claims) \in Nat /\ MaxMentions + MaxInterrupts \in Nat
        /\ Len(taken) <= MaxMentions + MaxInterrupts - Cardinality(claims)
    BY ClaimsCounted
  <2>3. Cardinality(claims) + Len(taken) <= MaxMentions + MaxInterrupts
    BY <1>1, <2>2
  <2>4. claims' \subseteq Tasks
    BY <1>1
  <2> QED BY <2>1, <2>3, <2>4
<1>11. SlotsHeld'
  <2>1. {t \in claims : kind[t] = "mention"}' = Slotted \union ToSet(taken)
    BY <1>3 DEF Slotted, Mentions, Published
  <2>2. Slotted \intersect ToSet(taken) = {}
    BY <1>3 DEF Slotted
  <2>3. Cardinality({t \in claims : kind[t] = "mention"}') = Cardinality(Slotted) + Len(taken)
    BY <1>9, <2>1, <2>2, ClaimsCounted, DisjointCount
  <2>4. Cardinality({t \in claims : kind[t] = "mention"}) = Cardinality(Slotted)
    BY DEF Slotted
  <2>6. /\ slots' = slots /\ hand' = hand /\ kind' = kind
    OBVIOUS
  <2>7. Len(mentions') \in Nat /\ Cardinality(Slotted) + Len(taken) \in Nat
        /\ slots \in Nat /\ Len(mentions) \in Nat /\ Cardinality(Slotted) \in Nat
        /\ Len(taken) \in Nat
    <3>1. Cardinality(Slotted) \in Nat /\ slots \in Nat /\ Len(mentions) \in Nat
      BY ClaimsCounted
    <3> QED BY <1>1, <3>1
  <2> DEFINE room == IF hand.at = "room" /\ kind[hand.task] = "mention" THEN 1 ELSE 0
  <2>8. MaxMentions = slots + Len(mentions) + Cardinality(Slotted) + room
    BY <1>0, <2>4 DEF SlotsHeld
  <2>9. room \in Nat
    OBVIOUS
  <2> HIDE DEF room
  <2>10. Len(mentions) = Len(taken) + Len(mentions')
    BY <1>1
  <2>11. MaxMentions = slots + Len(mentions') + (Cardinality(Slotted) + Len(taken)) + room
    BY ONLY <1>1, <2>7, <2>8, <2>9, <2>10
  <2> QED BY <2>3, <2>6, <2>11 DEF SlotsHeld, room
<1> QED BY <1>4, <1>5, <1>6, <1>7, <1>8, <1>10, <1>11

(* An operation ends: what it claimed is settled, or waits again.          *)
LEMMA MentionsEnded ==
  ASSUME UpdatesInductive, NEW o \in Turns \union {Idle}, MentionsEnd(o),
         \A p \in Ops : p = o \/ pc'[p] = pc[p] \/ (p = Idle /\ pc[p] = "off"),
         UNCHANGED <<hand, kind, unresolved, decisions, interrupts, consumer, active, failed, executor>>
  PROVE  /\ HandHeld' /\ QueuesHeld' /\ ClaimsHeld' /\ InterruptsHeld' /\ SlotsHeld'
         /\ mine' \in [Ops -> Seq(Tasks)] /\ claims' \subseteq Tasks /\ settled' \subseteq Tasks
         /\ mentions' \in Seq(Tasks) /\ slots' \in 0..MaxMentions /\ said' \subseteq Ops
         /\ IsFiniteSet(claims') /\ Cardinality(claims') <= MaxMentions + MaxInterrupts
<1> DEFINE back == mine[o]
<1>0. HandHeld /\ QueuesHeld /\ ClaimsHeld /\ InterruptsHeld /\ SlotsHeld /\ Types
  BY DEF UpdatesInductive
<1>1. o \in Ops /\ o \notin Tasks /\ Tasks \subseteq Ops /\ Idle \notin Tasks
  BY OpsTyped
<1>2. /\ mine \in [Ops -> Seq(Tasks)] /\ claims \subseteq Tasks /\ settled \subseteq Tasks
      /\ mentions \in Seq(Tasks) /\ said \subseteq Ops
  BY <1>0 DEF Types, TypeOK
<1>3. /\ Mentions' = Mentions /\ Interrupts' = Interrupts
      /\ Published("retain")' = Published("retain")
  BY PublishedSame DEF Mentions, Interrupts
<1>4. /\ back \in Seq(Tasks) /\ IsInjective(back) /\ ToSet(back) \subseteq Mentions \intersect claims
      /\ Len(back) \in Nat
  <2>1. back \in Seq(Tasks)
    BY <1>1, <1>2
  <2> QED BY <1>0, <1>1, <2>1 DEF ClaimsHeld
<1>5. /\ claims' = claims \ ToSet(back) /\ said' = said \ {o}
      /\ mine' = [mine EXCEPT ![o] = <<>>]
      /\ \/ /\ settled' = settled \union ToSet(back) /\ slots' = slots + Len(back) /\ mentions' = mentions
         \/ mentions' = back \o mentions /\ settled' = settled /\ slots' = slots
  BY DEF MentionsEnd
<1> HIDE DEF back
<1>6. /\ IsInjective(back \o mentions) /\ back \o mentions \in Seq(Tasks)
      /\ ToSet(back \o mentions) = ToSet(back) \union ToSet(mentions)
      /\ Len(back \o mentions) = Len(back) + Len(mentions)
  <2>1. IsInjective(mentions) /\ ToSet(back) \intersect ToSet(mentions) = {}
    BY <1>0, <1>4 DEF QueuesHeld
  <2> QED BY ONLY <1>2, <1>4, <2>1, DistinctConcat
<1>7. HandHeld'
  BY <1>0 DEF HandHeld
<1>8. QueuesHeld'
  <2>1. IsInjective(decisions') /\ IsInjective(mentions')
    BY <1>0, <1>5, <1>6 DEF QueuesHeld
  <2>2. ToSet(decisions') \subseteq Published("retain")' \union Mentions' \union Interrupts'
    BY <1>0, <1>3 DEF QueuesHeld
  <2>3. ToSet(mentions') \subseteq Mentions' \ (claims' \union settled')
    <3>1. ToSet(mentions) \subseteq Mentions \ (claims \union settled) /\ claims \intersect settled = {}
      BY <1>0 DEF QueuesHeld, ClaimsHeld
    <3>2. CASE settled' = settled \union ToSet(back) /\ mentions' = mentions
      BY <1>3, <1>4, <1>5, <3>1, <3>2
    <3>3. CASE mentions' = back \o mentions /\ settled' = settled
      BY <1>3, <1>4, <1>5, <1>6, <3>1, <3>3
    <3> QED BY <1>5, <3>2, <3>3
  <2>4. interrupts' = Sift(decisions', {t \in Tasks : kind'[t] = "interrupt"})
    BY <1>0 DEF QueuesHeld
  <2> QED BY <2>1, <2>2, <2>3, <2>4 DEF QueuesHeld
<1>9. mine' \in [Ops -> Seq(Tasks)] /\ mine'[o] = <<>> /\ \A p \in Ops : p # o => mine'[p] = mine[p]
  BY <1>1, <1>2, <1>5
<1>10. ClaimsHeld'
  <2>1. \A p \in Ops : p # o => ToSet(mine[p]) \intersect ToSet(back) = {}
    BY <1>0, <1>1 DEF ClaimsHeld, back
  <2>2. /\ claims' \union settled' \subseteq Mentions' \union Interrupts'
        /\ claims' \intersect settled' = {}
    BY <1>0, <1>3, <1>4, <1>5 DEF ClaimsHeld
  <2>3. ASSUME NEW p \in Ops
        PROVE  /\ IsInjective(mine'[p]) /\ ToSet(mine'[p]) \subseteq Mentions' \intersect claims'
               /\ mine'[p] # <<>> => /\ p \notin Tasks
                                     /\ pc'[p] \in {"entering", "speaking", "ending", "revoked"}
    <3>1. CASE p = o
      BY <1>9, <3>1, DistinctEmpty
    <3>2. CASE p # o
      <4>1. /\ IsInjective(mine[p]) /\ ToSet(mine[p]) \subseteq Mentions \intersect claims
            /\ mine[p] # <<>> => /\ p \notin Tasks
                                 /\ pc[p] \in {"entering", "speaking", "ending", "revoked"}
        BY <1>0 DEF ClaimsHeld
      <4>2. ToSet(mine[p]) \intersect ToSet(back) = {} /\ mine'[p] = mine[p]
            /\ (pc'[p] = pc[p] \/ pc[p] = "off")
        BY <1>9, <2>1, <3>2
      <4> QED BY <1>3, <1>5, <4>1, <4>2
    <3> QED BY <3>1, <3>2
  <2>4. ASSUME NEW p \in Ops, NEW q \in Ops, p # q
        PROVE  ToSet(mine'[p]) \intersect ToSet(mine'[q]) = {}
    <3>1. CASE p # o /\ q # o
      BY <1>0, <1>9, <2>4, <3>1 DEF ClaimsHeld
    <3>2. ToSet(mine'[o]) = {}
      BY <1>9, DistinctEmpty
    <3> QED BY <3>1, <3>2
  <2>5. ASSUME NEW t \in Mentions' \intersect claims' PROVE \E p \in Ops : t \in ToSet(mine'[p])
    <3>1. t \in Mentions \intersect claims /\ t \notin ToSet(back)
      BY <1>3, <1>5
    <3>2. PICK p \in Ops : t \in ToSet(mine[p])
      BY <1>0, <3>1 DEF ClaimsHeld
    <3>3. p # o
      BY <3>1, <3>2 DEF back
    <3> QED BY <1>9, <3>2, <3>3
  <2>6. Mentions' \subseteq ToSet(mentions') \union claims' \union settled'
    BY <1>0, <1>3, <1>5, <1>6 DEF ClaimsHeld
  <2> QED BY <2>2, <2>3, <2>4, <2>5, <2>6 DEF ClaimsHeld
<1>11. InterruptsHeld'
  <2>1. \A t \in Interrupts : t \notin ToSet(back)
    BY <1>4 DEF Interrupts, Mentions, Published
  <2>2. \A t \in Interrupts : /\ t \in claims' <=> t \in claims
                              /\ t \in settled' <=> t \in settled
    BY <1>5, <2>1
  <2>3. \A t \in Tasks : pc'[t] = pc[t]
    BY <1>1
  <2> QED BY <2>2, <2>3, InterruptsAside
<1>12. IsFiniteSet(ToSet(back)) /\ Cardinality(ToSet(back)) = Len(back)
  BY <1>4, DistinctCount
<1>13. /\ IsFiniteSet(claims') /\ Cardinality(claims') <= MaxMentions + MaxInterrupts
       /\ claims' \subseteq Tasks /\ settled' \subseteq Tasks
  <2>1. ToSet(back) \subseteq claims
    BY <1>4
  <2>2. IsFiniteSet(claims) /\ Cardinality(claims) <= MaxMentions + MaxInterrupts
        /\ MaxMentions + MaxInterrupts \in Nat
    BY ClaimsCounted
  <2>3. /\ IsFiniteSet(claims \ ToSet(back))
        /\ Cardinality(claims \ ToSet(back)) = Cardinality(claims) - Cardinality(ToSet(back))
        /\ Cardinality(claims) \in Nat /\ Cardinality(ToSet(back)) \in Nat
    BY ONLY <2>1, <2>2, LessCount
  <2>4. Cardinality(claims \ ToSet(back)) <= MaxMentions + MaxInterrupts
    BY ONLY <2>2, <2>3
  <2> QED BY <1>2, <1>5, <2>1, <2>3, <2>4
<1>14. SlotsHeld' /\ slots' \in 0..MaxMentions
  <2>1. {t \in claims : kind[t] = "mention"}' = Slotted \ ToSet(back)
    BY <1>5 DEF Slotted
  <2>2. ToSet(back) \subseteq Slotted
    BY <1>4, ClaimsCounted
  <2>3. IsFiniteSet(Slotted) /\ slots \in Nat /\ Len(mentions) \in Nat
    BY ClaimsCounted
  <2>4. /\ Cardinality(Slotted \ ToSet(back)) = Cardinality(Slotted) - Len(back)
        /\ Cardinality(Slotted) \in Nat /\ Cardinality(Slotted \ ToSet(back)) \in Nat
    BY ONLY <1>12, <2>2, <2>3, LessCount
  <2> DEFINE room == IF hand.at = "room" /\ kind[hand.task] = "mention" THEN 1 ELSE 0
  <2>5. MaxMentions = slots + Len(mentions) + Cardinality(Slotted) + room
    BY <1>0 DEF SlotsHeld, Slotted
  <2>6. room \in Nat
    OBVIOUS
  <2>7. room' = room
    OBVIOUS
  <2> HIDE DEF room
  <2>8. slots' \in Nat /\ Len(mentions') \in Nat
        /\ slots' + Len(mentions') = slots + Len(mentions) + Len(back)
    <3>1. CASE slots' = slots + Len(back) /\ mentions' = mentions
      BY <1>4, <2>3, <3>1
    <3>2. CASE slots' = slots /\ mentions' = back \o mentions
      BY <1>4, <1>6, <2>3, <3>2
    <3> QED BY <1>5, <3>1, <3>2
  <2>9. Len(back) \in Nat /\ MaxMentions \in Nat
    BY <1>4
  <2> DEFINE left == Cardinality(Slotted \ ToSet(back))
             held == Cardinality(Slotted)
  <2>10. left = held - Len(back) /\ held \in Nat /\ left \in Nat
    BY <2>4
  <2>11. MaxMentions = slots + Len(mentions) + held + room
    BY <2>5
  <2> HIDE DEF left, held
  <2>12. MaxMentions = slots' + Len(mentions') + left + room
    BY ONLY <2>3, <2>6, <2>8, <2>9, <2>10, <2>11
  <2>13. slots' \in 0..MaxMentions
    BY ONLY <2>6, <2>8, <2>9, <2>10, <2>12
  <2> QED BY <2>1, <2>7, <2>12, <2>13 DEF SlotsHeld, room, left
<1> QED BY <1>1, <1>2, <1>5, <1>6, <1>7, <1>8, <1>9, <1>10, <1>11, <1>13, <1>14

-----------------------------------------------------------------------------
(* Actions that claim mentions and give them back.                         *)

LEMMA MentionTypes ==
  ASSUME Types, UNCHANGED <<evidence, hand, kind, unresolved, director, decisions, interrupts>>,
         mentions' \in Seq(Tasks), slots' \in 0..MaxMentions, claims' \subseteq Tasks,
         IsFiniteSet(claims'), Cardinality(claims') <= MaxMentions + MaxInterrupts,
         settled' \subseteq Tasks, mine' \in [Ops -> Seq(Tasks)],
         pc' \in [Ops -> Stages], bearer' \in [Ops -> Bearing], Movable'
  PROVE  Types'
  BY DEF Types, TypeOK, Stages, Bearing, Movable

(* How many mentions a turn takes.                                         *)
LEMMA LeastOfThree ==
  ASSUME NEW a \in Nat, NEW b \in Nat, NEW c \in Nat
  PROVE  \E m \in 0..a : m <= b /\ m <= c /\ (m = a \/ m = b \/ m = c)
<1>1. CASE a <= b /\ a <= c
  BY <1>1
<1>2. CASE b <= a /\ b <= c
  BY <1>2
<1>3. CASE c <= a /\ c <= b
  BY <1>3
<1> QED BY <1>1, <1>2, <1>3

(* Whoever goes for the floor goes on, and so does whoever loses it.       *)
LEMMA GoesForFloor ==
  ASSUME UpdatesInductive, NEW o \in Ops, pc[o] = "ready", GoForFloor(o)
  PROVE  /\ pc' \in [Ops -> Stages] /\ pc'[o] = "entering" /\ floor' = NoOne
         /\ revision' = o /\ resumable' = resumable
         /\ \A p \in Ops : \/ pc'[p] = pc[p]
                           \/ Running(p) /\ pc'[p] \in {"entering", "speaking", "ending", "revoked"}
         /\ \A p \in Ops : pc'[p] \in {"off", "done"} <=> pc[p] \in {"off", "done"}
<1>1. /\ Revoked(pc) \in [Ops -> Stages]
      /\ \A p \in Ops : Revoked(pc)[p] = pc[p]
                        \/ (pc[p] = "speaking" /\ Revoked(pc)[p] = "revoked")
  BY RevokedMoves DEF UpdatesInductive
<1>2. pc' = [Revoked(pc) EXCEPT ![o] = "entering"] /\ floor' = NoOne /\ revision' = o
      /\ resumable' = resumable
  BY DEF GoForFloor
<1> QED BY <1>1, <1>2 DEF Running, Stages

LEMMA StartTurnKeeps ==
  ASSUME UpdatesInductive, NEW u \in Turns, StartTurn(u)
  PROVE  UpdatesInductive'
<1> DEFINE fits(m) == /\ m <= MaxPerTurn /\ m <= ClaimsLeft
                      /\ \/ m = Len(mentions) \/ m = MaxPerTurn \/ m = ClaimsLeft
           n == CHOOSE m \in 0..Len(mentions) : fits(m)
           taken == SubSeq(mentions, 1, n)
           left == SubSeq(mentions, n + 1, Len(mentions))
<1>0. HandHeld /\ QueuesHeld /\ ClaimsHeld /\ InterruptsHeld /\ SlotsHeld /\ Types
  BY DEF UpdatesInductive
<1>1. n \in 0..Len(mentions) /\ n <= ClaimsLeft
  <2>1. Len(mentions) \in Nat /\ MaxPerTurn \in Nat /\ ClaimsLeft \in Nat
    BY ClaimsCounted
  <2>2. PICK m \in 0..Len(mentions) :
          m <= MaxPerTurn /\ m <= ClaimsLeft /\ (m = Len(mentions) \/ m = MaxPerTurn \/ m = ClaimsLeft)
    BY ONLY <2>1, LeastOfThree
  <2>3. fits(n) /\ n \in 0..Len(mentions)
    BY <2>2
  <2> QED BY <2>3
<1>2. /\ pc[u] = "ready" /\ mine' = [mine EXCEPT ![u] = taken] /\ mentions' = left
      /\ claims' = claims \union ToSet(taken) /\ GoForFloor(u)
      /\ bearer' = bearer
      /\ UNCHANGED <<evidence, hand, kind, unresolved, director, decisions, interrupts, slots, settled,
                     consumer, active, failed, said, origins, paused, executor, faults>>
  BY DEF StartTurn
<1> HIDE DEF n
<1>3. mentions \in Seq(Tasks) /\ IsInjective(mentions) /\ u \in Ops
  BY <1>0, OpsTyped DEF Types, TypeOK, QueuesHeld
<1>4. /\ taken \in Seq(Tasks) /\ left \in Seq(Tasks) /\ IsInjective(taken) /\ IsInjective(left)
      /\ ToSet(taken) \union ToSet(left) = ToSet(mentions) /\ ToSet(taken) \intersect ToSet(left) = {}
      /\ Len(taken) = n /\ Len(left) = Len(mentions) - n
  BY ONLY <1>1, <1>3, DistinctSplit
<1> HIDE DEF taken, left
<1>5. Len(taken) + Len(left) = Len(mentions) /\ Len(taken) <= ClaimsLeft
  <2>1. Len(mentions) \in Nat
    BY <1>3
  <2> QED BY <1>1, <1>4, <2>1
<1>6. mine[u] = <<>>
  BY <1>0, <1>2, <1>3 DEF ClaimsHeld
<1>7. /\ pc' \in [Ops -> Stages] /\ pc'[u] = "entering" /\ floor' = NoOne
      /\ revision' = u /\ resumable' = resumable
      /\ \A p \in Ops : \/ pc'[p] = pc[p]
                        \/ Running(p) /\ pc'[p] \in {"entering", "speaking", "ending", "revoked"}
      /\ \A p \in Ops : pc'[p] \in {"off", "done"} <=> pc[p] \in {"off", "done"}
  BY <1>2, <1>3, GoesForFloor
<1>8. /\ HandHeld' /\ QueuesHeld' /\ ClaimsHeld' /\ InterruptsHeld' /\ SlotsHeld'
      /\ mine' \in [Ops -> Seq(Tasks)] /\ claims' \subseteq Tasks /\ IsFiniteSet(claims')
      /\ Cardinality(claims') <= MaxMentions + MaxInterrupts
  <2>1. u \in Turns \union {Idle} /\ pc'[u] \in {"entering", "speaking", "ending", "revoked"}
    BY <1>7
  <2>2. \A p \in Ops : \/ p = u \/ pc'[p] = pc[p]
                       \/ Running(p) /\ pc'[p] \in {"entering", "speaking", "ending", "revoked"}
    BY <1>7
  <2>3. /\ mine' = [mine EXCEPT ![u] = taken] /\ mentions' = left
        /\ claims' = claims \union ToSet(taken)
        /\ UNCHANGED <<hand, kind, unresolved, decisions, interrupts, slots, settled, consumer, active,
                       failed, executor>>
    BY <1>2
  <2> QED BY <1>4, <1>5, <1>6, <2>1, <2>2, <2>3, MentionsTaken
<1>9. Types'
  <2>1. Movable
    BY <1>0, IsMovable
  <2>2. Movable'
    BY <1>2, <1>3, <1>7, <2>1 DEF Movable
  <2>3. slots' \in 0..MaxMentions /\ settled' \subseteq Tasks /\ bearer' \in [Ops -> Bearing]
        /\ mentions' \in Seq(Tasks)
    BY <1>0, <1>2, <1>4, OpsTyped DEF Types, TypeOK
  <2> QED BY <1>0, <1>2, <1>7, <1>8, <2>2, <2>3, MentionTypes
<1>10. BearersHeld'
  <2>1. Bears(pc', bearer')
    BY <1>2, <1>7, BearsOn DEF UpdatesInductive
  <2> QED BY <1>7, <2>1 DEF BearersHeld, Bears, Reserved
<1> QED BY <1>8, <1>9, <1>10 DEF UpdatesInductive

LEMMA NextIdleKeeps ==
  ASSUME UpdatesInductive, NextIdle
  PROVE  UpdatesInductive'
<1>0. HandHeld /\ QueuesHeld /\ ClaimsHeld /\ InterruptsHeld /\ SlotsHeld /\ Types
  BY DEF UpdatesInductive
<1>1. pc[Idle] = "ready" /\ mine[Idle] = <<>> /\ Idle \in Ops /\ Idle \notin Tasks
  BY <1>0, OpsTyped DEF NextIdle, ClaimsHeld
<1>2. CASE /\ mentions # <<>> /\ ClaimsLeft > 0
           /\ IF evidence THEN bearer[Idle] = "reserved" ELSE bearer[Idle] # "none"
           /\ mine' = [mine EXCEPT ![Idle] = <<Head(mentions)>>]
           /\ mentions' = Tail(mentions)
           /\ claims' = claims \union {Head(mentions)}
           /\ WithEvidence(Idle)
           /\ GoForFloor(Idle) /\ UNCHANGED origins
           /\ UNCHANGED <<evidence, hand, kind, unresolved, director, decisions, interrupts, slots, settled,
                          consumer, active, failed, said, paused, executor, faults>>
  <2> DEFINE taken == <<Head(mentions)>>
  <2>1. /\ Head(mentions) \in Tasks /\ Tail(mentions) \in Seq(Tasks) /\ IsInjective(Tail(mentions))
        /\ Len(Tail(mentions)) = Len(mentions) - 1
        /\ ToSet(mentions) = {Head(mentions)} \union ToSet(Tail(mentions))
        /\ Head(mentions) \notin ToSet(Tail(mentions))
    <3>1. mentions \in Seq(Tasks) /\ IsInjective(mentions) /\ mentions # <<>>
      BY <1>0, <1>2 DEF Types, TypeOK, QueuesHeld
    <3> QED BY ONLY <3>1, DistinctTail
  <2>2. taken \in Seq(Tasks) /\ IsInjective(taken) /\ ToSet(taken) = {Head(mentions)} /\ Len(taken) = 1
    BY <2>1 DEF IsInjective, ToSet
  <2>3. /\ ToSet(taken) \union ToSet(Tail(mentions)) = ToSet(mentions)
        /\ ToSet(taken) \intersect ToSet(Tail(mentions)) = {}
    BY <2>1, <2>2
  <2>4. Len(taken) + Len(Tail(mentions)) = Len(mentions) /\ Len(taken) <= ClaimsLeft
    BY <1>2, <2>1, <2>2, ClaimsCounted
  <2>5. /\ mine' = [mine EXCEPT ![Idle] = taken] /\ mentions' = Tail(mentions)
        /\ claims' = claims \union ToSet(taken)
        /\ UNCHANGED <<hand, kind, unresolved, decisions, interrupts, slots, settled, consumer, active,
                       failed, executor>>
    BY <1>2, <2>2
  <2> HIDE DEF taken
  <2>6. /\ pc' \in [Ops -> Stages] /\ pc'[Idle] = "entering" /\ floor' = NoOne
        /\ revision' = Idle /\ resumable' = resumable
        /\ \A p \in Ops : \/ pc'[p] = pc[p]
                          \/ Running(p) /\ pc'[p] \in {"entering", "speaking", "ending", "revoked"}
        /\ \A p \in Ops : pc'[p] \in {"off", "done"} <=> pc[p] \in {"off", "done"}
    BY <1>1, <1>2, GoesForFloor
  <2>7. /\ HandHeld' /\ QueuesHeld' /\ ClaimsHeld' /\ InterruptsHeld' /\ SlotsHeld'
        /\ mine' \in [Ops -> Seq(Tasks)] /\ claims' \subseteq Tasks /\ IsFiniteSet(claims')
        /\ Cardinality(claims') <= MaxMentions + MaxInterrupts
    <3>1. Idle \in Turns \union {Idle} /\ pc'[Idle] \in {"entering", "speaking", "ending", "revoked"}
      BY <2>6
    <3>2. \A p \in Ops : \/ p = Idle \/ pc'[p] = pc[p]
                         \/ Running(p) /\ pc'[p] \in {"entering", "speaking", "ending", "revoked"}
      BY <2>6
    <3> QED BY <1>1, <2>1, <2>2, <2>3, <2>4, <2>5, <3>1, <3>2, MentionsTaken
  <2>8. bearer' \in [Ops -> Bearing] /\ \A o \in Ops : bearer'[o] # "none" <=> bearer[o] # "none"
    <3>1. bearer' = [bearer EXCEPT ![Idle] = "consumed"] \/ bearer' = bearer
      BY <1>2 DEF WithEvidence
    <3>2. bearer[Idle] # "none"
      BY <1>2
    <3> QED BY <3>1, <3>2, OpsTyped DEF Bearing
  <2>9. Types'
    <3>1. Movable
      BY <1>0, IsMovable
    <3>2. Movable'
      BY <1>1, <1>2, <2>6, <3>1 DEF Movable
    <3>3. slots' \in 0..MaxMentions /\ settled' \subseteq Tasks /\ mentions' \in Seq(Tasks)
      BY <1>0, <1>2, <2>1 DEF Types, TypeOK
    <3> QED BY <1>0, <1>2, <2>6, <2>7, <2>8, <3>2, <3>3, MentionTypes
  <2>10. Bears(pc', bearer')
    BY <2>6, <2>8, BearsOn DEF UpdatesInductive
  <2>11. BearersHeld'
    BY <2>6, <2>10 DEF BearersHeld, Bears, Reserved
  <2> QED BY <2>7, <2>9, <2>11 DEF UpdatesInductive
<1>3. CASE /\ pc' = [pc EXCEPT ![Idle] = "off"] /\ bearer' = [bearer EXCEPT ![Idle] = "none"]
           /\ origins' = {}
           /\ UNCHANGED <<mine, mentions, claims, speech, dvars, decisions, interrupts, slots, settled,
                          loop, said, rest, faults>>
  <2>1. Unmoved /\ director' = director /\ evidence' = evidence
    BY <1>3 DEF Unmoved
  <2>2. pc' \in [Ops -> Stages] /\ bearer' \in [Ops -> Bearing]
    BY <1>3, OpsTyped DEF Stages, Bearing
  <2>3. Movable'
    <3>1. Movable
      BY <1>0, IsMovable
    <3> QED BY <1>3, <3>1 DEF Movable
  <2>4. Types'
    BY <1>0, <2>1, <2>2, <2>3, QuietTypes
  <2>5. Moves
    BY <1>1, <1>3, OpsTyped DEF Moves
  <2>6. Bears(pc', bearer')
    <3>1. /\ \A o \in Ops : bearer'[o] # "none" => bearer[o] # "none"
          /\ \A o \in Ops : bearer'[o] # "none" => pc'[o] \notin {"off", "done"}
          /\ \A o \in Ops \ {Idle} : pc'[o] \notin {"off", "done"} => bearer'[o] # "none"
      BY <1>3, OpsTyped DEF Bears
    <3>2. Bears(pc, bearer)
      BY OpsTyped
    <3> QED BY ONLY <3>1, <3>2, FewerBear
  <2>7. /\ consumer' = consumer /\ active' = active /\ executor' = executor /\ failed' = failed
        /\ floor' = floor
    BY <1>3
  <2>8. floor' # NoOne => pc'[floor'] = "speaking"
    BY <1>1, <1>3, <2>7, OpsTyped
  <2> QED BY <2>1, <2>4, <2>5, <2>6, <2>7, <2>8, QuietKeeps
<1> QED BY <1>2, <1>3 DEF NextIdle

LEMMA FinishTurnKeeps ==
  ASSUME UpdatesInductive, NEW u \in Turns, FinishTurn(u)
  PROVE  UpdatesInductive'
<1> DEFINE pcs == [pc EXCEPT ![u] = "done"]
           bs == [bearer EXCEPT ![u] = "none"]
<1>0. HandHeld /\ QueuesHeld /\ ClaimsHeld /\ InterruptsHeld /\ SlotsHeld /\ Types
  BY DEF UpdatesInductive
<1>1. /\ pc[u] \in {"ending", "revoked"} /\ MentionsEnd(u)
      /\ WithDrain(pcs, bs, mentions', floor) \/ (pc' = pcs /\ bearer' = bs)
      /\ UNCHANGED <<evidence, hand, kind, unresolved, director, decisions, interrupts, consumer, active,
                     failed, floor, revision, resumable, origins, paused, executor, faults>>
  BY DEF FinishTurn, Ended
<1>2. /\ pc \in [Ops -> Stages] /\ bearer \in [Ops -> Bearing] /\ Bears(pc, bearer) /\ u \in Ops
      /\ u \notin Tasks /\ u # Idle /\ Idle \notin Tasks
      /\ floor # NoOne => floor \in Ops /\ pc[floor] = "speaking"
  BY OpsTyped
<1>3. /\ pcs \in [Ops -> Stages] /\ bs \in [Ops -> Bearing]
      /\ pcs[u] = "done" /\ \A p \in Ops : p # u => pcs[p] = pc[p] /\ bs[p] = bearer[p]
      /\ bs[u] = "none"
  BY <1>2 DEF Stages, Bearing
<1> HIDE DEF pcs, bs
<1>4. Bears(pcs, bs)
  <2>1. /\ \A o \in Ops : bs[o] # "none" => bearer[o] # "none"
        /\ \A o \in Ops : bs[o] # "none" => pcs[o] \notin {"off", "done"}
        /\ \A o \in Ops \ {Idle} : pcs[o] \notin {"off", "done"} => bs[o] # "none"
    BY <1>2, <1>3 DEF Bears
  <2> QED BY ONLY <1>2, <2>1, FewerBear
<1>5. /\ pc' \in [Ops -> Stages] /\ bearer' \in [Ops -> Bearing] /\ Bears(pc', bearer')
      /\ \A o \in Ops : pc'[o] = pcs[o] \/ (o = Idle /\ pcs[o] = "off" /\ pc'[o] = "ready")
  <2>1. CASE WithDrain(pcs, bs, mentions', floor)
    BY ONLY <1>3, <1>4, <2>1, DrainBears
  <2>2. CASE pc' = pcs /\ bearer' = bs
    BY <1>3, <1>4, <2>2
  <2> QED BY <1>1, <2>1, <2>2
<1>6. \A p \in Ops : p = u \/ pc'[p] = pc[p] \/ (p = Idle /\ pc[p] = "off")
  BY <1>2, <1>3, <1>5
<1>7. /\ HandHeld' /\ QueuesHeld' /\ ClaimsHeld' /\ InterruptsHeld' /\ SlotsHeld'
      /\ mine' \in [Ops -> Seq(Tasks)] /\ claims' \subseteq Tasks /\ settled' \subseteq Tasks
      /\ mentions' \in Seq(Tasks) /\ slots' \in 0..MaxMentions /\ said' \subseteq Ops
      /\ IsFiniteSet(claims') /\ Cardinality(claims') <= MaxMentions + MaxInterrupts
  BY <1>1, <1>6, MentionsEnded
<1>8. Types'
  <2>1. Movable
    BY <1>0, IsMovable
  <2>2. Movable'
    BY <1>1, <1>7, <2>1 DEF Movable
  <2> QED BY <1>0, <1>1, <1>5, <1>7, <2>2, MentionTypes
<1>9. floor' # NoOne => pc'[floor'] = "speaking"
  BY <1>1, <1>2, <1>3, <1>5
<1>10. BearersHeld'
  BY <1>5, <1>9 DEF BearersHeld, Bears, Reserved
<1> QED BY <1>7, <1>8, <1>10 DEF UpdatesInductive

LEMMA FinishIdleKeeps ==
  ASSUME UpdatesInductive, FinishIdle
  PROVE  UpdatesInductive'
<1> DEFINE goesOn == pc[Idle] = "ending" /\ Idle \in said
<1>0. HandHeld /\ QueuesHeld /\ ClaimsHeld /\ InterruptsHeld /\ SlotsHeld /\ Types
  BY DEF UpdatesInductive
<1>1. /\ pc[Idle] \in {"ending", "revoked"} /\ MentionsEnd(Idle)
      /\ pc' = [pc EXCEPT ![Idle] = IF goesOn THEN "ready" ELSE "off"]
      /\ bearer' = IF goesOn THEN bearer ELSE [bearer EXCEPT ![Idle] = "none"]
      /\ origins' = IF goesOn THEN origins ELSE {}
      /\ UNCHANGED <<evidence, hand, kind, unresolved, director, decisions, interrupts, consumer, active,
                     failed, floor, revision, resumable, paused, executor, faults>>
  BY DEF FinishIdle, Ended
<1> HIDE DEF goesOn
<1>2. /\ pc \in [Ops -> Stages] /\ bearer \in [Ops -> Bearing] /\ Bears(pc, bearer) /\ Idle \in Ops
      /\ floor # NoOne => floor \in Ops /\ pc[floor] = "speaking"
  BY OpsTyped
<1>3. /\ pc' \in [Ops -> Stages] /\ bearer' \in [Ops -> Bearing]
      /\ pc'[Idle] = (IF goesOn THEN "ready" ELSE "off")
      /\ ~goesOn => bearer'[Idle] = "none"
      /\ goesOn => bearer' = bearer
      /\ \A p \in Ops : p # Idle => pc'[p] = pc[p] /\ bearer'[p] = bearer[p]
  BY <1>1, <1>2 DEF Stages, Bearing
<1>4. Bears(pc', bearer')
  <2>1. /\ \A o \in Ops : bearer'[o] # "none" => bearer[o] # "none"
        /\ \A o \in Ops : bearer'[o] # "none" => pc'[o] \notin {"off", "done"}
        /\ \A o \in Ops \ {Idle} : pc'[o] \notin {"off", "done"} => bearer'[o] # "none"
    BY <1>2, <1>3 DEF Bears
  <2> QED BY ONLY <1>2, <2>1, FewerBear
<1>5. \A p \in Ops : p = Idle \/ pc'[p] = pc[p] \/ (p = Idle /\ pc[p] = "off")
  BY <1>3
<1>6. /\ HandHeld' /\ QueuesHeld' /\ ClaimsHeld' /\ InterruptsHeld' /\ SlotsHeld'
      /\ mine' \in [Ops -> Seq(Tasks)] /\ claims' \subseteq Tasks /\ settled' \subseteq Tasks
      /\ mentions' \in Seq(Tasks) /\ slots' \in 0..MaxMentions /\ said' \subseteq Ops
      /\ IsFiniteSet(claims') /\ Cardinality(claims') <= MaxMentions + MaxInterrupts
  <2>1. Idle \in Turns \union {Idle}
    OBVIOUS
  <2> QED BY <1>1, <1>5, <2>1, MentionsEnded
<1>7. Types'
  <2>1. Movable
    BY <1>0, IsMovable
  <2>2. Movable'
    BY <1>1, <1>6, <2>1 DEF Movable
  <2> QED BY <1>0, <1>1, <1>3, <1>6, <2>2, MentionTypes
<1>8. floor' # NoOne => pc'[floor'] = "speaking"
  BY <1>1, <1>2, <1>3
<1>9. BearersHeld'
  BY <1>4, <1>8 DEF BearersHeld, Bears, Reserved
<1> QED BY <1>6, <1>7, <1>9 DEF UpdatesInductive

(* A reservation that changes hands is still one.                          *)
LEMMA SwapBears ==
  ASSUME NEW pcs, NEW bs, Bears(pcs, bs), NEW from \in Ops, NEW to \in Ops, from # to,
         bs[from] # "none", NEW next, NEW given,
         \A p \in Ops : p \notin {from, to} => next[p] = pcs[p] /\ given[p] = bs[p],
         given[from] = "none", from # Idle => next[from] \in {"off", "done"},
         given[to] # "none", next[to] \notin {"off", "done"}
  PROVE  Bears(next, given)
<1> DEFINE R == Reserved(bs)
           G == Reserved(given)
           K == R \ {from}
<1>1. /\ IsFiniteSet(R) /\ Cardinality(R) <= MaxOperations /\ from \in R
  BY DEF Bears, Reserved
<1>2. G = K \union {to}
  BY DEF Reserved
<1> HIDE DEF R, G
<1>3. /\ IsFiniteSet(K) /\ Cardinality(K) = Cardinality(R) - 1
      /\ Cardinality(R) \in Nat /\ Cardinality(K) \in Nat
  <2>1. IsFiniteSet(K) /\ Cardinality(K) = Cardinality(R) - 1
    BY ONLY <1>1, FS_RemoveElement
  <2> QED BY <1>1, <2>1, FS_CardinalityType
<1> HIDE DEF K
<1>4. IsFiniteSet(G) /\ Cardinality(G) \in {Cardinality(K), Cardinality(K) + 1}
  BY ONLY <1>2, <1>3, FS_AddElement
<1>5. IsFiniteSet(G) /\ Cardinality(G) <= MaxOperations
  BY <1>1, <1>3, <1>4
<1>6. \A o \in Ops : /\ given[o] # "none" => next[o] \notin {"off", "done"}
                     /\ next[o] \notin {"off", "done"} /\ o # Idle => given[o] # "none"
  BY DEF Bears
<1> QED BY <1>5, <1>6 DEF Bears, G

(* What becomes of the updates when an interrupt ends.                     *)
LEMMA InterruptSettled ==
  ASSUME UpdatesInductive, NEW t \in Tasks, pc[t] \in {"ending", "revoked"}, pc'[t] = "done",
         \A p \in Ops : p = t \/ pc'[p] = pc[p] \/ (p = Idle /\ pc[p] = "off"),
         claims' = claims \ {t}, settled' = settled \union {t},
         UNCHANGED <<hand, kind, unresolved, decisions, mentions, interrupts, slots, mine, consumer, active,
                     failed, executor>>
  PROVE  /\ HandHeld' /\ QueuesHeld' /\ ClaimsHeld' /\ InterruptsHeld' /\ SlotsHeld'
         /\ IsFiniteSet(claims') /\ Cardinality(claims') <= MaxMentions + MaxInterrupts
<1>0. HandHeld /\ QueuesHeld /\ ClaimsHeld /\ InterruptsHeld /\ SlotsHeld /\ Types
  BY DEF UpdatesInductive
<1>1. Tasks \subseteq Ops /\ Idle \notin Tasks
  BY OpsTyped
<1>2. /\ Mentions' = Mentions /\ Interrupts' = Interrupts
      /\ Published("retain")' = Published("retain")
  BY PublishedSame DEF Mentions, Interrupts
<1>3. /\ t \in Interrupts /\ t \notin ToSet(decisions) /\ t \in claims
      /\ t \notin Mentions /\ t \notin Published("retain") /\ kind[t] = "interrupt"
  <2>1. t \in Interrupts /\ t \notin ToSet(decisions) /\ t \in claims
    BY <1>0 DEF InterruptsHeld
  <2> QED BY <2>1 DEF Interrupts, Mentions, Published
<1>4. HandHeld'
  BY <1>0 DEF HandHeld
<1>5. QueuesHeld'
  BY <1>0, <1>2, <1>3 DEF QueuesHeld
<1>6. ClaimsHeld'
  <2>1. /\ claims' \union settled' \subseteq Mentions' \union Interrupts'
        /\ claims' \intersect settled' = {}
    BY <1>0, <1>2, <1>3 DEF ClaimsHeld
  <2>2. ASSUME NEW o \in Ops
        PROVE  /\ IsInjective(mine'[o]) /\ ToSet(mine'[o]) \subseteq Mentions' \intersect claims'
               /\ mine'[o] # <<>> => /\ o \notin Tasks
                                     /\ pc'[o] \in {"entering", "speaking", "ending", "revoked"}
    <3>1. /\ IsInjective(mine[o]) /\ ToSet(mine[o]) \subseteq Mentions \intersect claims
          /\ mine[o] # <<>> => /\ o \notin Tasks
                               /\ pc[o] \in {"entering", "speaking", "ending", "revoked"}
      BY <1>0 DEF ClaimsHeld
    <3>2. ToSet(mine'[o]) \subseteq Mentions' \intersect claims'
      BY <1>2, <1>3, <3>1
    <3>3. mine'[o] # <<>> => /\ o \notin Tasks
                             /\ pc'[o] \in {"entering", "speaking", "ending", "revoked"}
      BY <3>1
    <3> QED BY <3>1, <3>2, <3>3
  <2>3. \A o, p \in Ops : o # p => ToSet(mine'[o]) \intersect ToSet(mine'[p]) = {}
    BY <1>0 DEF ClaimsHeld
  <2>4. \A m \in Mentions' \intersect claims' : \E o \in Ops : m \in ToSet(mine'[o])
    BY <1>0, <1>2 DEF ClaimsHeld
  <2>5. Mentions' \subseteq ToSet(mentions') \union claims' \union settled'
    BY <1>0, <1>2 DEF ClaimsHeld
  <2> QED BY <2>1, <2>2, <2>3, <2>4, <2>5 DEF ClaimsHeld
<1>7. InterruptsHeld'
  <2>1. /\ \A x \in Tasks \ {t} : pc'[x] = pc[x] /\ (Running(x)' <=> Running(x))
        /\ \A x \in Tasks : Held(x)' <=> Held(x)
    <3>1. \A x \in Tasks \ {t} : pc'[x] = pc[x]
      BY <1>1
    <3> QED BY <3>1 DEF Held, Running
  <2>2. ~Held(t)
    BY <1>0, <1>3 DEF InterruptsHeld
  <2>3. ASSUME NEW x \in Tasks
        PROVE  /\ pc'[x] # "off" => x \in Interrupts' \ ToSet(decisions')
               /\ pc'[x] # "off" => IF pc'[x] = "done" THEN x \in settled' ELSE Running(x)' /\ x \in claims'
               /\ x \in Interrupts' \intersect ToSet(decisions') => x \notin claims' \union settled'
    <3>1. CASE x = t
      BY <1>2, <1>3, <3>1
    <3>2. CASE x # t
      <4>1. /\ pc[x] # "off" => x \in Interrupts \ ToSet(decisions)
            /\ pc[x] # "off" => IF pc[x] = "done" THEN x \in settled ELSE Running(x) /\ x \in claims
            /\ x \in Interrupts \intersect ToSet(decisions) => x \notin claims \union settled
        BY <1>0 DEF InterruptsHeld
      <4>2. pc'[x] = pc[x] /\ (Running(x)' <=> Running(x))
        BY <2>1, <3>2
      <4> QED BY <1>2, <3>2, <4>1, <4>2
    <3> QED BY <3>1, <3>2
  <2>4. ASSUME NEW x \in Tasks, Held(x)'
        PROVE  /\ x \in Published("retain")' \union Mentions' \union Interrupts'
               /\ x \notin ToSet(decisions')
               /\ kind'[x] = "interrupt" => x \in claims' /\ pc'[x] = "off"
    <3>1. Held(x) /\ x # t
      BY <2>1, <2>2, <2>4
    <3>2. /\ x \in Published("retain") \union Mentions \union Interrupts
          /\ x \notin ToSet(decisions)
          /\ kind[x] = "interrupt" => x \in claims /\ pc[x] = "off"
      BY <1>0, <3>1 DEF InterruptsHeld
    <3> QED BY <1>2, <2>1, <3>1, <3>2
  <2>5. executor' = "open" /\ ~failed' =>
          \A x \in Interrupts' : x \in ToSet(decisions') \/ x \in settled' \/ Running(x)' \/ Held(x)'
    <3>1. Interrupts \subseteq Tasks
      BY DEF Interrupts, Published
    <3> QED BY <1>0, <1>2, <2>1, <3>1 DEF InterruptsHeld
  <2>6. /\ consumer'.at = "held" => consumer'.task \in Tasks
        /\ consumer'.at = "replacing" => consumer'.task \in Tasks /\ active' \in Tasks
    BY <1>0 DEF InterruptsHeld
  <2> QED BY <2>3, <2>4, <2>5, <2>6 DEF InterruptsHeld
<1>8. SlotsHeld'
  <2>1. {x \in claims : kind[x] = "mention"}' = {x \in claims : kind[x] = "mention"}
    BY <1>3
  <2> QED BY <1>0, <2>1 DEF SlotsHeld
<1>9. IsFiniteSet(claims') /\ Cardinality(claims') <= MaxMentions + MaxInterrupts
  <2>1. IsFiniteSet(claims) /\ Cardinality(claims) <= MaxMentions + MaxInterrupts
        /\ MaxMentions + MaxInterrupts \in Nat /\ claims' \subseteq claims
    BY ClaimsCounted
  <2>2. IsFiniteSet(claims') /\ Cardinality(claims') <= Cardinality(claims)
        /\ Cardinality(claims') \in Nat /\ Cardinality(claims) \in Nat
    BY ONLY <2>1, FS_Subset, FS_CardinalityType
  <2> QED BY ONLY <2>1, <2>2
<1> QED BY <1>4, <1>5, <1>6, <1>7, <1>8, <1>9

LEMMA FinishInterruptKeeps ==
  ASSUME UpdatesInductive, NEW t \in Tasks, FinishInterrupt(t)
  PROVE  UpdatesInductive'
<1> DEFINE back == /\ pc[t] = "revoked" /\ t \in origins /\ Running(Idle)
                   /\ executor = "open" /\ bearer[t] = "reserved"
           pcs == [pc EXCEPT ![t] = "done"]
           bs == [bearer EXCEPT ![t] = "none", ![Idle] = IF back THEN "reserved" ELSE @]
<1>0. HandHeld /\ QueuesHeld /\ ClaimsHeld /\ InterruptsHeld /\ SlotsHeld /\ Types
  BY DEF UpdatesInductive
<1>1. /\ pc[t] \in {"ending", "revoked"} /\ claims' = claims \ {t} /\ settled' = settled \union {t}
      /\ said' = said \ {t} /\ origins' = origins \ {t}
      /\ WithDrain(pcs, bs, mentions, floor) \/ (pc' = pcs /\ bearer' = bs)
      /\ UNCHANGED <<evidence, hand, kind, unresolved, director, decisions, mentions, interrupts, slots,
                     mine, consumer, active, failed, floor, revision, resumable, paused, executor, faults>>
  BY DEF FinishInterrupt, Ended
<1>2. /\ pc \in [Ops -> Stages] /\ bearer \in [Ops -> Bearing] /\ Bears(pc, bearer) /\ t \in Ops
      /\ t # Idle /\ Idle \in Ops /\ Idle \notin Tasks
      /\ floor # NoOne => floor \in Ops /\ pc[floor] = "speaking"
  BY OpsTyped
<1>3. /\ pcs \in [Ops -> Stages] /\ bs \in [Ops -> Bearing]
      /\ pcs[t] = "done" /\ bs[t] = "none" /\ bs[Idle] = (IF back THEN "reserved" ELSE bearer[Idle])
      /\ \A p \in Ops : p # t => pcs[p] = pc[p] /\ (p = Idle \/ bs[p] = bearer[p])
  BY <1>2 DEF Stages, Bearing
<1>4. back => Running(Idle) /\ bearer[t] = "reserved"
  OBVIOUS
<1> HIDE DEF pcs, bs, back
<1>5. Bears(pcs, bs)
  <2>1. CASE ~back
    <3>1. /\ \A o \in Ops : bs[o] # "none" => bearer[o] # "none"
          /\ \A o \in Ops : bs[o] # "none" => pcs[o] \notin {"off", "done"}
          /\ \A o \in Ops \ {Idle} : pcs[o] \notin {"off", "done"} => bs[o] # "none"
      BY <1>2, <1>3, <2>1 DEF Bears
    <3> QED BY ONLY <1>2, <3>1, FewerBear
  <2>2. CASE back
    <3>1. /\ bearer[t] # "none" /\ bs[t] = "none" /\ pcs[t] \in {"off", "done"}
          /\ bs[Idle] # "none" /\ pcs[Idle] \notin {"off", "done"}
          /\ \A p \in Ops : p \notin {t, Idle} => pcs[p] = pc[p] /\ bs[p] = bearer[p]
      BY <1>2, <1>3, <1>4, <2>2 DEF Running
    <3> QED BY ONLY <1>2, <3>1, SwapBears
  <2> QED BY <2>1, <2>2
<1>6. /\ pc' \in [Ops -> Stages] /\ bearer' \in [Ops -> Bearing] /\ Bears(pc', bearer')
      /\ \A o \in Ops : pc'[o] = pcs[o] \/ (o = Idle /\ pcs[o] = "off" /\ pc'[o] = "ready")
  <2>1. CASE WithDrain(pcs, bs, mentions, floor)
    BY ONLY <1>3, <1>5, <2>1, DrainBears
  <2>2. CASE pc' = pcs /\ bearer' = bs
    BY <1>3, <1>5, <2>2
  <2> QED BY <1>1, <2>1, <2>2
<1>7. /\ pc'[t] = "done"
      /\ \A p \in Ops : p = t \/ pc'[p] = pc[p] \/ (p = Idle /\ pc[p] = "off")
  BY <1>2, <1>3, <1>6
<1>8. /\ HandHeld' /\ QueuesHeld' /\ ClaimsHeld' /\ InterruptsHeld' /\ SlotsHeld'
      /\ IsFiniteSet(claims') /\ Cardinality(claims') <= MaxMentions + MaxInterrupts
  BY <1>1, <1>7, InterruptSettled
<1>9. Types'
  <2>1. Movable
    BY <1>0, IsMovable
  <2>2. Movable'
    BY <1>1, <2>1 DEF Movable
  <2>3. /\ claims' \subseteq Tasks /\ settled' \subseteq Tasks /\ mine' \in [Ops -> Seq(Tasks)]
        /\ mentions' \in Seq(Tasks) /\ slots' \in 0..MaxMentions
    BY <1>0, <1>1 DEF Types, TypeOK
  <2> QED BY <1>0, <1>1, <1>6, <1>8, <2>2, <2>3, MentionTypes
<1>10. floor' # NoOne => pc'[floor'] = "speaking"
  BY <1>1, <1>2, <1>3, <1>6
<1>11. BearersHeld'
  BY <1>6, <1>10 DEF BearersHeld, Bears, Reserved
<1> QED BY <1>8, <1>9, <1>11 DEF UpdatesInductive

-----------------------------------------------------------------------------
(* Actions of the director.                                                *)

LEMMA DirectorTypes ==
  ASSUME Types, UNCHANGED <<owned, loop, speech, ops, evidence, paused>>,
         hand' \in [at : {"waiting", "policy", "slot", "room", "over"}, task : Tasks \union {NoOne}],
         kind' \in [Tasks -> DecisionKinds \union {"none"}],
         decisions' \in Seq(Tasks), Len(decisions') <= MaxDecisions,
         mentions' \in Seq(Tasks), interrupts' \in Seq(Tasks), slots' \in 0..MaxMentions,
         unresolved' \subseteq Tasks, director' \in {"open", "failed", "closed"},
         executor' \in {"open", "closing", "joined", "closed", "stuck"}, faults' \in 0..MaxFaults
  PROVE  Types'
<1>1. hand'.at \in {"waiting", "policy", "slot", "room", "over"} /\ hand'.task \in Tasks \union {NoOne}
  OBVIOUS
<1>2. /\ claims' \subseteq Tasks /\ Cardinality(claims') <= MaxMentions + MaxInterrupts
      /\ settled' \subseteq Tasks /\ IsFiniteSet(claims')
      /\ consumer'.at \in {"next", "held", "replacing", "over"} /\ consumer'.task \in Tasks \union {NoOne}
      /\ active' \in Tasks \union {NoOne} /\ failed' \in BOOLEAN
      /\ consumer' \in [at : {"next", "held", "replacing", "over"}, task : Tasks \union {NoOne}]
  BY DEF Types, TypeOK
<1>3. /\ pc' \in [Ops -> {"off", "reserved", "ready", "entering", "speaking", "ending", "revoked", "done"}]
      /\ bearer' \in [Ops -> {"none", "reserved", "consumed"}]
      /\ mine' \in [Ops -> Seq(Tasks)] /\ said' \subseteq Ops /\ origins' \subseteq Tasks
      /\ floor' \in Ops \union {NoOne} /\ revision' \in Ops \union {NoOne}
      /\ resumable' \in BOOLEAN /\ paused' \in BOOLEAN /\ evidence' \in BOOLEAN
  BY DEF Types, TypeOK
<1> QED BY ONLY <1>1, <1>2, <1>3, hand' \in [at : {"waiting", "policy", "slot", "room", "over"}, task : Tasks \union {NoOne}],
         kind' \in [Tasks -> DecisionKinds \union {"none"}],
         decisions' \in Seq(Tasks), Len(decisions') <= MaxDecisions,
         mentions' \in Seq(Tasks), interrupts' \in Seq(Tasks), slots' \in 0..MaxMentions,
         unresolved' \subseteq Tasks, director' \in {"open", "failed", "closed"},
         executor' \in {"open", "closing", "joined", "closed", "stuck"}, faults' \in 0..MaxFaults
    DEF Types, TypeOK

(* A step of the director's that publishes nothing.                        *)
LEMMA NothingPublished ==
  ASSUME UpdatesInductive, \A j \in DecisionKinds : Published(j)' = Published(j),
         UNCHANGED <<decisions, mentions, interrupts, owned, loop, speech, ops>>,
         executor' = "open" => executor = "open"
  PROVE  /\ QueuesHeld' /\ ClaimsHeld' /\ InterruptsHeld' /\ BearersHeld'
         /\ {x \in claims : kind[x] = "mention"}' = {x \in claims : kind[x] = "mention"}
<1>0. QueuesHeld /\ ClaimsHeld /\ InterruptsHeld /\ BearersHeld /\ Types
  BY DEF UpdatesInductive
<1>1. /\ Mentions' = Mentions /\ Interrupts' = Interrupts
      /\ Published("retain")' = Published("retain")
  BY DEF Mentions, Interrupts, DecisionKinds
<1>2. \A x \in Published("retain") \union Mentions \union Interrupts : kind'[x] = kind[x]
  <2>1. /\ \A x \in Published("retain") : kind[x] = "retain"
        /\ \A x \in Published("retain")' : kind'[x] = "retain"
    BY DEF Published
  <2>2. /\ \A x \in Mentions : kind[x] = "mention"
        /\ \A x \in Mentions' : kind'[x] = "mention"
    BY DEF Mentions, Published
  <2>3. /\ \A x \in Interrupts : kind[x] = "interrupt"
        /\ \A x \in Interrupts' : kind'[x] = "interrupt"
    BY DEF Interrupts, Published
  <2> QED BY <1>1, <2>1, <2>2, <2>3
<1>3. QueuesHeld'
  <2>1. interrupts' = Sift(decisions', {x \in Tasks : kind'[x] = "interrupt"})
    <3>1. decisions \in Seq(Tasks) /\ interrupts = Sift(decisions, {x \in Tasks : kind[x] = "interrupt"})
      BY <1>0 DEF QueuesHeld, Types, TypeOK
    <3>2. \A i \in DOMAIN decisions : decisions[i] \in {x \in Tasks : kind[x] = "interrupt"}
                                      <=> decisions[i] \in {x \in Tasks : kind'[x] = "interrupt"}
      <4>1. \A i \in DOMAIN decisions : decisions[i] \in ToSet(decisions)
        BY DEF ToSet
      <4>2. \A i \in DOMAIN decisions : kind'[decisions[i]] = kind[decisions[i]]
        BY <1>0, <1>2, <4>1 DEF QueuesHeld
      <4> QED BY <4>2
    <3>3. Sift(decisions, {x \in Tasks : kind[x] = "interrupt"})
            = Sift(decisions, {x \in Tasks : kind'[x] = "interrupt"})
      BY ONLY <3>1, <3>2, SiftSame
    <3> QED BY <3>1, <3>3
  <2> QED BY <1>0, <1>1, <2>1 DEF QueuesHeld
<1>4. ClaimsHeld'
  BY <1>0, <1>1 DEF ClaimsHeld
<1>5. InterruptsHeld'
  <2>1. \A x \in Tasks : (Held(x)' <=> Held(x)) /\ (Running(x)' <=> Running(x))
    BY DEF Held, Running
  <2>2. ASSUME NEW x \in Tasks
        PROVE  /\ pc'[x] # "off" => x \in Interrupts' \ ToSet(decisions')
               /\ pc'[x] # "off" => IF pc'[x] = "done" THEN x \in settled' ELSE Running(x)' /\ x \in claims'
               /\ x \in Interrupts' \intersect ToSet(decisions') => x \notin claims' \union settled'
    <3>1. /\ pc[x] # "off" => x \in Interrupts \ ToSet(decisions)
          /\ pc[x] # "off" => IF pc[x] = "done" THEN x \in settled ELSE Running(x) /\ x \in claims
          /\ x \in Interrupts \intersect ToSet(decisions) => x \notin claims \union settled
      BY <1>0 DEF InterruptsHeld
    <3> QED BY <1>1, <2>1, <3>1
  <2>3. ASSUME NEW x \in Tasks, Held(x)'
        PROVE  /\ x \in Published("retain")' \union Mentions' \union Interrupts'
               /\ x \notin ToSet(decisions')
               /\ kind'[x] = "interrupt" => x \in claims' /\ pc'[x] = "off"
    <3>1. Held(x)
      BY <2>1, <2>3
    <3>2. /\ x \in Published("retain") \union Mentions \union Interrupts
          /\ x \notin ToSet(decisions)
          /\ kind[x] = "interrupt" => x \in claims /\ pc[x] = "off"
      BY <1>0, <3>1 DEF InterruptsHeld
    <3> QED BY <1>1, <1>2, <3>2
  <2>4. executor' = "open" /\ ~failed' =>
          \A x \in Interrupts' : x \in ToSet(decisions') \/ x \in settled' \/ Running(x)' \/ Held(x)'
    <3>1. Interrupts \subseteq Tasks
      BY DEF Interrupts, Published
    <3> QED BY <1>0, <1>1, <2>1, <3>1 DEF InterruptsHeld
  <2>5. /\ consumer'.at = "held" => consumer'.task \in Tasks
        /\ consumer'.at = "replacing" => consumer'.task \in Tasks /\ active' \in Tasks
    BY <1>0 DEF InterruptsHeld
  <2> QED BY <2>2, <2>3, <2>4, <2>5 DEF InterruptsHeld
<1>6. BearersHeld'
  BY <1>0 DEF BearersHeld, Bears, Reserved
<1>7. {x \in claims : kind[x] = "mention"}' = {x \in claims : kind[x] = "mention"}
  <2>1. \A x \in claims : kind'[x] = kind[x]
    BY <1>0, <1>2 DEF ClaimsHeld
  <2> QED BY <2>1
<1> QED BY <1>3, <1>4, <1>5, <1>6, <1>7

(* What the director has in hand is nowhere yet.                           *)
LEMMA InHandAside ==
  ASSUME UpdatesInductive, NEW t \in Tasks, t \notin Published("retain") \union Mentions \union Interrupts
  PROVE  /\ t \notin ToSet(decisions) /\ t \notin ToSet(mentions) /\ t \notin claims /\ t \notin settled
         /\ pc[t] = "off" /\ ~Held(t) /\ \A o \in Ops : t \notin ToSet(mine[o])
<1>0. QueuesHeld /\ ClaimsHeld /\ InterruptsHeld
  BY DEF UpdatesInductive
<1>1. t \notin ToSet(decisions) /\ t \notin ToSet(mentions) /\ t \notin claims /\ t \notin settled
  BY <1>0 DEF QueuesHeld, ClaimsHeld
<1>2. pc[t] = "off" /\ ~Held(t)
  BY <1>0 DEF InterruptsHeld
<1>3. \A o \in Ops : t \notin ToSet(mine[o])
  BY <1>0, <1>1 DEF ClaimsHeld
<1> QED BY <1>1, <1>2, <1>3

(* A step that publishes an update: it is queued for whoever acts on it.   *)
LEMMA OnePublished ==
  ASSUME UpdatesInductive, NEW t \in Tasks, NEW k \in DecisionKinds, hand.task = t, hand'.task = NoOne,
         kind'[t] = k, \A x \in Tasks \ {t} : kind'[x] = kind[x], t \notin unresolved,
         decisions' = Append(decisions, t),
         mentions' = IF k = "mention" THEN Append(mentions, t) ELSE mentions,
         interrupts' = IF k = "interrupt" THEN Append(interrupts, t) ELSE interrupts,
         UNCHANGED <<unresolved, owned, loop, speech, ops, executor>>
  PROVE  /\ QueuesHeld' /\ ClaimsHeld' /\ InterruptsHeld' /\ BearersHeld'
         /\ {x \in claims : kind[x] = "mention"}' = {x \in claims : kind[x] = "mention"}
         /\ decisions' \in Seq(Tasks) /\ Len(decisions') = Len(decisions) + 1
         /\ mentions' \in Seq(Tasks) /\ interrupts' \in Seq(Tasks)
         /\ Len(mentions') = Len(mentions) + (IF k = "mention" THEN 1 ELSE 0)
<1>0. QueuesHeld /\ ClaimsHeld /\ InterruptsHeld /\ BearersHeld /\ Types
  BY DEF UpdatesInductive
<1>1. /\ \A j : Published(j)' = IF j = k THEN Published(j) \union {t} ELSE Published(j)
      /\ \A j : t \notin Published(j)
  BY DEF Published, DecisionKinds
<1>2. /\ Mentions' = IF k = "mention" THEN Mentions \union {t} ELSE Mentions
      /\ Interrupts' = IF k = "interrupt" THEN Interrupts \union {t} ELSE Interrupts
      /\ Published("retain")' = IF k = "retain" THEN Published("retain") \union {t}
                                ELSE Published("retain")
      /\ t \notin Published("retain") \union Mentions \union Interrupts
  BY <1>1 DEF Mentions, Interrupts
<1>3. /\ t \notin ToSet(decisions) /\ t \notin ToSet(mentions) /\ t \notin claims /\ t \notin settled
      /\ pc[t] = "off" /\ ~Held(t) /\ \A o \in Ops : t \notin ToSet(mine[o])
  BY <1>2, InHandAside
<1>4. /\ decisions \in Seq(Tasks) /\ IsInjective(decisions)
      /\ mentions \in Seq(Tasks) /\ IsInjective(mentions) /\ interrupts \in Seq(Tasks)
  BY <1>0 DEF QueuesHeld, Types, TypeOK
<1>5. /\ decisions' \in Seq(Tasks) /\ IsInjective(decisions')
      /\ ToSet(decisions') = ToSet(decisions) \union {t} /\ Len(decisions') = Len(decisions) + 1
  <2>1. /\ Append(decisions, t) \in Seq(Tasks) /\ IsInjective(Append(decisions, t))
        /\ ToSet(Append(decisions, t)) = ToSet(decisions) \union {t}
        /\ Len(Append(decisions, t)) = Len(decisions) + 1
    BY ONLY t \in Tasks, <1>3, <1>4, DistinctAppend
  <2> QED BY <2>1
<1>6. /\ mentions' \in Seq(Tasks) /\ IsInjective(mentions')
      /\ ToSet(mentions') = IF k = "mention" THEN ToSet(mentions) \union {t} ELSE ToSet(mentions)
      /\ Len(mentions') = Len(mentions) + (IF k = "mention" THEN 1 ELSE 0)
  <2>1. /\ Append(mentions, t) \in Seq(Tasks) /\ IsInjective(Append(mentions, t))
        /\ ToSet(Append(mentions, t)) = ToSet(mentions) \union {t}
        /\ Len(Append(mentions, t)) = Len(mentions) + 1
    BY ONLY t \in Tasks, <1>3, <1>4, DistinctAppend
  <2>2. Len(mentions) \in Nat
    BY <1>4
  <2>3. CASE k = "mention"
    <3>1. mentions' = Append(mentions, t)
      BY <2>3
    <3> QED BY ONLY <2>1, <2>3, <3>1
  <2>4. CASE k # "mention"
    <3>1. mentions' = mentions
      BY <2>4
    <3> QED BY ONLY <1>4, <2>2, <2>4, <3>1
  <2> QED BY <2>3, <2>4
<1>7. interrupts' \in Seq(Tasks)
  BY <1>4
<1>8. QueuesHeld'
  <2> DEFINE was == {x \in Tasks : kind[x] = "interrupt"}
             now == {x \in Tasks : kind'[x] = "interrupt"}
  <2>1. interrupts' = Sift(decisions', now)
    <3>1. interrupts = Sift(decisions, was)
      BY <1>0 DEF QueuesHeld
    <3>2. \A i \in DOMAIN decisions : decisions[i] \in was <=> decisions[i] \in now
      <4>1. \A i \in DOMAIN decisions : decisions[i] # t
        BY <1>3 DEF ToSet
      <4> QED BY <4>1
    <3>3. t \in now <=> k = "interrupt"
      OBVIOUS
    <3> HIDE DEF was, now
    <3>4. Sift(decisions, was) = Sift(decisions, now)
      BY ONLY <1>4, <3>2, SiftSame
    <3>5. Sift(Append(decisions, t), now)
            = IF t \in now THEN Append(Sift(decisions, now), t) ELSE Sift(decisions, now)
      BY ONLY t \in Tasks, <1>4, SiftAppend
    <3> QED BY <3>1, <3>3, <3>4, <3>5
  <2> HIDE DEF was
  <2>2. ToSet(decisions') \subseteq Published("retain")' \union Mentions' \union Interrupts'
    <3>1. t \in Published("retain")' \union Mentions' \union Interrupts'
      BY <1>2 DEF DecisionKinds
    <3> QED BY <1>0, <1>2, <1>5, <3>1 DEF QueuesHeld
  <2>3. ToSet(mentions') \subseteq Mentions' \ (claims' \union settled')
    BY <1>0, <1>2, <1>3, <1>6 DEF QueuesHeld
  <2> QED BY <1>5, <1>6, <2>1, <2>2, <2>3 DEF QueuesHeld
<1>9. ClaimsHeld'
  <2>1. /\ claims' \union settled' \subseteq Mentions' \union Interrupts'
        /\ claims' \intersect settled' = {}
    BY <1>0, <1>2 DEF ClaimsHeld
  <2>2. ASSUME NEW o \in Ops
        PROVE  /\ IsInjective(mine'[o]) /\ ToSet(mine'[o]) \subseteq Mentions' \intersect claims'
               /\ mine'[o] # <<>> => /\ o \notin Tasks
                                     /\ pc'[o] \in {"entering", "speaking", "ending", "revoked"}
    BY <1>0, <1>2 DEF ClaimsHeld
  <2>3. \A o, p \in Ops : o # p => ToSet(mine'[o]) \intersect ToSet(mine'[p]) = {}
    BY <1>0 DEF ClaimsHeld
  <2>4. \A m \in Mentions' \intersect claims' : \E o \in Ops : m \in ToSet(mine'[o])
    BY <1>0, <1>2, <1>3 DEF ClaimsHeld
  <2>5. Mentions' \subseteq ToSet(mentions') \union claims' \union settled'
    BY <1>0, <1>2, <1>6 DEF ClaimsHeld
  <2> QED BY <2>1, <2>2, <2>3, <2>4, <2>5 DEF ClaimsHeld
<1>10. InterruptsHeld'
  <2>1. \A x \in Tasks : (Held(x)' <=> Held(x)) /\ (Running(x)' <=> Running(x))
    BY DEF Held, Running
  <2>2. ASSUME NEW x \in Tasks
        PROVE  /\ pc'[x] # "off" => x \in Interrupts' \ ToSet(decisions')
               /\ pc'[x] # "off" => IF pc'[x] = "done" THEN x \in settled' ELSE Running(x)' /\ x \in claims'
               /\ x \in Interrupts' \intersect ToSet(decisions') => x \notin claims' \union settled'
    <3>1. /\ pc[x] # "off" => x \in Interrupts \ ToSet(decisions)
          /\ pc[x] # "off" => IF pc[x] = "done" THEN x \in settled ELSE Running(x) /\ x \in claims
          /\ x \in Interrupts \intersect ToSet(decisions) => x \notin claims \union settled
      BY <1>0 DEF InterruptsHeld
    <3>2. CASE x = t
      BY <1>3, <3>2
    <3>3. CASE x # t
      BY <1>2, <1>5, <2>1, <3>1, <3>3
    <3> QED BY <3>2, <3>3
  <2>3. ASSUME NEW x \in Tasks, Held(x)'
        PROVE  /\ x \in Published("retain")' \union Mentions' \union Interrupts'
               /\ x \notin ToSet(decisions')
               /\ kind'[x] = "interrupt" => x \in claims' /\ pc'[x] = "off"
    <3>1. Held(x) /\ x # t
      BY <1>3, <2>1, <2>3
    <3>2. /\ x \in Published("retain") \union Mentions \union Interrupts
          /\ x \notin ToSet(decisions)
          /\ kind[x] = "interrupt" => x \in claims /\ pc[x] = "off"
      BY <1>0, <3>1 DEF InterruptsHeld
    <3> QED BY <1>2, <1>5, <3>1, <3>2
  <2>4. executor' = "open" /\ ~failed' =>
          \A x \in Interrupts' : x \in ToSet(decisions') \/ x \in settled' \/ Running(x)' \/ Held(x)'
    <3>1. Interrupts \subseteq Tasks
      BY DEF Interrupts, Published
    <3> QED BY <1>0, <1>2, <1>5, <2>1, <3>1 DEF InterruptsHeld
  <2>5. /\ consumer'.at = "held" => consumer'.task \in Tasks
        /\ consumer'.at = "replacing" => consumer'.task \in Tasks /\ active' \in Tasks
    BY <1>0 DEF InterruptsHeld
  <2> QED BY <2>2, <2>3, <2>4, <2>5 DEF InterruptsHeld
<1>11. BearersHeld'
  BY <1>0 DEF BearersHeld, Bears, Reserved
<1>12. {x \in claims : kind[x] = "mention"}' = {x \in claims : kind[x] = "mention"}
  <2>1. claims \subseteq Tasks
    BY <1>0 DEF Types, TypeOK
  <2> QED BY <1>3, <2>1
<1> QED BY <1>5, <1>6, <1>7, <1>8, <1>9, <1>10, <1>11, <1>12

(* Whether the director keeps a slot for what waits for room.              *)
Room == IF hand.at = "room" /\ kind[hand.task] = "mention" THEN 1 ELSE 0

LEMMA SlotsCounted ==
  ASSUME UpdatesInductive
  PROVE  /\ MaxMentions = slots + Len(mentions) + Cardinality({x \in claims : kind[x] = "mention"}) + Room
         /\ slots \in Nat /\ Len(mentions) \in Nat /\ MaxMentions \in Nat /\ Room \in {0, 1}
         /\ Cardinality({x \in claims : kind[x] = "mention"}) \in Nat
<1>1. SlotsHeld
  BY DEF UpdatesInductive
<1>2. /\ slots \in Nat /\ Len(mentions) \in Nat /\ MaxMentions \in Nat
      /\ Cardinality({x \in claims : kind[x] = "mention"}) \in Nat
  BY ClaimsCounted DEF Slotted
<1> QED BY <1>1, <1>2 DEF SlotsHeld, Room

(* Publishing an update: it waits for room, or is refused, or is queued.   *)
LEMMA PublishKeeps ==
  ASSUME UpdatesInductive, NEW t \in Tasks, NEW k \in DecisionKinds, NEW free \in Nat, hand.task = t,
         kind' \in [Tasks -> DecisionKinds \union {"none"}], kind'[t] = k,
         \A x \in Tasks \ {t} : kind'[x] = kind[x],
         free + (IF k = "mention" THEN 1 ELSE 0) = slots + Room,
         Publish(t, k, free), UNCHANGED <<owned, loop, speech, ops, rest, faults>>
  PROVE  UpdatesInductive'
<1>0. HandHeld /\ QueuesHeld /\ ClaimsHeld /\ InterruptsHeld /\ SlotsHeld /\ Types
  BY DEF UpdatesInductive
<1>1. t \notin unresolved /\ NoOne \notin Tasks
  BY <1>0 DEF HandHeld
<1> DEFINE held == Cardinality({x \in claims : kind[x] = "mention"})
           one == IF k = "mention" THEN 1 ELSE 0
<1>2. /\ MaxMentions = slots + Len(mentions) + held + Room
      /\ slots \in Nat /\ Len(mentions) \in Nat /\ MaxMentions \in Nat /\ Room \in {0, 1}
      /\ held \in Nat
  BY SlotsCounted
<1>3. free + one = slots + Room /\ one \in {0, 1}
  OBVIOUS
<1>4. /\ decisions \in Seq(Tasks) /\ Len(decisions) <= MaxDecisions /\ mentions \in Seq(Tasks)
      /\ interrupts \in Seq(Tasks) /\ unresolved \subseteq Tasks
      /\ director \in {"open", "failed", "closed"} /\ faults \in 0..MaxFaults
      /\ executor \in {"open", "closing", "joined", "closed", "stuck"}
  BY <1>0 DEF Types, TypeOK
<1>5. CASE /\ hand' = [at |-> "room", task |-> t] /\ slots' = free
           /\ UNCHANGED <<unresolved, director, decisions, mentions, interrupts>>
  <2>1. \A j \in DecisionKinds : Published(j)' = Published(j)
    BY <1>5 DEF Published
  <2>2. /\ QueuesHeld' /\ ClaimsHeld' /\ InterruptsHeld' /\ BearersHeld'
        /\ {x \in claims : kind[x] = "mention"}' = {x \in claims : kind[x] = "mention"}
    BY <1>5, <2>1, NothingPublished
  <2>3. HandHeld'
    BY <1>1, <1>5 DEF HandHeld, DecisionKinds
  <2>4. Room' = one
    BY <1>5 DEF Room
  <2> HIDE DEF held, one
  <2>5. MaxMentions = slots' + Len(mentions') + held + one /\ slots' \in 0..MaxMentions
    <3>1. slots' = free /\ mentions' = mentions
      BY <1>5
    <3> QED BY ONLY <1>2, <1>3, <3>1, free \in Nat
  <2>6. SlotsHeld'
    BY <2>2, <2>4, <2>5 DEF SlotsHeld, Room, held
  <2>7. Types'
    <3>1. hand' \in [at : {"waiting", "policy", "slot", "room", "over"}, task : Tasks \union {NoOne}]
      BY <1>5
    <3> QED BY <1>0, <1>4, <1>5, <2>5, <3>1, DirectorTypes
  <2> QED BY <2>2, <2>3, <2>6, <2>7 DEF UpdatesInductive
<1>6. CASE /\ DirectorFails(t)
           /\ slots' = IF k = "mention" THEN free + 1 ELSE free
           /\ UNCHANGED <<decisions, mentions, interrupts>>
  <2>1. /\ director' = "failed" /\ hand' = [at |-> "over", task |-> NoOne]
        /\ unresolved' = unresolved \union {t}
    BY <1>6 DEF DirectorFails
  <2>2. \A j \in DecisionKinds : Published(j)' = Published(j)
    BY <1>1, <2>1 DEF Published
  <2>3. /\ QueuesHeld' /\ ClaimsHeld' /\ InterruptsHeld' /\ BearersHeld'
        /\ {x \in claims : kind[x] = "mention"}' = {x \in claims : kind[x] = "mention"}
    BY <1>6, <2>2, NothingPublished
  <2>4. HandHeld'
    BY <1>1, <1>4, <2>1 DEF HandHeld
  <2>5. Room' = 0
    BY <2>1 DEF Room
  <2>6. slots' = free + one /\ mentions' = mentions
    BY <1>6
  <2> HIDE DEF held, one
  <2>7. MaxMentions = slots' + Len(mentions') + held + 0 /\ slots' \in 0..MaxMentions
    BY ONLY <1>2, <1>3, <2>6, free \in Nat
  <2>8. SlotsHeld'
    BY <2>3, <2>5, <2>7 DEF SlotsHeld, Room, held
  <2>9. Types'
    <3>1. hand' \in [at : {"waiting", "policy", "slot", "room", "over"}, task : Tasks \union {NoOne}]
      BY <2>1
    <3>2. unresolved' \subseteq Tasks /\ director' \in {"open", "failed", "closed"}
      BY <1>4, <2>1
    <3> QED BY <1>0, <1>4, <1>6, <2>7, <3>1, <3>2, DirectorTypes
  <2> QED BY <2>3, <2>4, <2>8, <2>9 DEF UpdatesInductive
<1>7. CASE /\ Len(decisions) < MaxDecisions
           /\ decisions' = Append(decisions, t) /\ slots' = free
           /\ mentions' = IF k = "mention" THEN Append(mentions, t) ELSE mentions
           /\ interrupts' = IF k = "interrupt" THEN Append(interrupts, t) ELSE interrupts
           /\ hand' = [at |-> "waiting", task |-> NoOne]
           /\ UNCHANGED <<unresolved, director>>
  <2>1. /\ QueuesHeld' /\ ClaimsHeld' /\ InterruptsHeld' /\ BearersHeld'
        /\ {x \in claims : kind[x] = "mention"}' = {x \in claims : kind[x] = "mention"}
        /\ decisions' \in Seq(Tasks) /\ Len(decisions') = Len(decisions) + 1
        /\ mentions' \in Seq(Tasks) /\ interrupts' \in Seq(Tasks)
        /\ Len(mentions') = Len(mentions) + one
    BY <1>1, <1>7, OnePublished
  <2>2. HandHeld'
    BY <1>1, <1>4, <1>7 DEF HandHeld
  <2>3. Room' = 0
    BY <1>7 DEF Room
  <2> HIDE DEF held, one
  <2>4. MaxMentions = slots' + Len(mentions') + held + 0 /\ slots' \in 0..MaxMentions
    <3>1. slots' = free /\ Len(mentions') = Len(mentions) + one
      BY <1>7, <2>1
    <3> QED BY ONLY <1>2, <1>3, <3>1, free \in Nat
  <2>5. SlotsHeld'
    BY <2>1, <2>3, <2>4 DEF SlotsHeld, Room, held
  <2>6. Types'
    <3>1. hand' \in [at : {"waiting", "policy", "slot", "room", "over"}, task : Tasks \union {NoOne}]
      BY <1>7
    <3>2. Len(decisions') <= MaxDecisions
      <4>1. Len(decisions) \in Nat /\ MaxDecisions \in Nat
        BY <1>4
      <4> QED BY <1>7, <2>1, <4>1
    <3>3. unresolved' \subseteq Tasks /\ director' \in {"open", "failed", "closed"}
          /\ executor' \in {"open", "closing", "joined", "closed", "stuck"} /\ faults' \in 0..MaxFaults
      BY <1>4, <1>7
    <3> QED BY <1>0, <2>1, <2>4, <3>1, <3>2, <3>3, DirectorTypes
  <2> QED BY <2>1, <2>2, <2>5, <2>6 DEF UpdatesInductive
<1>8. Len(decisions) >= MaxDecisions \/ Len(decisions) < MaxDecisions
  <2>1. Len(decisions) \in Nat /\ MaxDecisions \in Nat
    BY <1>4
  <2> QED BY ONLY <2>1
<1> QED BY <1>5, <1>6, <1>7, <1>8 DEF Publish

(* A step that leaves the slots alone, with nothing reserved.              *)
LEMMA HandMoves ==
  ASSUME UpdatesInductive, \A j \in DecisionKinds : Published(j)' = Published(j),
         Types', HandHeld', Room' + slots' = Room + slots, slots' \in Nat, Room' \in {0, 1},
         UNCHANGED <<decisions, mentions, interrupts, owned, loop, speech, ops>>,
         executor' = "open" => executor = "open"
  PROVE  UpdatesInductive'
<1>1. /\ QueuesHeld' /\ ClaimsHeld' /\ InterruptsHeld' /\ BearersHeld'
      /\ {x \in claims : kind[x] = "mention"}' = {x \in claims : kind[x] = "mention"}
  BY NothingPublished
<1> DEFINE held == Cardinality({x \in claims : kind[x] = "mention"})
           queued == Len(mentions)
<1>2. /\ MaxMentions = slots + queued + held + Room
      /\ slots \in Nat /\ queued \in Nat /\ MaxMentions \in Nat /\ Room \in {0, 1} /\ held \in Nat
  BY SlotsCounted
<1>3. /\ Len(mentions') = queued
      /\ Room' + slots' = Room + slots /\ slots' \in Nat /\ (Room' = 0 \/ Room' = 1)
      /\ Room = 0 \/ Room = 1
  BY <1>2
<1> HIDE DEF held, queued
<1>4. MaxMentions = slots' + queued + held + Room'
  BY ONLY <1>2, <1>3
<1>5. SlotsHeld'
  BY <1>1, <1>3, <1>4 DEF SlotsHeld, Room, held, queued
<1> QED BY <1>1, <1>5 DEF UpdatesInductive

LEMMA ReceiveKeeps ==
  ASSUME UpdatesInductive, NEW t \in Tasks, Receive(t)
  PROVE  UpdatesInductive'
<1>0. HandHeld /\ Types
  BY DEF UpdatesInductive
<1>1. /\ hand.at = "waiting" /\ kind[t] = "none" /\ t \notin unresolved
      /\ hand' = [at |-> "policy", task |-> t]
      /\ UNCHANGED <<kind, unresolved, director, queues, owned, loop, speech, ops, rest, faults>>
  BY DEF Receive
<1>2. hand.task \notin Tasks
  BY <1>0, <1>1 DEF HandHeld
<1>3. \A j \in DecisionKinds : Published(j)' = Published(j)
  BY <1>1, <1>2 DEF Published, DecisionKinds
<1>4. HandHeld'
  BY <1>1 DEF HandHeld
<1>5. Room' = 0 /\ Room = 0 /\ slots' = slots /\ slots \in Nat
  BY <1>1, SlotsCounted DEF Room
<1>6. Types'
  <2>1. hand' \in [at : {"waiting", "policy", "slot", "room", "over"}, task : Tasks \union {NoOne}]
    BY <1>1
  <2>2. /\ kind' \in [Tasks -> DecisionKinds \union {"none"}]
        /\ decisions' \in Seq(Tasks) /\ Len(decisions') <= MaxDecisions /\ mentions' \in Seq(Tasks)
        /\ interrupts' \in Seq(Tasks) /\ slots' \in 0..MaxMentions /\ unresolved' \subseteq Tasks
        /\ director' \in {"open", "failed", "closed"} /\ faults' \in 0..MaxFaults
        /\ executor' \in {"open", "closing", "joined", "closed", "stuck"}
    BY <1>0, <1>1 DEF Types, TypeOK
  <2> QED BY <1>0, <1>1, <2>1, <2>2, DirectorTypes
<1> QED BY <1>1, <1>3, <1>4, <1>5, <1>6, HandMoves

LEMMA PolicyFailsKeeps ==
  ASSUME UpdatesInductive, PolicyFails
  PROVE  UpdatesInductive'
<1>0. HandHeld /\ Types
  BY DEF UpdatesInductive
<1>1. /\ hand.at = "policy" /\ faults < MaxFaults /\ faults' = faults + 1 /\ director' = "failed"
      /\ hand' = [at |-> "over", task |-> NoOne] /\ unresolved' = unresolved \union {hand.task}
      /\ UNCHANGED <<kind, queues, owned, loop, speech, ops, rest>>
  BY DEF PolicyFails, Fault, DirectorFails
<1>2. hand.task \in Tasks /\ NoOne \notin Tasks
  BY <1>0, <1>1 DEF HandHeld
<1>3. \A j \in DecisionKinds : Published(j)' = Published(j)
  BY <1>1, <1>2 DEF Published
<1>4. unresolved' \subseteq Tasks
  BY <1>0, <1>1, <1>2 DEF Types, TypeOK
<1>5. HandHeld'
  BY <1>1, <1>2, <1>4 DEF HandHeld
<1>6. Room' = 0 /\ Room = 0 /\ slots' = slots /\ slots \in Nat
  BY <1>1, SlotsCounted DEF Room
<1>7. Types'
  <2>1. hand' \in [at : {"waiting", "policy", "slot", "room", "over"}, task : Tasks \union {NoOne}]
    BY <1>1
  <2>2. /\ kind' \in [Tasks -> DecisionKinds \union {"none"}]
        /\ decisions' \in Seq(Tasks) /\ Len(decisions') <= MaxDecisions /\ mentions' \in Seq(Tasks)
        /\ interrupts' \in Seq(Tasks) /\ slots' \in 0..MaxMentions
        /\ executor' \in {"open", "closing", "joined", "closed", "stuck"}
    BY <1>0, <1>1 DEF Types, TypeOK
  <2>3. faults' \in 0..MaxFaults
    <3>1. faults \in 0..MaxFaults
      BY <1>0 DEF Types, TypeOK
    <3> QED BY <1>1, <3>1
  <2>4. director' \in {"open", "failed", "closed"}
    BY <1>1
  <2> QED BY <1>0, <1>1, <1>4, <2>1, <2>2, <2>3, <2>4, DirectorTypes
<1> QED BY <1>1, <1>3, <1>5, <1>6, <1>7, HandMoves

LEMMA DecideKeeps ==
  ASSUME UpdatesInductive, NEW k \in Kinds, Decide(k)
  PROVE  UpdatesInductive'
<1>0. HandHeld /\ Types
  BY DEF UpdatesInductive
<1>1. hand.at = "policy" /\ hand.task \in Tasks /\ kind[hand.task] = "none" /\ k \in DecisionKinds
      /\ hand.task \notin unresolved /\ slots \in Nat
  BY <1>0, SlotsCounted DEF Decide, HandHeld
<1>2. /\ kind' \in [Tasks -> DecisionKinds \union {"none"}] /\ kind'[hand.task] = k
      /\ \A x \in Tasks \ {hand.task} : kind'[x] = kind[x]
  <2>1. kind \in [Tasks -> DecisionKinds \union {"none"}] /\ kind' = [kind EXCEPT ![hand.task] = k]
    BY <1>0 DEF Types, TypeOK, Decide
  <2> QED BY <1>1, <2>1
<1>3. Room = 0
  BY <1>1 DEF Room
<1>4. CASE k = "mention" /\ slots = 0
  <2>1. /\ hand' = [hand EXCEPT !.at = "slot"] /\ UNCHANGED <<unresolved, director, queues>>
        /\ UNCHANGED <<owned, loop, speech, ops, rest, faults>>
    BY <1>4 DEF Decide
  <2>2. hand'.at = "slot" /\ hand'.task = hand.task
        /\ hand' \in [at : {"waiting", "policy", "slot", "room", "over"}, task : Tasks \union {NoOne}]
    <3>1. hand \in [at : {"waiting", "policy", "slot", "room", "over"}, task : Tasks \union {NoOne}]
      BY <1>0 DEF Types
    <3> QED BY <2>1, <3>1
  <2>3. \A j \in DecisionKinds : Published(j)' = Published(j)
    BY <1>2, <2>1, <2>2 DEF Published
  <2>4. HandHeld'
    BY <1>1, <1>2, <1>4, <2>1, <2>2 DEF HandHeld
  <2>5. Room' = 0 /\ slots' = slots
    BY <2>1, <2>2 DEF Room
  <2>6. Types'
    <3>1. /\ decisions' \in Seq(Tasks) /\ Len(decisions') <= MaxDecisions /\ mentions' \in Seq(Tasks)
          /\ interrupts' \in Seq(Tasks) /\ slots' \in 0..MaxMentions /\ unresolved' \subseteq Tasks
          /\ director' \in {"open", "failed", "closed"} /\ faults' \in 0..MaxFaults
          /\ executor' \in {"open", "closing", "joined", "closed", "stuck"}
      BY <1>0, <2>1 DEF Types, TypeOK
    <3> QED BY <1>0, <1>2, <2>1, <2>2, <3>1, DirectorTypes
  <2> QED BY <1>1, <1>3, <2>1, <2>3, <2>4, <2>5, <2>6, HandMoves
<1>5. CASE ~(k = "mention" /\ slots = 0)
  <2> DEFINE free == IF k = "mention" THEN slots - 1 ELSE slots
  <2>1. Publish(hand.task, k, free) /\ UNCHANGED <<owned, loop, speech, ops, rest, faults>>
    BY <1>5 DEF Decide
  <2>2. free \in Nat /\ free + (IF k = "mention" THEN 1 ELSE 0) = slots + Room
    BY <1>1, <1>3, <1>5
  <2> HIDE DEF free
  <2> QED BY <1>1, <1>2, <2>1, <2>2, PublishKeeps
<1> QED BY <1>4, <1>5

LEMMA GetSlotKeeps ==
  ASSUME UpdatesInductive, GetSlot
  PROVE  UpdatesInductive'
<1>0. HandHeld /\ Types
  BY DEF UpdatesInductive
<1>1. /\ hand.at = "slot" /\ slots > 0 /\ Publish(hand.task, "mention", slots - 1)
      /\ UNCHANGED <<kind, owned, loop, speech, ops, rest, faults>>
  BY DEF GetSlot
<1>2. /\ hand.task \in Tasks /\ kind[hand.task] = "mention" /\ slots \in Nat
      /\ "mention" \in DecisionKinds
  BY <1>0, <1>1, SlotsCounted DEF HandHeld, DecisionKinds
<1>3. kind \in [Tasks -> DecisionKinds \union {"none"}]
  BY <1>0 DEF Types, TypeOK
<1>4. Room = 0
  BY <1>1 DEF Room
<1> DEFINE free == slots - 1
<1>5. free \in Nat /\ free + 1 = slots + Room /\ Publish(hand.task, "mention", free)
  BY <1>1, <1>2, <1>4
<1> HIDE DEF free
<1>6. /\ kind' \in [Tasks -> DecisionKinds \union {"none"}] /\ kind'[hand.task] = "mention"
      /\ \A x \in Tasks \ {hand.task} : kind'[x] = kind[x]
  BY <1>1, <1>2, <1>3
<1> QED BY <1>1, <1>2, <1>5, <1>6, PublishKeeps

LEMMA GetRoomKeeps ==
  ASSUME UpdatesInductive, GetRoom
  PROVE  UpdatesInductive'
<1> DEFINE k == kind[hand.task]
<1>0. HandHeld /\ Types
  BY DEF UpdatesInductive
<1>1. /\ hand.at = "room" /\ Publish(hand.task, k, slots)
      /\ UNCHANGED <<kind, owned, loop, speech, ops, rest, faults>>
  BY DEF GetRoom
<1>2. kind \in [Tasks -> DecisionKinds \union {"none"}]
  BY <1>0 DEF Types, TypeOK
<1>3. hand.task \in Tasks /\ k \in DecisionKinds /\ slots \in Nat
  BY <1>0, <1>1, <1>2, SlotsCounted DEF HandHeld
<1>4. /\ kind' \in [Tasks -> DecisionKinds \union {"none"}] /\ kind'[hand.task] = k
      /\ \A x \in Tasks \ {hand.task} : kind'[x] = kind[x]
  BY <1>1, <1>2, <1>3
<1>5. slots + (IF k = "mention" THEN 1 ELSE 0) = slots + Room
  BY <1>1 DEF Room
<1> HIDE DEF k
<1> QED BY <1>1, <1>3, <1>4, <1>5, PublishKeeps

LEMMA CloseDirectorKeeps ==
  ASSUME UpdatesInductive, CloseDirector
  PROVE  UpdatesInductive'
<1>0. HandHeld /\ Types
  BY DEF UpdatesInductive
<1>1. /\ executor = "joined" /\ executor' \in {"closed", "stuck"}
      /\ director' \in {director, "closed"} /\ hand' = [at |-> "over", task |-> NoOne]
      /\ unresolved' = unresolved \union ({hand.task} \ {NoOne})
      /\ slots' = slots + Room
      /\ UNCHANGED <<kind, decisions, mentions, interrupts, owned, loop, speech, ops, evidence,
                     paused, faults>>
  <2>1. /\ executor' \in {"closed", "stuck"} /\ director' \in {director, "closed"}
        /\ executor = "joined" /\ hand' = [at |-> "over", task |-> NoOne]
        /\ unresolved' = unresolved \union ({hand.task} \ {NoOne})
        /\ slots' = IF hand.at = "room" /\ kind[hand.task] = "mention" THEN slots + 1 ELSE slots
        /\ UNCHANGED <<kind, decisions, mentions, interrupts, owned, loop, speech, ops, evidence,
                       paused, faults>>
    BY DEF CloseDirector
  <2>2. slots \in Nat
    BY SlotsCounted
  <2>3. slots' = slots + Room
    BY <2>1, <2>2 DEF Room
  <2> QED BY <2>1, <2>3
<1>2. hand.task \in Tasks \union {NoOne} /\ NoOne \notin Tasks /\ unresolved \subseteq Tasks
  BY <1>0 DEF Types, TypeOK
<1>3. \A j \in DecisionKinds : Published(j)' = Published(j)
  BY <1>1, <1>2 DEF Published
<1>4. unresolved' \subseteq Tasks
  BY <1>1, <1>2
<1>5. HandHeld'
  BY <1>1, <1>2, <1>4 DEF HandHeld
<1>6. Room' = 0
  BY <1>1 DEF Room
<1>7. /\ slots' \in Nat /\ slots' \in 0..MaxMentions /\ Room' + slots' = Room + slots
  <2> DEFINE held == Cardinality({x \in claims : kind[x] = "mention"})
             queued == Len(mentions)
  <2>1. /\ MaxMentions = slots + queued + held + Room
        /\ slots \in Nat /\ queued \in Nat /\ MaxMentions \in Nat /\ Room \in {0, 1} /\ held \in Nat
    BY SlotsCounted
  <2>2. slots' = slots + Room
    BY <1>1
  <2> HIDE DEF held, queued
  <2> QED BY ONLY <1>6, <2>1, <2>2
<1>8. Types'
  <2>1. hand' \in [at : {"waiting", "policy", "slot", "room", "over"}, task : Tasks \union {NoOne}]
    BY <1>1
  <2>2. /\ kind' \in [Tasks -> DecisionKinds \union {"none"}]
        /\ decisions' \in Seq(Tasks) /\ Len(decisions') <= MaxDecisions /\ mentions' \in Seq(Tasks)
        /\ interrupts' \in Seq(Tasks) /\ faults' \in 0..MaxFaults
    BY <1>0, <1>1 DEF Types, TypeOK
  <2>3. /\ director' \in {"open", "failed", "closed"}
        /\ executor' \in {"open", "closing", "joined", "closed", "stuck"}
    <3>1. director \in {"open", "failed", "closed"}
      BY <1>0 DEF Types, TypeOK
    <3> QED BY <1>1, <3>1
  <2> QED BY <1>0, <1>1, <1>4, <1>7, <2>1, <2>2, <2>3, DirectorTypes
<1> QED BY <1>1, <1>3, <1>5, <1>6, <1>7, <1>8, HandMoves

-----------------------------------------------------------------------------
(* The loop over the decisions.                                            *)

LEMMA LoopTypes ==
  ASSUME Types, UNCHANGED <<dvars, mentions, slots, speech, mine, said, rest, faults>>,
         decisions' \in Seq(Tasks), Len(decisions') <= MaxDecisions, interrupts' \in Seq(Tasks),
         claims' \subseteq Tasks, IsFiniteSet(claims'), Cardinality(claims') <= MaxMentions + MaxInterrupts,
         settled' \subseteq Tasks, active' \in Tasks \union {NoOne}, failed' \in BOOLEAN,
         consumer' \in [at : {"next", "held", "replacing", "over"}, task : Tasks \union {NoOne}],
         pc' \in [Ops -> Stages], bearer' \in [Ops -> Bearing], origins' \subseteq Tasks
  PROVE  Types'
<1>1. consumer'.at \in {"next", "held", "replacing", "over"} /\ consumer'.task \in Tasks \union {NoOne}
  OBVIOUS
<1>2. /\ evidence' \in BOOLEAN
      /\ hand'.at \in {"waiting", "policy", "slot", "room", "over"}
      /\ hand'.task \in Tasks \union {NoOne}
      /\ hand' \in [at : {"waiting", "policy", "slot", "room", "over"}, task : Tasks \union {NoOne}]
      /\ kind' \in [Tasks -> DecisionKinds \union {"none"}]
      /\ mentions' \in Seq(Tasks) /\ slots' \in 0..MaxMentions /\ unresolved' \subseteq Tasks
      /\ director' \in {"open", "failed", "closed"} /\ faults' \in 0..MaxFaults
      /\ executor' \in {"open", "closing", "joined", "closed", "stuck"}
  BY DEF Types, TypeOK
<1>3. /\ mine' \in [Ops -> Seq(Tasks)] /\ said' \subseteq Ops
      /\ floor' \in Ops \union {NoOne} /\ revision' \in Ops \union {NoOne}
      /\ resumable' \in BOOLEAN /\ paused' \in BOOLEAN
  BY DEF Types, TypeOK
<1> QED BY ONLY <1>1, <1>2, <1>3, decisions' \in Seq(Tasks), Len(decisions') <= MaxDecisions, interrupts' \in Seq(Tasks),
         claims' \subseteq Tasks, IsFiniteSet(claims'), Cardinality(claims') <= MaxMentions + MaxInterrupts,
         settled' \subseteq Tasks, active' \in Tasks \union {NoOne}, failed' \in BOOLEAN,
         consumer' \in [at : {"next", "held", "replacing", "over"}, task : Tasks \union {NoOne}],
         pc' \in [Ops -> Stages], bearer' \in [Ops -> Bearing], origins' \subseteq Tasks
    DEF Types, TypeOK, Stages, Bearing

(* What the loop acts on is out of the queues from then on.                *)
Taking(t) ==
  /\ t \in Published("retain") \union Mentions \union Interrupts
  /\ decisions' \in Seq(Tasks) /\ IsInjective(decisions') /\ Len(decisions') <= MaxDecisions
  /\ t \notin ToSet(decisions') /\ ToSet(decisions') \subseteq ToSet(decisions)
  /\ ToSet(decisions) \subseteq ToSet(decisions') \union {t}
  /\ interrupts' = Sift(decisions', {x \in Tasks : kind[x] = "interrupt"})
  /\ \A x \in Tasks : Held(x) => x = t
  /\ kind[t] = "interrupt" => pc[t] = "off" /\ t \notin settled

Claimed(t) == IF kind[t] = "interrupt" THEN claims \union {t} ELSE claims

(* Wherever the update goes, the others do not notice.                     *)
LEMMA OneTaken ==
  ASSUME UpdatesInductive, NEW t \in Tasks, Taking(t),
         UNCHANGED <<hand, kind, unresolved, mentions, slots, mine, executor>>, failed => failed',
         \/ claims' = Claimed(t) /\ settled' = settled
         \/ kind[t] = "interrupt" /\ claims' = claims \ {t} /\ settled' = settled \union {t},
         \A p \in Ops : \/ p = t \/ pc'[p] = pc[p]
                        \/ p = Idle /\ pc[p] = "off" /\ pc'[p] = "ready",
         \/ pc'[t] = pc[t]
         \/ kind[t] = "interrupt" /\ pc'[t] = "ready" /\ claims' = Claimed(t),
         \A x \in Tasks : Held(x)' => x = t /\ claims' = Claimed(t) /\ pc'[t] = pc[t],
         kind[t] = "interrupt" /\ executor' = "open" /\ ~failed' =>
           t \in settled' \/ pc'[t] = "ready" \/ Held(t)',
         consumer'.at = "held" => consumer'.task \in Tasks,
         consumer'.at = "replacing" => consumer'.task \in Tasks /\ active' \in Tasks
  PROVE  HandHeld' /\ QueuesHeld' /\ ClaimsHeld' /\ InterruptsHeld' /\ SlotsHeld'
<1>0. HandHeld /\ QueuesHeld /\ ClaimsHeld /\ InterruptsHeld /\ SlotsHeld /\ Types
  BY DEF UpdatesInductive
<1>1. Tasks \subseteq Ops /\ Idle \notin Tasks
  BY OpsTyped
<1>2. /\ Mentions' = Mentions /\ Interrupts' = Interrupts
      /\ Published("retain")' = Published("retain")
  BY PublishedSame DEF Mentions, Interrupts
<1>3. /\ t \in Interrupts <=> kind[t] = "interrupt"
      /\ kind[t] = "interrupt" => t \notin Mentions /\ t \notin Published("retain") /\ pc[t] = "off"
                                  /\ t \notin settled
      /\ kind[t] # "interrupt" => pc[t] = "off"
  <2>1. /\ t \in Interrupts <=> kind[t] = "interrupt"
        /\ kind[t] = "interrupt" => t \notin Mentions /\ t \notin Published("retain")
    BY DEF Taking, Mentions, Interrupts, Published
  <2>2. kind[t] # "interrupt" => pc[t] = "off"
    BY <1>0, <2>1 DEF InterruptsHeld
  <2> QED BY <2>1, <2>2 DEF Taking
<1>4. HandHeld'
  BY <1>0 DEF HandHeld
<1>5. QueuesHeld'
  <2>1. IsInjective(decisions') /\ IsInjective(mentions')
    BY <1>0 DEF QueuesHeld, Taking
  <2>2. ToSet(decisions') \subseteq Published("retain")' \union Mentions' \union Interrupts'
    BY <1>0, <1>2 DEF QueuesHeld, Taking
  <2>3. ToSet(mentions') \subseteq Mentions' \ (claims' \union settled')
    BY <1>0, <1>2, <1>3 DEF QueuesHeld, Claimed
  <2>4. interrupts' = Sift(decisions', {x \in Tasks : kind'[x] = "interrupt"})
    BY DEF Taking
  <2> QED BY <2>1, <2>2, <2>3, <2>4 DEF QueuesHeld
<1>6. Mentions \intersect claims' = Mentions \intersect claims
      /\ Mentions \intersect settled' = Mentions \intersect settled
  BY <1>3 DEF Claimed
<1>7. ClaimsHeld'
  <2>1. /\ claims' \union settled' \subseteq Mentions' \union Interrupts'
        /\ claims' \intersect settled' = {}
    BY <1>0, <1>2, <1>3 DEF ClaimsHeld, Claimed
  <2>2. ASSUME NEW o \in Ops
        PROVE  /\ IsInjective(mine'[o]) /\ ToSet(mine'[o]) \subseteq Mentions' \intersect claims'
               /\ mine'[o] # <<>> => /\ o \notin Tasks
                                     /\ pc'[o] \in {"entering", "speaking", "ending", "revoked"}
    <3>1. /\ IsInjective(mine[o]) /\ ToSet(mine[o]) \subseteq Mentions \intersect claims
          /\ mine[o] # <<>> => /\ o \notin Tasks
                               /\ pc[o] \in {"entering", "speaking", "ending", "revoked"}
      BY <1>0 DEF ClaimsHeld
    <3> QED BY <1>2, <1>6, <3>1
  <2>3. \A o, p \in Ops : o # p => ToSet(mine'[o]) \intersect ToSet(mine'[p]) = {}
    BY <1>0 DEF ClaimsHeld
  <2>4. \A m \in Mentions' \intersect claims' : \E o \in Ops : m \in ToSet(mine'[o])
    BY <1>0, <1>2, <1>6 DEF ClaimsHeld
  <2>5. Mentions' \subseteq ToSet(mentions') \union claims' \union settled'
    BY <1>0, <1>2, <1>6 DEF ClaimsHeld
  <2> QED BY <2>1, <2>2, <2>3, <2>4, <2>5 DEF ClaimsHeld
<1>8. \A x \in Tasks \ {t} : /\ pc'[x] = pc[x] /\ (Running(x)' <=> Running(x))
                             /\ x \in claims' <=> x \in claims
                             /\ x \in settled' <=> x \in settled
                             /\ x \in ToSet(decisions') <=> x \in ToSet(decisions)
  <2>1. \A x \in Tasks \ {t} : pc'[x] = pc[x]
    BY <1>1
  <2>2. \A x \in Tasks \ {t} : (x \in claims' <=> x \in claims) /\ (x \in settled' <=> x \in settled)
    BY DEF Claimed
  <2> QED BY <2>1, <2>2 DEF Running, Taking
<1>9. InterruptsHeld'
  <2>1. ASSUME NEW x \in Tasks
        PROVE  /\ pc'[x] # "off" => x \in Interrupts' \ ToSet(decisions')
               /\ pc'[x] # "off" => IF pc'[x] = "done" THEN x \in settled' ELSE Running(x)' /\ x \in claims'
               /\ x \in Interrupts' \intersect ToSet(decisions') => x \notin claims' \union settled'
    <3>1. CASE x = t
      <4>1. t \notin ToSet(decisions')
        BY DEF Taking
      <4>2. CASE pc'[t] = pc[t]
        BY <1>2, <1>3, <3>1, <4>1, <4>2
      <4>3. CASE kind[t] = "interrupt" /\ pc'[t] = "ready" /\ claims' = Claimed(t)
        BY <1>2, <1>3, <3>1, <4>1, <4>3 DEF Claimed, Running
      <4> QED BY <4>2, <4>3
    <3>2. CASE x # t
      <4>1. /\ pc[x] # "off" => x \in Interrupts \ ToSet(decisions)
            /\ pc[x] # "off" => IF pc[x] = "done" THEN x \in settled ELSE Running(x) /\ x \in claims
            /\ x \in Interrupts \intersect ToSet(decisions) => x \notin claims \union settled
        BY <1>0 DEF InterruptsHeld
      <4> QED BY <1>2, <1>8, <3>2, <4>1
    <3> QED BY <3>1, <3>2
  <2>2. ASSUME NEW x \in Tasks, Held(x)'
        PROVE  /\ x \in Published("retain")' \union Mentions' \union Interrupts'
               /\ x \notin ToSet(decisions')
               /\ kind'[x] = "interrupt" => x \in claims' /\ pc'[x] = "off"
    <3>1. x = t /\ claims' = Claimed(t) /\ pc'[t] = pc[t]
      BY <2>2
    <3> QED BY <1>2, <1>3, <3>1 DEF Taking, Claimed
  <2>3. ASSUME executor' = "open", ~failed', NEW x \in Interrupts'
        PROVE  x \in ToSet(decisions') \/ x \in settled' \/ Running(x)' \/ Held(x)'
    <3>1. x \in Interrupts /\ x \in Tasks
      BY <1>2 DEF Interrupts, Published
    <3>2. CASE x = t
      BY <1>3, <2>3, <3>1, <3>2 DEF Running
    <3>3. CASE x # t
      <4>1. x \in ToSet(decisions) \/ x \in settled \/ Running(x) \/ Held(x)
        BY <1>0, <2>3, <3>1 DEF InterruptsHeld
      <4>2. ~Held(x)
        BY <3>1, <3>3 DEF Taking
      <4> QED BY <1>8, <3>1, <3>3, <4>1, <4>2
    <3> QED BY <3>2, <3>3
  <2> QED BY <2>1, <2>2, <2>3 DEF InterruptsHeld
<1>10. SlotsHeld'
  <2>1. {x \in claims : kind[x] = "mention"}' = {x \in claims : kind[x] = "mention"}
    BY DEF Claimed
  <2> QED BY <1>0, <2>1 DEF SlotsHeld
<1> QED BY <1>4, <1>5, <1>7, <1>9, <1>10

(* What the loop claims is within what may be claimed.                     *)
WithinClaims(all) ==
  IsFiniteSet(all) /\ Cardinality(all) <= MaxMentions + MaxInterrupts /\ all \subseteq Tasks

LEMMA FewerWithin ==
  ASSUME NEW all, WithinClaims(all), NEW some, some \subseteq all
  PROVE  WithinClaims(some)
<1>1. /\ IsFiniteSet(some) /\ Cardinality(some) <= Cardinality(all)
      /\ Cardinality(some) \in Nat /\ Cardinality(all) \in Nat
  BY FS_Subset, FS_CardinalityType DEF WithinClaims
<1>2. MaxMentions + MaxInterrupts \in Nat
  OBVIOUS
<1> QED BY <1>1, <1>2 DEF WithinClaims

(* What the loop leaves alone, and that who speaks goes on.                *)
LEMMA OneTakenKeeps ==
  ASSUME UpdatesInductive, NEW t \in Tasks, Taking(t), WithinClaims(Claimed(t)),
         UNCHANGED <<dvars, mentions, slots, speech, mine, said, rest, faults>>, failed => failed',
         \/ claims' = Claimed(t) /\ settled' = settled
         \/ kind[t] = "interrupt" /\ claims' = claims \ {t} /\ settled' = settled \union {t},
         \A p \in Ops : \/ p = t \/ pc'[p] = pc[p]
                        \/ p = Idle /\ pc[p] = "off" /\ pc'[p] = "ready",
         \/ pc'[t] = pc[t]
         \/ kind[t] = "interrupt" /\ pc'[t] = "ready" /\ claims' = Claimed(t),
         consumer' \in [at : {"next", "held", "replacing", "over"}, task : Tasks \union {NoOne}],
         consumer'.at = "held" => consumer'.task = t /\ claims' = Claimed(t) /\ pc'[t] = pc[t],
         kind[t] = "interrupt" /\ executor' = "open" /\ ~failed' =>
           t \in settled' \/ pc'[t] = "ready" \/ consumer' = [at |-> "held", task |-> t],
         consumer'.at = "replacing" => consumer'.task \in Tasks /\ active' \in Tasks,
         active' \in Tasks \union {NoOne}, failed' \in BOOLEAN,
         pc' \in [Ops -> Stages], bearer' \in [Ops -> Bearing], Bears(pc', bearer'), origins' \subseteq Tasks
  PROVE  UpdatesInductive'
<1>1. \A x \in Tasks : Held(x)' => x = t /\ claims' = Claimed(t) /\ pc'[t] = pc[t]
  BY DEF Held
<1>2. /\ kind[t] = "interrupt" /\ executor' = "open" /\ ~failed' =>
           t \in settled' \/ pc'[t] = "ready" \/ Held(t)'
      /\ consumer'.at = "held" => consumer'.task \in Tasks
  BY DEF Held
<1>3. HandHeld' /\ QueuesHeld' /\ ClaimsHeld' /\ InterruptsHeld' /\ SlotsHeld'
  BY <1>1, <1>2, OneTaken
<1>4. /\ decisions' \in Seq(Tasks) /\ Len(decisions') <= MaxDecisions /\ interrupts' \in Seq(Tasks)
  <2>1. decisions' \in Seq(Tasks) /\ Len(decisions') <= MaxDecisions
        /\ interrupts' = Sift(decisions', {x \in Tasks : kind[x] = "interrupt"})
    BY DEF Taking
  <2> QED BY <2>1, SiftType
<1>5. settled' \subseteq Tasks
  BY DEF UpdatesInductive, Types, TypeOK
<1>6. claims' \subseteq Tasks /\ IsFiniteSet(claims') /\ Cardinality(claims') <= MaxMentions + MaxInterrupts
  <2>1. claims' \subseteq Claimed(t)
    BY DEF Claimed
  <2> QED BY <2>1, FewerWithin DEF WithinClaims
<1>7. Types'
  BY <1>4, <1>5, <1>6, LoopTypes DEF UpdatesInductive
<1>8. floor' # NoOne => pc'[floor'] = "speaking"
  <2>1. floor' = floor /\ (floor # NoOne => floor \in Ops /\ pc[floor] = "speaking")
    BY OpsTyped
  <2>2. pc[t] # "speaking"
    BY DEF UpdatesInductive, InterruptsHeld, Taking, Interrupts, Published
  <2> QED BY <2>1, <2>2
<1>9. BearersHeld'
  BY <1>8 DEF BearersHeld, Bears, Reserved
<1> QED BY <1>3, <1>7, <1>9 DEF UpdatesInductive

LEMMA StartInterruptKeeps ==
  ASSUME UpdatesInductive, NEW t \in Tasks, Taking(t), WithinClaims(Claimed(t)), kind[t] = "interrupt",
         StartInterrupt(t, Claimed(t)), UNCHANGED <<dvars, slots>>
  PROVE  UpdatesInductive'
<1> DEFINE from == IF Running(Idle) /\ bearer[Idle] # "none" THEN {Idle} ELSE {}
           mayTake == executor = "open" /\ bearer[Idle] = "reserved"
           started == IF from # {} THEN mayTake ELSE MayReserve(bearer)
<1>1. /\ pc \in [Ops -> Stages] /\ bearer \in [Ops -> Bearing] /\ Bears(pc, bearer)
      /\ t \in Ops /\ Idle \in Ops /\ t # Idle /\ NoOne \notin Tasks
  BY OpsTyped
<1>2. pc[t] = "off" /\ t \notin settled
  BY DEF Taking
<1>3. /\ UNCHANGED <<dvars, mentions, slots, speech, mine, said, rest, faults>>
      /\ active \in Tasks \union {NoOne} /\ failed \in BOOLEAN /\ origins \subseteq Tasks
  BY DEF UpdatesInductive, Types, TypeOK, StartInterrupt
<1>4. CASE /\ started
           /\ pc' = [pc EXCEPT ![t] = "ready"]
           /\ bearer' = [o \in Ops |-> IF o = t THEN "reserved"
                                       ELSE IF o \in from THEN "none" ELSE bearer[o]]
           /\ origins' = IF from = {} THEN origins ELSE origins \union {t}
           /\ claims' = Claimed(t)
           /\ \/ active # NoOne /\ consumer' = [at |-> "replacing", task |-> t] /\ active' = active
              \/ consumer' = [at |-> "next", task |-> NoOne] /\ active' = t
           /\ UNCHANGED <<failed, settled>>
  <2>1. /\ pc' \in [Ops -> Stages] /\ pc'[t] = "ready" /\ \A p \in Ops : p # t => pc'[p] = pc[p]
        /\ bearer' \in [Ops -> Bearing] /\ bearer'[t] = "reserved"
        /\ \A p \in Ops : p # t => bearer'[p] = IF p \in from THEN "none" ELSE bearer[p]
    <3>1. pc' \in [Ops -> Stages] /\ pc'[t] = "ready" /\ \A p \in Ops : p # t => pc'[p] = pc[p]
      BY <1>1, <1>4 DEF Stages
    <3> HIDE DEF from
    <3>2. bearer' \in [Ops -> Bearing]
      BY <1>1, <1>4 DEF Bearing
    <3>3. bearer'[t] = "reserved" /\ \A p \in Ops : p # t => bearer'[p] = IF p \in from THEN "none" ELSE bearer[p]
      BY <1>1, <1>4
    <3> QED BY <3>1, <3>2, <3>3
  <2>2. Bears(pc', bearer')
    <3>1. CASE from = {}
      <4>1. MayReserve(bearer)
        BY <1>4, <3>1
      <4>2. /\ \A p \in Ops : p # t => pc'[p] = pc[p] /\ bearer'[p] = bearer[p]
            /\ pc'[t] \notin {"off", "done"} /\ bearer'[t] # "none"
        BY <2>1, <3>1
      <4> QED BY ONLY <1>1, <4>1, <4>2, OneMoreBears
    <3>2. CASE from = {Idle}
      <4>1. /\ bearer[Idle] # "none" /\ bearer'[Idle] = "none"
            /\ \A p \in Ops : p \notin {Idle, t} => pc'[p] = pc[p] /\ bearer'[p] = bearer[p]
            /\ bearer'[t] # "none" /\ pc'[t] \notin {"off", "done"}
        <5>1. bearer[Idle] # "none"
          BY <3>2
        <5> HIDE DEF from
        <5> QED BY <1>1, <2>1, <3>2, <5>1
      <4> QED BY ONLY <1>1, <4>1, SwapBears
    <3> QED BY <3>1, <3>2
  <2>3. \/ consumer' = [at |-> "replacing", task |-> t] /\ active' \in Tasks
        \/ consumer' = [at |-> "next", task |-> NoOne] /\ active' \in Tasks
    BY <1>3, <1>4
  <2>4. /\ consumer' \in [at : {"next", "held", "replacing", "over"}, task : Tasks \union {NoOne}]
        /\ consumer'.at # "held" /\ (consumer'.at = "replacing" => consumer'.task \in Tasks)
        /\ active' \in Tasks
    BY <2>3
  <2>5. origins' \subseteq Tasks /\ claims' = Claimed(t) /\ settled' = settled /\ failed' = failed
        /\ failed' \in BOOLEAN
    BY <1>3, <1>4
  <2>6. \A p \in Ops : \/ p = t \/ pc'[p] = pc[p]
                       \/ p = Idle /\ pc[p] = "off" /\ pc'[p] = "ready"
    BY <2>1
  <2> HIDE DEF started, from, mayTake
  <2> QED BY <1>3, <2>1, <2>2, <2>4, <2>5, <2>6, OneTakenKeeps
<1>5. CASE /\ claims' = Claimed(t) \ {t} /\ settled' = settled \union {t}
           /\ consumer' = [at |-> "next", task |-> NoOne]
           /\ UNCHANGED <<active, failed, ops>>
  <2>1. claims' = claims \ {t}
    BY <1>5 DEF Claimed
  <2>2. /\ consumer' \in [at : {"next", "held", "replacing", "over"}, task : Tasks \union {NoOne}]
        /\ consumer'.at = "next"
    BY <1>5
  <2>3. /\ pc' = pc /\ bearer' = bearer /\ origins' = origins /\ active' = active /\ failed' = failed
        /\ settled' = settled \union {t}
    BY <1>5
  <2> HIDE DEF started, from, mayTake
  <2> QED BY <1>1, <1>3, <2>1, <2>2, <2>3, OneTakenKeeps DEF Bears, Reserved
<1>6. CASE claims' = Claimed(t) /\ ConsumerEnds /\ UNCHANGED <<active, settled, ops>>
  <2>1. /\ consumer' \in [at : {"next", "held", "replacing", "over"}, task : Tasks \union {NoOne}]
        /\ consumer'.at = "over" /\ failed' = (failed \/ executor = "open")
    BY <1>6 DEF ConsumerEnds
  <2>2. /\ pc' = pc /\ bearer' = bearer /\ origins' = origins /\ active' = active
        /\ settled' = settled /\ claims' = Claimed(t)
    BY <1>6
  <2>3. /\ failed => failed'
        /\ executor' = "open" => failed'
        /\ failed' \in BOOLEAN
    BY <1>3, <2>1
  <2> HIDE DEF started, from, mayTake
  <2> QED BY <1>1, <1>3, <2>1, <2>2, <2>3, OneTakenKeeps DEF Bears, Reserved
<1> HIDE DEF started, from, mayTake
<1> QED
  <2>1. \/ /\ started
           /\ pc' = [pc EXCEPT ![t] = "ready"]
           /\ bearer' = [o \in Ops |-> IF o = t THEN "reserved"
                                       ELSE IF o \in from THEN "none" ELSE bearer[o]]
           /\ origins' = IF from = {} THEN origins ELSE origins \union {t}
           /\ claims' = Claimed(t)
           /\ IF active # NoOne /\ Running(active)
                THEN /\ consumer' = [at |-> "replacing", task |-> t]
                     /\ UNCHANGED active
                ELSE /\ consumer' = [at |-> "next", task |-> NoOne]
                     /\ active' = t
           /\ UNCHANGED <<failed, settled>>
        \/ /\ ~started /\ from = {}
           /\ claims' = Claimed(t) \ {t} /\ settled' = settled \union {t}
           /\ consumer' = [at |-> "next", task |-> NoOne]
           /\ UNCHANGED <<active, failed, ops>>
        \/ /\ ~started /\ from # {}
           /\ claims' = Claimed(t) /\ ConsumerEnds
           /\ UNCHANGED <<active, settled, ops>>
    BY DEF StartInterrupt, started, from, mayTake
  <2> QED BY <1>4, <1>5, <1>6, <2>1

LEMMA ActKeeps ==
  ASSUME UpdatesInductive, NEW t \in Tasks, Taking(t), WithinClaims(Claimed(t)),
         Act(t, Claimed(t)), UNCHANGED <<dvars, slots>>
  PROVE  UpdatesInductive'
<1>1. CASE kind[t] = "interrupt"
  BY <1>1, StartInterruptKeeps DEF Act
<1>2. CASE kind[t] # "interrupt"
  <2>1. /\ consumer' = [at |-> "next", task |-> NoOne]
        /\ WithDrain(pc, bearer, mentions, floor) \/ (pc' = pc /\ bearer' = bearer)
        /\ UNCHANGED <<mentions, owned, active, failed, speech, mine, said, origins, rest, faults>>
    BY <1>2 DEF Act
  <2>2. /\ pc \in [Ops -> Stages] /\ bearer \in [Ops -> Bearing] /\ Bears(pc, bearer)
        /\ Idle # t /\ t \in Ops
    BY OpsTyped
  <2>3. /\ pc' \in [Ops -> Stages] /\ bearer' \in [Ops -> Bearing] /\ Bears(pc', bearer')
        /\ \A o \in Ops : pc'[o] = pc[o] \/ (o = Idle /\ pc[o] = "off" /\ pc'[o] = "ready")
    <3>1. CASE WithDrain(pc, bearer, mentions, floor)
      BY ONLY <2>2, <3>1, DrainBears
    <3>2. CASE pc' = pc /\ bearer' = bearer
      BY <2>2, <3>2
    <3> QED BY <2>1, <3>1, <3>2
  <2>4. pc'[t] = pc[t] /\ claims' = Claimed(t) /\ settled' = settled
    BY <1>2, <2>1, <2>2, <2>3 DEF Claimed
  <2>5. /\ consumer' \in [at : {"next", "held", "replacing", "over"}, task : Tasks \union {NoOne}]
        /\ consumer'.at = "next"
    BY <2>1
  <2>6. /\ active' \in Tasks \union {NoOne} /\ failed' = failed /\ failed' \in BOOLEAN
        /\ origins' \subseteq Tasks
    BY <2>1 DEF UpdatesInductive, Types, TypeOK
  <2>7. UNCHANGED <<dvars, mentions, slots, speech, mine, said, rest, faults>>
    BY <2>1
  <2> QED BY <1>2, <2>3, <2>4, <2>5, <2>6, <2>7, OneTakenKeeps
<1> QED BY <1>1, <1>2

(* What comes off the decisions may be acted on.                           *)
LEMMA TakenIsTaking ==
  ASSUME UpdatesInductive, consumer.at = "next", decisions # <<>>, decisions' = Tail(decisions),
         interrupts' = IF kind[Head(decisions)] = "interrupt" THEN Tail(interrupts) ELSE interrupts
  PROVE  Head(decisions) \in Tasks /\ Taking(Head(decisions))
<1> DEFINE t == Head(decisions)
           keep == {x \in Tasks : kind[x] = "interrupt"}
<1>0. QueuesHeld /\ ClaimsHeld /\ InterruptsHeld /\ Types
  BY DEF UpdatesInductive
<1>1. /\ decisions \in Seq(Tasks) /\ IsInjective(decisions) /\ Len(decisions) <= MaxDecisions
      /\ decisions # <<>> /\ interrupts = Sift(decisions, keep)
  BY <1>0 DEF Types, TypeOK, QueuesHeld
<1> HIDE DEF t, keep
<1>2. /\ t \in Tasks /\ Tail(decisions) \in Seq(Tasks) /\ IsInjective(Tail(decisions))
      /\ Len(Tail(decisions)) = Len(decisions) - 1
      /\ ToSet(decisions) = {t} \union ToSet(Tail(decisions)) /\ t \notin ToSet(Tail(decisions))
  BY ONLY <1>1, DistinctTail DEF t
<1>3. Len(decisions') <= MaxDecisions
  <2>1. Len(decisions) \in Nat /\ MaxDecisions \in Nat /\ Len(decisions') = Len(decisions) - 1
    BY <1>1, <1>2
  <2> QED BY ONLY <1>1, <2>1
<1>4. t \in Published("retain") \union Mentions \union Interrupts
  BY <1>0, <1>2 DEF QueuesHeld
<1>5. kind[t] = "interrupt" => pc[t] = "off" /\ t \notin settled
  <2>1. t \in ToSet(decisions)
    BY <1>2
  <2>2. pc[t] = "off"
    BY <1>0, <1>2, <2>1 DEF InterruptsHeld
  <2>3. kind[t] = "interrupt" => t \in Interrupts
    BY <1>4 DEF Interrupts, Mentions, Published
  <2> QED BY <1>0, <1>2, <2>1, <2>2, <2>3 DEF InterruptsHeld
<1>6. \A x \in Tasks : ~Held(x)
  BY DEF Held
<1>7. interrupts' = Sift(Tail(decisions), keep)
  <2>1. Sift(decisions, keep) = IF t \in keep THEN <<t>> \o Sift(Tail(decisions), keep)
                                ELSE Sift(Tail(decisions), keep)
    BY ONLY <1>1, SiftHead DEF t
  <2>2. Sift(Tail(decisions), keep) \in Seq(Tasks)
    BY ONLY <1>2, SiftType
  <2>3. t \in keep <=> kind[t] = "interrupt"
    BY <1>2 DEF keep
  <2>4. CASE kind[t] = "interrupt"
    <3>1. interrupts' = Tail(interrupts) /\ interrupts = <<t>> \o Sift(Tail(decisions), keep)
      BY <1>1, <2>1, <2>3, <2>4 DEF t
    <3> DEFINE q == Sift(Tail(decisions), keep)
    <3>2. q \in Seq(Tasks)
      BY <2>2
    <3> HIDE DEF q
    <3>3. Tail(<<t>> \o q) = q
      BY ONLY <1>2, <3>2
    <3> QED BY <3>1, <3>3 DEF q
  <2>5. CASE kind[t] # "interrupt"
    BY <1>1, <2>1, <2>3, <2>5 DEF t
  <2> QED BY <2>4, <2>5
<1> QED BY <1>2, <1>3, <1>4, <1>5, <1>6, <1>7 DEF Taking, t, keep

LEMMA OneMoreWithin ==
  ASSUME UpdatesInductive, NEW t \in Tasks, kind[t] = "interrupt" => ClaimsLeft > 0 \/ t \in claims
  PROVE  WithinClaims(Claimed(t))
<1>1. /\ IsFiniteSet(claims) /\ Cardinality(claims) \in Nat /\ MaxMentions + MaxInterrupts \in Nat
      /\ Cardinality(claims) <= MaxMentions + MaxInterrupts
      /\ ClaimsLeft = MaxMentions + MaxInterrupts - Cardinality(claims)
  BY ClaimsCounted
<1>2. claims \subseteq Tasks
  BY DEF UpdatesInductive, Types, TypeOK
<1>3. CASE kind[t] = "interrupt" /\ t \notin claims
  <2>1. IsFiniteSet(claims \union {t}) /\ Cardinality(claims \union {t}) = Cardinality(claims) + 1
    BY ONLY <1>1, <1>3, FS_AddElement
  <2>2. Cardinality(claims) + 1 <= MaxMentions + MaxInterrupts
    BY <1>1, <1>3
  <2> QED BY <1>2, <1>3, <2>1, <2>2 DEF WithinClaims, Claimed
<1>4. CASE ~(kind[t] = "interrupt" /\ t \notin claims)
  <2>1. Claimed(t) = claims
    BY <1>4 DEF Claimed
  <2> QED BY <1>1, <1>2, <2>1 DEF WithinClaims
<1> QED BY <1>3, <1>4

LEMMA TakeDecisionKeeps ==
  ASSUME UpdatesInductive, TakeDecision
  PROVE  UpdatesInductive'
<1> DEFINE t == Head(decisions)
<1>1. /\ consumer.at = "next" /\ decisions # <<>> /\ decisions' = Tail(decisions)
      /\ kind[t] = "interrupt" => ClaimsLeft > 0
      /\ UNCHANGED <<dvars, slots>>
      /\ interrupts' = IF kind[t] = "interrupt" THEN Tail(interrupts) ELSE interrupts
  BY DEF TakeDecision
<1>2. t \in Tasks /\ Taking(t)
  BY <1>1, TakenIsTaking
<1>3. \/ Act(t, Claimed(t))
      \/ /\ consumer' = [at |-> "held", task |-> t] /\ claims' = Claimed(t)
         /\ UNCHANGED <<mentions, settled, active, failed, speech, ops, rest, faults>>
  BY DEF TakeDecision, Claimed
<1> HIDE DEF t
<1>4. WithinClaims(Claimed(t))
  BY <1>1, <1>2, OneMoreWithin
<1>5. CASE Act(t, Claimed(t))
  BY <1>1, <1>2, <1>4, <1>5, ActKeeps
<1>6. CASE /\ consumer' = [at |-> "held", task |-> t] /\ claims' = Claimed(t)
           /\ UNCHANGED <<mentions, settled, active, failed, speech, ops, rest, faults>>
  <2>1. /\ consumer' \in [at : {"next", "held", "replacing", "over"}, task : Tasks \union {NoOne}]
        /\ consumer'.at = "held" /\ consumer'.task = t /\ consumer' = [at |-> "held", task |-> t]
    BY <1>2, <1>6
  <2>2. /\ active' \in Tasks \union {NoOne} /\ failed' = failed /\ failed' \in BOOLEAN
        /\ origins' \subseteq Tasks
    BY <1>6 DEF UpdatesInductive, Types, TypeOK
  <2>3. /\ pc' = pc /\ bearer' = bearer /\ claims' = Claimed(t) /\ settled' = settled
        /\ UNCHANGED <<dvars, mentions, slots, speech, mine, said, rest, faults>>
    BY <1>1, <1>6
  <2>4. /\ pc' \in [Ops -> Stages] /\ bearer' \in [Ops -> Bearing] /\ Bears(pc', bearer')
    BY <2>3, OpsTyped DEF Bears, Reserved
  <2> QED BY <1>2, <1>4, <2>1, <2>2, <2>3, <2>4, OneTakenKeeps
<1> QED BY <1>3, <1>5, <1>6

LEMMA ActOnHeldKeeps ==
  ASSUME UpdatesInductive, ActOnHeld
  PROVE  UpdatesInductive'
<1> DEFINE t == consumer.task
<1>0. QueuesHeld /\ ClaimsHeld /\ InterruptsHeld /\ Types
  BY DEF UpdatesInductive
<1>1. /\ consumer.at = "held" /\ Act(t, claims)
      /\ UNCHANGED <<dvars, decisions, interrupts, slots>>
  BY DEF ActOnHeld
<1>2. t \in Tasks /\ Held(t) /\ \A x \in Tasks : Held(x) => x = t
  <2>1. t \in Tasks
    BY <1>0, <1>1 DEF InterruptsHeld
  <2>2. Held(t)
    <3>1. consumer \in [at : {"next", "held", "replacing", "over"}, task : Tasks \union {NoOne}]
      BY <1>0 DEF Types
    <3> QED BY <1>1, <3>1 DEF Held
  <2>3. \A x \in Tasks : Held(x) => x = t
    BY DEF Held
  <2> QED BY <2>1, <2>2, <2>3
<1> HIDE DEF t
<1>3. /\ t \in Published("retain") \union Mentions \union Interrupts
      /\ t \notin ToSet(decisions)
      /\ kind[t] = "interrupt" => t \in claims /\ pc[t] = "off"
  BY <1>0, <1>2 DEF InterruptsHeld
<1>4. kind[t] = "interrupt" => t \notin settled
  BY <1>0, <1>3 DEF ClaimsHeld
<1>5. Taking(t)
  <2>1. /\ decisions \in Seq(Tasks) /\ IsInjective(decisions) /\ Len(decisions) <= MaxDecisions
        /\ interrupts = Sift(decisions, {x \in Tasks : kind[x] = "interrupt"})
    BY <1>0 DEF Types, TypeOK, QueuesHeld
  <2>2. decisions' = decisions /\ interrupts' = interrupts
    BY <1>1
  <2> QED BY <1>2, <1>3, <1>4, <2>1, <2>2 DEF Taking
<1>6. Claimed(t) = claims /\ WithinClaims(Claimed(t))
  BY <1>2, <1>3, OneMoreWithin DEF Claimed
<1> QED BY <1>1, <1>2, <1>5, <1>6, ActKeeps

-----------------------------------------------------------------------------
(* The theorems.                                                           *)

LEMMA InitInductive == Init => UpdatesInductive
<1> SUFFICES ASSUME Init PROVE UpdatesInductive
  OBVIOUS
<1>1. /\ claims = {} /\ settled = {} /\ decisions = <<>> /\ mentions = <<>> /\ interrupts = <<>>
      /\ slots = MaxMentions /\ unresolved = {} /\ floor = NoOne
      /\ hand = [at |-> "waiting", task |-> NoOne] /\ consumer = [at |-> "next", task |-> NoOne]
      /\ pc = [o \in Ops |-> "off"] /\ bearer = [o \in Ops |-> "none"]
      /\ mine = [o \in Ops |-> <<>>] /\ kind = [t \in Tasks |-> "none"]
  BY DEF Init
<1>2. NoOne \notin Tasks /\ IsFiniteSet(claims) /\ Cardinality(claims) = 0
      /\ MaxMentions \in Nat /\ MaxInterrupts \in Nat /\ MaxDecisions \in Nat /\ MaxOperations \in Nat
  BY <1>1, FS_EmptySet
<1>3. \A k \in DecisionKinds : Published(k) = {}
  BY <1>1 DEF Published, DecisionKinds
<1>4. Types
  <2>1. /\ evidence \in BOOLEAN /\ director \in {"open", "failed", "closed"}
        /\ active \in Tasks \union {NoOne} /\ said \subseteq Ops /\ origins \subseteq Tasks
        /\ revision \in Ops \union {NoOne} /\ resumable \in BOOLEAN /\ paused \in BOOLEAN
        /\ failed \in BOOLEAN /\ executor \in {"open", "closing", "joined", "closed", "stuck"}
        /\ faults \in 0..MaxFaults
    <3>1. evidence \in BOOLEAN
      BY DEF Init
    <3>2. /\ director = "open" /\ active = NoOne /\ said = {} /\ origins = {} /\ revision = NoOne
          /\ resumable = FALSE /\ paused = FALSE /\ failed = FALSE /\ executor = "open" /\ faults = 0
      BY DEF Init
    <3>3. faults \in 0..MaxFaults
      BY ONLY <3>2, MaxFaults \in Nat
    <3> QED BY ONLY <3>1, <3>2, <3>3
  <2>2. /\ decisions \in Seq(Tasks) /\ Len(decisions) <= MaxDecisions
        /\ mentions \in Seq(Tasks) /\ interrupts \in Seq(Tasks) /\ slots \in 0..MaxMentions
    BY <1>1, <1>2
  <2>3. /\ claims \subseteq Tasks /\ Cardinality(claims) <= MaxMentions + MaxInterrupts
        /\ settled \subseteq Tasks /\ unresolved \subseteq Tasks /\ floor \in Ops \union {NoOne}
    BY <1>1, <1>2
  <2>4. /\ pc \in [Ops -> {"off", "reserved", "ready", "entering", "speaking", "ending", "revoked", "done"}]
        /\ bearer \in [Ops -> {"none", "reserved", "consumed"}]
        /\ mine \in [Ops -> Seq(Tasks)]
        /\ kind \in [Tasks -> DecisionKinds \union {"none"}]
    BY <1>1
  <2>5. /\ hand \in [at : {"waiting", "policy", "slot", "room", "over"}, task : Tasks \union {NoOne}]
        /\ hand.at \in {"waiting", "policy", "slot", "room", "over"} /\ hand.task \in Tasks \union {NoOne}
        /\ consumer \in [at : {"next", "held", "replacing", "over"}, task : Tasks \union {NoOne}]
        /\ consumer.at \in {"next", "held", "replacing", "over"} /\ consumer.task \in Tasks \union {NoOne}
    BY <1>1
  <2> QED BY ONLY <1>2, <2>1, <2>2, <2>3, <2>4, <2>5 DEF Types, TypeOK
<1>5. HandHeld
  BY <1>1, <1>2 DEF HandHeld
<1>6. Mentions = {} /\ Interrupts = {} /\ Published("retain") = {}
  BY <1>3 DEF Mentions, Interrupts, DecisionKinds
<1>7. QueuesHeld
  BY <1>1, DistinctEmpty, SiftEmpty DEF QueuesHeld
<1>8. ClaimsHeld
  BY <1>1, <1>6, DistinctEmpty DEF ClaimsHeld
<1>9. InterruptsHeld
  <2>1. \A t \in Tasks : pc[t] = "off" /\ ~Held(t)
    BY <1>1 DEF Held, Ops
  <2> QED BY <1>1, <1>6, <2>1, DistinctEmpty DEF InterruptsHeld
<1>10. SlotsHeld
  <2>1. Cardinality({t \in claims : kind[t] = "mention"}) = 0 /\ Len(mentions) = 0
    BY <1>1, FS_EmptySet
  <2> QED BY <1>1, <1>2, <2>1 DEF SlotsHeld
<1>11. BearersHeld
  <2>1. Reserved(bearer) = {}
    BY <1>1 DEF Reserved
  <2>2. IsFiniteSet(Reserved(bearer)) /\ Cardinality(Reserved(bearer)) <= MaxOperations
    BY <1>2, <2>1, FS_EmptySet
  <2> QED BY <1>1, <2>2 DEF BearersHeld, Bears
<1> QED BY <1>4, <1>5, <1>7, <1>8, <1>9, <1>10, <1>11 DEF UpdatesInductive

LEMMA InductiveStep == UpdatesInductive /\ [Next]_vars => UpdatesInductive'
<1> SUFFICES ASSUME UpdatesInductive, [Next]_vars PROVE UpdatesInductive'
  OBVIOUS
<1>1. CASE Directing
  <2>1. CASE \E t \in Tasks : Receive(t)
    BY <2>1, ReceiveKeeps
  <2>2. CASE \E k \in Kinds : Decide(k)
    BY <2>2, DecideKeeps
  <2> QED BY <1>1, <2>1, <2>2, PolicyFailsKeeps, GetSlotKeeps, GetRoomKeeps DEF Directing
<1>2. CASE Consuming
  BY <1>2, TakeDecisionKeeps, ActOnHeldKeeps, NoDecisionKeeps, ReplacedKeeps DEF Consuming
<1>3. CASE ReplaceTimesOut
  BY <1>3, ReplaceTimesOutKeeps
<1>4. CASE \E u \in Turns : Reserve(u) \/ Release(u) \/ Respond(u)
  BY <1>4, ReserveKeeps, ReleaseKeeps, RespondKeeps
<1>5. ASSUME NEW o \in Ops, Operating(o) \/ Say(o) \/ OpeningRefused(o) \/ OperationFails(o)
      PROVE  UpdatesInductive'
  <2>1. CASE Operating(o)
    BY <2>1, StartTurnKeeps, FinishTurnKeeps, StartSpeakingKeeps, FinishInterruptKeeps,
       NextIdleKeeps, FinishIdleKeeps, EnterKeeps, SupersededKeeps, SpeechEndsKeeps DEF Operating
  <2> QED BY <1>5, <2>1, SayKeeps, OpeningRefusedKeeps, OperationFailsKeeps
<1>6. CASE CancelForeground \/ Pause \/ Unpause
  BY <1>6, CancelForegroundKeeps, PauseKeeps, UnpauseKeeps
<1>7. CASE BeginClose \/ CancelOperations \/ CloseDirector
  BY <1>7, BeginCloseKeeps, CancelOperationsKeeps, CloseDirectorKeeps
<1>8. CASE UNCHANGED vars
  <2>1. /\ Unmoved /\ director' = director /\ evidence' = evidence
        /\ UNCHANGED <<pc, bearer, consumer, active, said, origins, speech, paused, failed, executor, faults>>
    BY <1>8 DEF vars, Unmoved
  <2>2. Movable'
    BY <2>1, IsMovable DEF UpdatesInductive, Movable
  <2>3. Onward /\ bearer' \in [Ops -> Bearing]
    BY <2>1, OpsTyped DEF Onward
  <2> QED BY <2>1, <2>2, <2>3, GoOn
<1> QED BY <1>1, <1>2, <1>3, <1>4, <1>5, <1>6, <1>7, <1>8 DEF Next

(* What the director has in hand, where an update that was published is,   *)
(* who has a claim on it, and who bears a reservation, in every state      *)
(* (UpdatesInduction has the parts).                                       *)
THEOREM UpdatesInvariant == Spec => []UpdatesInductive
<1> QED BY InitInductive, InductiveStep, PTL DEF Spec

(* Mention slots neither leak nor multiply, whoever fails or closes when:  *)
(* each is free, reserved by the director, or belongs to one mention.      *)
THEOREM SlotsAreConserved == Spec => []SlotsConserved
<1>1. UpdatesInductive => SlotsConserved
  BY DEF UpdatesInductive, Types, SlotsHeld, SlotsConserved
<1> QED BY <1>1, UpdatesInvariant, PTL

(* While the executor serves, a mention or an interrupt that was published *)
(* is in exactly one place until it is settled, and interrupts wait in the *)
(* order of the decisions.                                                 *)
THEOREM UpdatesAreKept == Spec => []UpdateKept
<1>1. ASSUME UpdatesInductive, executor = "open", ~failed
      PROVE  /\ interrupts = Sift(decisions, {t \in Tasks : kind[t] = "interrupt"})
             /\ \A t \in Published("mention") \union Published("interrupt") :
                  Cardinality({i \in DOMAIN mentions : mentions[i] = t})
                    + Cardinality({i \in DOMAIN interrupts : interrupts[i] = t})
                    + Cardinality({o \in Ops : t \in claims /\ Holder(t, o)})
                    + (IF consumer = [at |-> "held", task |-> t] /\ kind[t] = "interrupt"
                         THEN 1 ELSE 0)
                    + (IF t \in settled THEN 1 ELSE 0) = 1
  <2> DEFINE keep == {t \in Tasks : kind[t] = "interrupt"}
  <2>0. QueuesHeld /\ ClaimsHeld /\ InterruptsHeld /\ Types
    BY <1>1 DEF UpdatesInductive
  <2>1. /\ mentions \in Seq(Tasks) /\ IsInjective(mentions)
        /\ decisions \in Seq(Tasks) /\ IsInjective(decisions) /\ interrupts \in Seq(Tasks)
        /\ interrupts = Sift(decisions, keep)
    BY <2>0 DEF Types, TypeOK, QueuesHeld
  <2>2. IsInjective(interrupts) /\ ToSet(interrupts) = ToSet(decisions) \intersect keep
    <3> HIDE DEF keep
    <3>1. IsInjective(Sift(decisions, keep)) /\ ToSet(Sift(decisions, keep)) = ToSet(decisions) \intersect keep
      BY ONLY <2>1, DistinctSift
    <3> QED BY <2>1, <3>1
  <2>3. Tasks \subseteq Ops
    BY DEF Ops
  <2>4. ASSUME NEW t \in Published("mention") \union Published("interrupt")
        PROVE  Cardinality({i \in DOMAIN mentions : mentions[i] = t})
                 + Cardinality({i \in DOMAIN interrupts : interrupts[i] = t})
                 + Cardinality({o \in Ops : t \in claims /\ Holder(t, o)})
                 + (IF consumer = [at |-> "held", task |-> t] /\ kind[t] = "interrupt"
                      THEN 1 ELSE 0)
                 + (IF t \in settled THEN 1 ELSE 0) = 1
    <3> DEFINE queued == Cardinality({i \in DOMAIN mentions : mentions[i] = t})
               waiting == Cardinality({i \in DOMAIN interrupts : interrupts[i] = t})
               holders == {o \in Ops : t \in claims /\ Holder(t, o)}
               held == IF consumer = [at |-> "held", task |-> t] /\ kind[t] = "interrupt" THEN 1 ELSE 0
               over == IF t \in settled THEN 1 ELSE 0
    <3>1. queued = IF t \in ToSet(mentions) THEN 1 ELSE 0
      BY ONLY <2>1, Occurrences
    <3>2. waiting = IF t \in ToSet(interrupts) THEN 1 ELSE 0
      BY ONLY <2>1, <2>2, Occurrences
    <3>3. t \in Tasks /\ (t \in Mentions \/ t \in Interrupts)
      BY DEF Published, Mentions, Interrupts
    <3>4. Cardinality({}) = 0 /\ \A o : Cardinality({o}) = 1
      BY FS_EmptySet, FS_Singleton
    <3>5. CASE t \in Mentions
      <4>1. kind[t] = "mention" /\ t \notin ToSet(interrupts)
        BY <2>2, <3>5 DEF Mentions, Published
      <4>2. holders = IF t \in claims THEN {o \in Ops : t \in ToSet(mine[o])} ELSE {}
        BY <4>1 DEF Holder
      <4>3. Cardinality(holders) = IF t \in claims THEN 1 ELSE 0
        <5>1. CASE t \in claims
          <6>1. PICK o \in Ops : t \in ToSet(mine[o])
            BY <2>0, <3>5, <5>1 DEF ClaimsHeld
          <6>2. \A p \in Ops : t \in ToSet(mine[p]) => p = o
            BY <2>0, <6>1 DEF ClaimsHeld
          <6>3. {p \in Ops : t \in ToSet(mine[p])} = {o}
            BY <6>1, <6>2
          <6>4. holders = {o}
            BY <4>2, <5>1, <6>3
          <6> QED BY <3>4, <5>1, <6>4
        <5>2. CASE t \notin claims
          BY <3>4, <4>2, <5>2
        <5> QED BY <5>1, <5>2
      <4>4. held = 0
        BY <4>1
      <4>5. /\ t \in ToSet(mentions) => t \notin claims /\ t \notin settled
            /\ t \in claims => t \notin settled
            /\ t \in ToSet(mentions) \/ t \in claims \/ t \in settled
        BY <2>0, <3>5 DEF QueuesHeld, ClaimsHeld
      <4> HIDE DEF queued, waiting, holders, held
      <4> QED BY ONLY <3>1, <3>2, <4>1, <4>3, <4>4, <4>5 DEF queued, waiting, holders, held
    <3>6. CASE t \in Interrupts
      <4>1. kind[t] = "interrupt" /\ t \notin Mentions /\ t \in keep
        BY <3>3, <3>6 DEF Mentions, Interrupts, Published
      <4>2. t \notin ToSet(mentions) /\ (t \in ToSet(interrupts) <=> t \in ToSet(decisions))
        BY <2>0, <2>2, <4>1 DEF QueuesHeld
      <4>3. holders = IF t \in claims /\ Running(t) THEN {t} ELSE {}
        BY <2>3, <3>3, <4>1 DEF Holder
      <4>4. Cardinality(holders) = IF t \in claims /\ Running(t) THEN 1 ELSE 0
        BY <3>4, <4>3
      <4>5. held = IF Held(t) THEN 1 ELSE 0
        BY <4>1 DEF Held
      <4>6. /\ Running(t) => t \in claims /\ t \notin ToSet(decisions)
            /\ t \in ToSet(decisions) => t \notin claims /\ t \notin settled /\ ~Held(t)
            /\ Held(t) => t \in claims /\ ~Running(t)
            /\ t \in claims => t \notin settled
            /\ t \in ToSet(decisions) \/ t \in settled \/ Running(t) \/ Held(t)
        BY <1>1, <2>0, <3>3, <3>6, <4>1 DEF InterruptsHeld, ClaimsHeld, Running
      <4> HIDE DEF queued, waiting, holders, held
      <4> QED BY ONLY <3>1, <3>2, <4>2, <4>4, <4>5, <4>6 DEF queued, waiting, holders, held
    <3> QED BY <3>3, <3>5, <3>6
  <2> QED BY <2>1, <2>4
<1>2. UpdatesInductive => UpdateKept
  BY <1>1 DEF UpdateKept
<1> QED BY <1>2, UpdatesInvariant, PTL

(* No reservation is left behind by an operation that is over, the limit   *)
(* holds, and all but a displaced idle operation have theirs.              *)
THEOREM BearersAreOwned == Spec => []BearersOwned
<1>1. UpdatesInductive => BearersOwned
  BY DEF UpdatesInductive, BearersHeld, Bears, BearersOwned
<1> QED BY <1>1, UpdatesInvariant, PTL
=============================================================================
