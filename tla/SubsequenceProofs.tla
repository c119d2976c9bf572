------------------------- MODULE SubsequenceProofs -------------------------
(***************************************************************************)
(* What Sift keeps.  The induction on the length of a sequence is by the   *)
(* least number for which a statement fails.                               *)
(***************************************************************************)
EXTENDS Subsequence, Integers, SequenceTheorems, WellFoundedInduction, TLAPS

(* A set of numbers that is not empty has a least one.                     *)
LEMMA LeastNumber ==
  ASSUME NEW T, T \subseteq Nat, T # {}
  PROVE  \E x \in T : \A y \in T : x <= y
<1>1. \E x \in T : \A y \in T : ~ (<<y, x>> \in OpToRel(<, Nat))
  BY NatLessThanWellFounded, WFMin, Zenon
<1>2. PICK x \in T : \A y \in T : ~ (<<y, x>> \in OpToRel(<, Nat))
  BY <1>1
<1>3. ASSUME NEW y \in T PROVE x <= y
  <2>1. ~ (<<y, x>> \in {ss \in Nat \X Nat : ss[1] < ss[2]})
    BY <1>2 DEF OpToRel
  <2>2. ~(y < x) /\ x \in Nat /\ y \in Nat
    BY <2>1, SMT
  <2> QED BY <2>2
<1> QED BY <1>3

(* f is the sifting of the first n elements of s.                          *)
IsSifting(f, s, keep, n) ==
  f = [i \in 0..n |-> IF i = 0 THEN <<>>
                      ELSE IF s[i] \in keep THEN Append(f[i - 1], s[i])
                      ELSE f[i - 1]]

(* There is one for each n.                                                *)
LEMMA SiftingExists ==
  ASSUME NEW s, NEW keep, NEW n \in Nat
  PROVE  \E f : IsSifting(f, s, keep, n)
<1> DEFINE T == {m \in Nat : ~ \E f : IsSifting(f, s, keep, m)}
<1>1. SUFFICES ASSUME T # {} PROVE FALSE
  OBVIOUS
<1>2. PICK m \in T : \A k \in T : m <= k
  BY <1>1, LeastNumber
<1>3. m # 0
  <2>1. IsSifting([i \in 0..0 |-> <<>>], s, keep, 0)
    BY DEF IsSifting
  <2> QED BY <2>1
<1>4. m - 1 \in Nat /\ m - 1 \notin T
  <2>1. m \in Nat
    OBVIOUS
  <2> HIDE DEF T
  <2> QED BY <1>2, <1>3, <2>1
<1>5. PICK f : IsSifting(f, s, keep, m - 1)
  BY <1>4
<1> DEFINE g == [i \in 0..m |-> IF i = m THEN IF s[m] \in keep THEN Append(f[m - 1], s[m]) ELSE f[m - 1]
                                ELSE f[i]]
<1>6. IsSifting(g, s, keep, m)
  <2>1. ASSUME NEW i \in 0..m
        PROVE  g[i] = IF i = 0 THEN <<>>
                      ELSE IF s[i] \in keep THEN Append(g[i - 1], s[i])
                      ELSE g[i - 1]
    <3>1. CASE i = m
      <4>1. g[i - 1] = f[m - 1]
        BY <3>1, <1>3
      <4> QED BY <3>1, <1>3, <4>1
    <3>2. CASE i = 0
      <4>1. f[0] = <<>>
        BY <1>4, <1>5 DEF IsSifting
      <4> QED BY <3>2, <1>3, <4>1
    <3>3. CASE i # 0 /\ i # m
      <4>1. i \in 0..(m - 1) /\ i - 1 \in 0..(m - 1) /\ i - 1 # m
        BY <3>3, <1>4
      <4>2. g[i] = f[i] /\ g[i - 1] = f[i - 1]
        BY <3>3, <4>1
      <4>3. f[i] = IF i = 0 THEN <<>>
                      ELSE IF s[i] \in keep THEN Append(f[i - 1], s[i])
                      ELSE f[i - 1]
        BY <1>4, <1>5, <4>1 DEF IsSifting
      <4> QED BY <4>2, <4>3, <3>3
    <3> QED BY <3>1, <3>2, <3>3
  <2> HIDE DEF g
  <2>2. g = [i \in 0..m |-> g[i]]
    BY DEF g
  <2> QED BY <2>1, <2>2 DEF IsSifting
<1> QED BY <1>6

(* Two siftings agree where both are defined.                              *)
LEMMA SiftingsAgree ==
  ASSUME NEW s, NEW t, NEW keep, NEW m \in Nat, NEW n \in Nat, m <= n,
         \A i \in 1..m : s[i] = t[i],
         NEW f, IsSifting(f, s, keep, m), NEW g, IsSifting(g, t, keep, n)
  PROVE  f[m] = g[m]
<1> DEFINE T == {k \in 0..m : f[k] # g[k]}
<1>1. SUFFICES ASSUME T # {} PROVE FALSE
  OBVIOUS
<1>2. PICK k \in T : \A j \in T : k <= j
  <2>1. T \subseteq Nat
    OBVIOUS
  <2> HIDE DEF T
  <2> QED BY <1>1, <2>1, LeastNumber
<1>3. k \in 0..m /\ k \in 0..n /\ f[k] # g[k]
  OBVIOUS
<1>4. f[k] = IF k = 0 THEN <<>> ELSE IF s[k] \in keep THEN Append(f[k - 1], s[k]) ELSE f[k - 1]
  BY <1>3 DEF IsSifting
<1>5. g[k] = IF k = 0 THEN <<>> ELSE IF t[k] \in keep THEN Append(g[k - 1], t[k]) ELSE g[k - 1]
  BY <1>3 DEF IsSifting
<1>6. k # 0
  BY <1>3, <1>4, <1>5
<1>7. f[k - 1] # g[k - 1]
  BY <1>3, <1>4, <1>5, <1>6
<1>8. k - 1 \in T
  BY <1>3, <1>6, <1>7
<1> HIDE DEF T
<1> QED BY <1>2, <1>3, <1>8

(* The sifting of a sequence, as a function of it.                         *)
Sifting(s, keep) == CHOOSE f : IsSifting(f, s, keep, Len(s))

LEMMA SiftIsSifting ==
  ASSUME NEW s, NEW keep, Len(s) \in Nat
  PROVE  /\ IsSifting(Sifting(s, keep), s, keep, Len(s))
         /\ Sift(s, keep) = Sifting(s, keep)[Len(s)]
<1>1. IsSifting(Sifting(s, keep), s, keep, Len(s))
  BY SiftingExists DEF Sifting
<1>2. Sift(s, keep) = Sifting(s, keep)[Len(s)]
  BY Zenon DEF Sift, Sifting, IsSifting
<1> QED BY <1>1, <1>2

LEMMA SiftEmpty ==
  ASSUME NEW keep
  PROVE  Sift(<<>>, keep) = <<>>
<1>1. Len(<<>>) = 0
  OBVIOUS
<1>2. Sifting(<<>>, keep)[0] = <<>>
  BY <1>1, SiftIsSifting DEF IsSifting
<1> QED BY <1>1, <1>2, SiftIsSifting

LEMMA SiftAppend ==
  ASSUME NEW S, NEW s \in Seq(S), NEW e \in S, NEW keep
  PROVE  Sift(Append(s, e), keep) = IF e \in keep THEN Append(Sift(s, keep), e) ELSE Sift(s, keep)
<1> DEFINE t == Append(s, e)
           f == Sifting(s, keep)
           g == Sifting(t, keep)
           n == Len(s)
<1>1. n \in Nat /\ Len(t) = n + 1 /\ t[n + 1] = e /\ \A i \in 1..n : s[i] = t[i]
  BY AppendProperties
<1>2. IsSifting(f, s, keep, n) /\ Sift(s, keep) = f[n]
  BY <1>1, SiftIsSifting
<1>3. IsSifting(g, t, keep, n + 1) /\ Sift(t, keep) = g[n + 1]
  <2>1. Len(t) \in Nat /\ Len(t) = n + 1
    BY <1>1
  <2> HIDE DEF t
  <2> QED BY <2>1, SiftIsSifting
<1> HIDE DEF t, f, g, n
<1>4. f[n] = g[n]
  BY <1>1, <1>2, <1>3, SiftingsAgree
<1>5. g[n + 1] = IF t[n + 1] \in keep THEN Append(g[n], t[n + 1]) ELSE g[n]
  <2>1. n + 1 \in Nat /\ n + 1 \in 0..(n + 1) /\ n + 1 # 0 /\ (n + 1) - 1 = n
    BY <1>1
  <2> QED BY <1>3, <2>1 DEF IsSifting
<1> QED BY <1>1, <1>2, <1>3, <1>4, <1>5 DEF t

(* A sequence that is not empty is one shorter with an element appended.   *)
LEMMA AppendLast ==
  ASSUME NEW S, NEW s \in Seq(S), s # <<>>
  PROVE  \E u \in Seq(S), e \in S : s = Append(u, e) /\ Len(u) = Len(s) - 1
<1>1. PICK u \in Seq(S), e \in S : s = Append(u, e)
  BY SequenceEmptyOrAppend
<1>2. Len(s) = Len(u) + 1 /\ Len(u) \in Nat
  BY <1>1, AppendProperties
<1> QED BY <1>1, <1>2

LEMMA ConcatAppend ==
  ASSUME NEW S, NEW s \in Seq(S), NEW t \in Seq(S), NEW e \in S
  PROVE  s \o Append(t, e) = Append(s \o t, e)
<1>1. <<e>> \in Seq(S) /\ s \o t \in Seq(S)
  OBVIOUS
<1>2. Append(t, e) = t \o <<e>> /\ Append(s \o t, e) = (s \o t) \o <<e>>
  BY <1>1, AppendIsConcat
<1> QED BY <1>1, <1>2, ConcatAssociative

(* Induction on sequences: of those for which a statement fails, T, one is *)
(* the first, and it is not empty.                                         *)
LEMMA FirstFailure ==
  ASSUME NEW S, NEW T, T \subseteq Seq(S), T # {}, <<>> \notin T
  PROVE  \E u \in Seq(S), e \in S : Append(u, e) \in T /\ u \notin T
<1> DEFINE N == {Len(s) : s \in T}
<1>1. N \subseteq Nat /\ N # {}
  <2>1. \A s \in T : Len(s) \in Nat
    OBVIOUS
  <2> QED BY <2>1
<1>2. PICK n \in N : \A k \in N : n <= k
  <2> HIDE DEF N
  <2> QED BY <1>1, LeastNumber
<1>3. PICK s \in T : Len(s) = n
  OBVIOUS
<1>4. s \in Seq(S) /\ s # <<>>
  OBVIOUS
<1>5. PICK u \in Seq(S), e \in S : s = Append(u, e) /\ Len(u) = Len(s) - 1
  BY <1>4, AppendLast
<1>6. u \notin T
  <2>1. Len(u) \notin N
    <3>1. n \in Nat
      BY <1>1
    <3> HIDE DEF N
    <3> QED BY <1>2, <1>3, <1>5, <3>1
  <2> QED BY <2>1
<1> QED BY <1>3, <1>5, <1>6

(* Sift keeps elements of keep.                                            *)
LEMMA SiftType ==
  ASSUME NEW S, NEW s \in Seq(S), NEW keep
  PROVE  Sift(s, keep) \in Seq(S \intersect keep) /\ Sift(s, keep) \in Seq(S)
<1> DEFINE T == {u \in Seq(S) : Sift(u, keep) \notin Seq(S \intersect keep)}
<1>1. T = {}
  <2>1. SUFFICES ASSUME T # {} PROVE FALSE
    OBVIOUS
  <2>2. <<>> \notin T /\ T \subseteq Seq(S)
    <3>1. Sift(<<>>, keep) = <<>>
      BY SiftEmpty
    <3>2. <<>> \in Seq(S \intersect keep)
      OBVIOUS
    <3> QED BY <3>1, <3>2
  <2>3. PICK u \in Seq(S), e \in S : Append(u, e) \in T /\ u \notin T
    <3> HIDE DEF T
    <3> QED BY <2>1, <2>2, FirstFailure
  <2>4. Sift(u, keep) \in Seq(S \intersect keep) /\ Sift(Append(u, e), keep) \notin Seq(S \intersect keep)
    BY <2>3
  <2> HIDE DEF T
  <2>5. Sift(Append(u, e), keep) = IF e \in keep THEN Append(Sift(u, keep), e) ELSE Sift(u, keep)
    BY SiftAppend
  <2> QED BY <2>4, <2>5
<1>2. Sift(s, keep) \in Seq(S \intersect keep)
  BY <1>1
<1> QED BY <1>2, SeqMonotonic

LEMMA SiftConcat ==
  ASSUME NEW S, NEW s \in Seq(S), NEW t \in Seq(S), NEW keep
  PROVE  Sift(s \o t, keep) = Sift(s, keep) \o Sift(t, keep)
<1> DEFINE T == {u \in Seq(S) : Sift(s \o u, keep) # Sift(s, keep) \o Sift(u, keep)}
<1>1. SUFFICES ASSUME T # {} PROVE FALSE
  OBVIOUS
<1>2. T \subseteq Seq(S) /\ <<>> \notin T
  <2>1. s \o <<>> = s /\ Sift(s, keep) \o <<>> = Sift(s, keep)
    BY SiftType, ConcatEmptySeq
  <2> QED BY <2>1, SiftEmpty
<1>3. PICK u \in Seq(S), e \in S : Append(u, e) \in T /\ u \notin T
  <2> HIDE DEF T
  <2> QED BY <1>1, <1>2, FirstFailure
<1>4. Sift(s \o u, keep) = Sift(s, keep) \o Sift(u, keep)
  BY <1>3
<1>5. Sift(s \o Append(u, e), keep) # Sift(s, keep) \o Sift(Append(u, e), keep)
  BY <1>3
<1> HIDE DEF T
<1>6. Sift(s, keep) \in Seq(S) /\ Sift(u, keep) \in Seq(S)
  BY SiftType
<1>7. s \o Append(u, e) = Append(s \o u, e) /\ s \o u \in Seq(S)
  BY ConcatAppend, ConcatProperties
<1>8. Sift(Append(s \o u, e), keep)
        = IF e \in keep THEN Append(Sift(s \o u, keep), e) ELSE Sift(s \o u, keep)
  BY <1>7, SiftAppend
<1>9. Sift(Append(u, e), keep) = IF e \in keep THEN Append(Sift(u, keep), e) ELSE Sift(u, keep)
  BY SiftAppend
<1>10. Sift(s, keep) \o Append(Sift(u, keep), e) = Append(Sift(s, keep) \o Sift(u, keep), e)
  BY <1>6, ConcatAppend
<1> QED BY <1>4, <1>5, <1>7, <1>8, <1>9, <1>10

LEMMA SiftOne ==
  ASSUME NEW e, NEW keep
  PROVE  Sift(<<e>>, keep) = IF e \in keep THEN <<e>> ELSE <<>>
<1>1. <<>> \in Seq({e}) /\ e \in {e} /\ Append(<<>>, e) = <<e>>
  OBVIOUS
<1>2. Sift(Append(<<>>, e), keep) = IF e \in keep THEN Append(Sift(<<>>, keep), e) ELSE Sift(<<>>, keep)
  BY <1>1, SiftAppend
<1>3. Sift(<<>>, keep) = <<>>
  BY SiftEmpty
<1> QED BY <1>1, <1>2, <1>3

(* Sifting from the front.                                                 *)
LEMMA SiftHead ==
  ASSUME NEW S, NEW s \in Seq(S), s # <<>>, NEW keep
  PROVE  Sift(s, keep) = IF Head(s) \in keep THEN <<Head(s)>> \o Sift(Tail(s), keep)
                         ELSE Sift(Tail(s), keep)
<1>1. Head(s) \in S /\ Tail(s) \in Seq(S) /\ <<Head(s)>> \in Seq(S) /\ <<>> \in Seq(S)
  BY HeadTailProperties
<1>2. s = <<Head(s)>> \o Tail(s)
  BY <1>1
<1>3. Sift(s, keep) = Sift(<<Head(s)>>, keep) \o Sift(Tail(s), keep)
  <2>1. Sift(<<Head(s)>> \o Tail(s), keep) = Sift(<<Head(s)>>, keep) \o Sift(Tail(s), keep)
    <3> DEFINE u == <<Head(s)>>
               v == Tail(s)
    <3>1. u \in Seq(S) /\ v \in Seq(S)
      BY <1>1
    <3> HIDE DEF u, v
    <3>2. Sift(u \o v, keep) = Sift(u, keep) \o Sift(v, keep)
      BY <3>1, SiftConcat
    <3> QED BY <3>2 DEF u, v
  <2> QED BY <1>2, <2>1, Zenon
<1>4. Sift(<<Head(s)>>, keep) = IF Head(s) \in keep THEN <<Head(s)>> ELSE <<>>
  BY SiftOne
<1>5. <<>> \o Sift(Tail(s), keep) = Sift(Tail(s), keep)
  BY <1>1, SiftType, ConcatEmptySeq
<1> QED BY <1>3, <1>4, <1>5
(* Sifting keeps everything, or nothing, or at most what was there.        *)
LEMMA SiftAll ==
  ASSUME NEW S, NEW s \in Seq(S), NEW keep, \A i \in DOMAIN s : s[i] \in keep
  PROVE  Sift(s, keep) = s
<1> DEFINE R == S \intersect keep
           T == {u \in Seq(R) : Sift(u, keep) # u}
<1>1. s \in Seq(R)
  <2>1. \A i \in 1..Len(s) : s[i] \in R
    OBVIOUS
  <2>2. s \in [1..Len(s) -> R] /\ Len(s) \in Nat
    BY <2>1
  <2> HIDE DEF R
  <2> QED BY <2>2
<1>2. SUFFICES ASSUME T # {} PROVE FALSE
  BY <1>1
<1>3. T \subseteq Seq(R) /\ <<>> \notin T
  BY SiftEmpty
<1>4. PICK u \in Seq(R), e \in R : Append(u, e) \in T /\ u \notin T
  <2> HIDE DEF T, R
  <2> QED BY <1>2, <1>3, FirstFailure
<1>5. Sift(u, keep) = u /\ Sift(Append(u, e), keep) # Append(u, e) /\ e \in keep
  BY <1>4
<1> HIDE DEF T, R
<1>6. Sift(Append(u, e), keep) = IF e \in keep THEN Append(Sift(u, keep), e) ELSE Sift(u, keep)
  BY SiftAppend
<1> QED BY <1>5, <1>6

LEMMA SiftNone ==
  ASSUME NEW S, NEW s \in Seq(S), NEW keep, \A i \in DOMAIN s : s[i] \notin keep
  PROVE  Sift(s, keep) = <<>>
<1> DEFINE R == S \ keep
<1>1. s \in Seq(R)
  <2>1. \A i \in 1..Len(s) : s[i] \in R
    OBVIOUS
  <2>2. s \in [1..Len(s) -> R] /\ Len(s) \in Nat
    BY <2>1
  <2> HIDE DEF R
  <2> QED BY <2>2
<1>2. Sift(s, keep) \in Seq(R \intersect keep)
  <2> HIDE DEF R
  <2> QED BY <1>1, SiftType
<1>3. R \intersect keep = {}
  OBVIOUS
<1>4. Sift(s, keep) \in Seq({})
  BY <1>2, <1>3
<1> QED BY <1>4

LEMMA SiftLength ==
  ASSUME NEW S, NEW s \in Seq(S), NEW keep
  PROVE  Len(Sift(s, keep)) <= Len(s)
<1> DEFINE T == {u \in Seq(S) : ~(Len(Sift(u, keep)) <= Len(u))}
<1>1. SUFFICES ASSUME T # {} PROVE FALSE
  OBVIOUS
<1>2. T \subseteq Seq(S) /\ <<>> \notin T
  BY SiftEmpty
<1>3. PICK u \in Seq(S), e \in S : Append(u, e) \in T /\ u \notin T
  <2> HIDE DEF T
  <2> QED BY <1>1, <1>2, FirstFailure
<1>4. Len(Sift(u, keep)) <= Len(u) /\ ~(Len(Sift(Append(u, e), keep)) <= Len(Append(u, e)))
  BY <1>3
<1> HIDE DEF T
<1>5. Sift(u, keep) \in Seq(S)
  BY SiftType
<1>6. Sift(Append(u, e), keep) = IF e \in keep THEN Append(Sift(u, keep), e) ELSE Sift(u, keep)
  BY SiftAppend
<1>7. Len(Append(u, e)) = Len(u) + 1 /\ Len(Append(Sift(u, keep), e)) = Len(Sift(u, keep)) + 1
      /\ Len(u) \in Nat /\ Len(Sift(u, keep)) \in Nat
  BY <1>5, AppendProperties
<1> QED BY <1>4, <1>6, <1>7

(* Of two conditions that agree on the elements, both keep the same.       *)
LEMMA SiftSame ==
  ASSUME NEW S, NEW s \in Seq(S), NEW keep, NEW other,
         \A i \in DOMAIN s : s[i] \in keep <=> s[i] \in other
  PROVE  Sift(s, keep) = Sift(s, other)
<1> DEFINE R == {e \in S : e \in keep <=> e \in other}
           T == {u \in Seq(R) : Sift(u, keep) # Sift(u, other)}
<1>1. s \in Seq(R)
  <2>1. \A i \in 1..Len(s) : s[i] \in R
    OBVIOUS
  <2>2. s \in [1..Len(s) -> R] /\ Len(s) \in Nat
    BY <2>1
  <2> HIDE DEF R
  <2> QED BY <2>2
<1>2. SUFFICES ASSUME T # {} PROVE FALSE
  BY <1>1
<1>3. T \subseteq Seq(R) /\ <<>> \notin T
  BY SiftEmpty
<1>4. PICK u \in Seq(R), e \in R : Append(u, e) \in T /\ u \notin T
  <2> HIDE DEF T, R
  <2> QED BY <1>2, <1>3, FirstFailure
<1>5. /\ Sift(u, keep) = Sift(u, other) /\ Sift(Append(u, e), keep) # Sift(Append(u, e), other)
      /\ e \in keep <=> e \in other
  BY <1>4
<1> HIDE DEF T, R
<1>6. /\ Sift(Append(u, e), keep) = IF e \in keep THEN Append(Sift(u, keep), e) ELSE Sift(u, keep)
      /\ Sift(Append(u, e), other) = IF e \in other THEN Append(Sift(u, other), e) ELSE Sift(u, other)
  BY SiftAppend
<1> QED BY <1>5, <1>6

(* Sift keeps the elements that are in keep, and no other.                 *)
HasElement(s, e) == \E i \in DOMAIN s : s[i] = e

LEMMA HasElementAppend ==
  ASSUME NEW S, NEW s \in Seq(S), NEW d
  PROVE  \A e : HasElement(Append(s, d), e) <=> HasElement(s, e) \/ e = d
<1>1. /\ DOMAIN s = 1..Len(s) /\ DOMAIN Append(s, d) = 1..(Len(s) + 1) /\ Len(s) \in Nat
      /\ Append(s, d)[Len(s) + 1] = d /\ \A i \in 1..Len(s) : Append(s, d)[i] = s[i]
  OBVIOUS
<1>2. \A i \in 1..(Len(s) + 1) : i \in 1..Len(s) \/ i = Len(s) + 1
  BY <1>1
<1>3. Len(s) + 1 \in 1..(Len(s) + 1) /\ \A i \in 1..Len(s) : i \in 1..(Len(s) + 1)
  BY <1>1
<1> QED BY <1>1, <1>2, <1>3 DEF HasElement

LEMMA SiftElements ==
  ASSUME NEW S, NEW s \in Seq(S), NEW keep
  PROVE  \A e : HasElement(Sift(s, keep), e) <=> e \in keep /\ HasElement(s, e)
<1> DEFINE T == {u \in Seq(S) : ~ \A e : HasElement(Sift(u, keep), e) <=> e \in keep /\ HasElement(u, e)}
<1>1. SUFFICES ASSUME T # {} PROVE FALSE
  OBVIOUS
<1>2. T \subseteq Seq(S) /\ <<>> \notin T
  <2>1. \A e : ~HasElement(<<>>, e)
    BY DEF HasElement
  <2> QED BY <2>1, SiftEmpty
<1>3. PICK u \in Seq(S), d \in S : Append(u, d) \in T /\ u \notin T
  <2> HIDE DEF T
  <2> QED BY <1>1, <1>2, FirstFailure
<1>4. /\ \A e : HasElement(Sift(u, keep), e) <=> e \in keep /\ HasElement(u, e)
      /\ ~ \A e : HasElement(Sift(Append(u, d), keep), e) <=> e \in keep /\ HasElement(Append(u, d), e)
  BY <1>3
<1> HIDE DEF T
<1>5. Sift(Append(u, d), keep) = IF d \in keep THEN Append(Sift(u, keep), d) ELSE Sift(u, keep)
  BY SiftAppend
<1>6. Sift(u, keep) \in Seq(S)
  BY SiftType
<1>7. /\ \A e : HasElement(Append(u, d), e) <=> HasElement(u, e) \/ e = d
      /\ \A e : HasElement(Append(Sift(u, keep), d), e) <=> HasElement(Sift(u, keep), e) \/ e = d
  BY <1>6, HasElementAppend
<1> QED BY <1>4, <1>5, <1>7

(* Sift keeps an increasing sequence of numbers increasing.                *)
Increasing(s) == \A i, j \in DOMAIN s : i < j => s[i] < s[j]

LEMMA SiftIncreasing ==
  ASSUME NEW s \in Seq(Nat), Increasing(s), NEW keep
  PROVE  Increasing(Sift(s, keep))
<1> DEFINE T == {u \in Seq(Nat) : Increasing(u) /\ ~Increasing(Sift(u, keep))}
<1>1. SUFFICES ASSUME T # {} PROVE FALSE
  OBVIOUS
<1>2. T \subseteq Seq(Nat) /\ <<>> \notin T
  <2>1. Increasing(<<>>)
    BY DEF Increasing
  <2> QED BY <2>1, SiftEmpty
<1>3. PICK u \in Seq(Nat), d \in Nat : Append(u, d) \in T /\ u \notin T
  <2> HIDE DEF T
  <2> QED BY <1>1, <1>2, FirstFailure
<1>4. /\ Increasing(Append(u, d)) /\ ~Increasing(Sift(Append(u, d), keep))
      /\ Increasing(u) => Increasing(Sift(u, keep))
  BY <1>3
<1> HIDE DEF T
<1>5. /\ DOMAIN u = 1..Len(u) /\ DOMAIN Append(u, d) = 1..(Len(u) + 1) /\ Len(u) \in Nat
      /\ Append(u, d)[Len(u) + 1] = d /\ \A i \in 1..Len(u) : Append(u, d)[i] = u[i]
      /\ \A i \in 1..Len(u) : i \in 1..(Len(u) + 1) /\ i < Len(u) + 1
  OBVIOUS
<1>6. Increasing(u) /\ \A i \in DOMAIN u : u[i] < d
  <2>1. \A i, j \in 1..(Len(u) + 1) : i < j => Append(u, d)[i] < Append(u, d)[j]
    BY <1>4, <1>5 DEF Increasing
  <2>2. ASSUME NEW i \in 1..Len(u), NEW j \in 1..Len(u), i < j PROVE u[i] < u[j]
    <3>1. i \in 1..(Len(u) + 1) /\ j \in 1..(Len(u) + 1)
      BY <1>5
    <3>2. Append(u, d)[i] < Append(u, d)[j]
      BY <2>1, <2>2, <3>1
    <3> QED BY <1>5, <3>2
  <2>3. ASSUME NEW i \in 1..Len(u) PROVE u[i] < d
    <3>1. i \in 1..(Len(u) + 1) /\ i < Len(u) + 1 /\ Len(u) + 1 \in 1..(Len(u) + 1)
      BY <1>5
    <3>2. Append(u, d)[i] < Append(u, d)[Len(u) + 1]
      BY <2>1, <3>1
    <3> QED BY <1>5, <3>2
  <2> QED BY <1>5, <2>2, <2>3 DEF Increasing
<1>7. Sift(Append(u, d), keep) = IF d \in keep THEN Append(Sift(u, keep), d) ELSE Sift(u, keep)
  BY SiftAppend
<1>8. PICK v \in Seq(Nat) : v = Sift(u, keep)
  BY SiftType
<1>9. \A i \in DOMAIN v : v[i] < d
  <2>1. \A e : HasElement(v, e) => HasElement(u, e)
    BY <1>8, SiftElements
  <2>2. \A e : HasElement(u, e) => e < d
    BY <1>6 DEF HasElement
  <2> QED BY <2>1, <2>2 DEF HasElement
<1>10. Increasing(v)
  BY <1>4, <1>6, <1>8
<1>11. Increasing(Append(v, d))
  <2> SUFFICES ASSUME NEW i \in DOMAIN Append(v, d), NEW j \in DOMAIN Append(v, d), i < j
               PROVE  Append(v, d)[i] < Append(v, d)[j]
    BY DEF Increasing
  <2>1. /\ DOMAIN v = 1..Len(v) /\ DOMAIN Append(v, d) = 1..(Len(v) + 1) /\ Len(v) \in Nat
        /\ Append(v, d)[Len(v) + 1] = d /\ \A k \in 1..Len(v) : Append(v, d)[k] = v[k]
    OBVIOUS
  <2>2. i \in 1..Len(v) /\ (j \in 1..Len(v) \/ j = Len(v) + 1)
    BY <2>1
  <2> QED BY <1>9, <1>10, <2>1, <2>2 DEF Increasing
<1> QED BY <1>4, <1>7, <1>8, <1>10, <1>11
=============================================================================
