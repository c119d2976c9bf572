---------------------------- MODULE Subsequence ----------------------------
(***************************************************************************)
(* What a list comprehension with a condition keeps of a sequence, written *)
(* as a recursive function, which can be reasoned about.                   *)
(***************************************************************************)
EXTENDS Naturals, Sequences

(* The elements of s that are in keep, in their order.                     *)
Sift(s, keep) ==
  LET sifted[i \in 0..Len(s)] ==
        IF i = 0 THEN <<>>
        ELSE IF s[i] \in keep THEN Append(sifted[i - 1], s[i])
        ELSE sifted[i - 1]
  IN  sifted[Len(s)]
=============================================================================
