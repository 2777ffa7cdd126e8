------------------------------ MODULE Collections ------------------------------
(* Sums over finite sets, selections from sequences and sets put in order. The *)
(* summand, the selection and the order are values, a function, a set and a   *)
(* set of pairs, so that the operators are of the first order and their laws  *)
(* can be stated for every value (CollectionsProofs).                         *)
EXTENDS Sequences, FiniteSetsExt

\* The sum of the f[x] for the x in S: what a program holds for its bounties,
\* what a worker has earned by them.
Total(f, S) == MapThenSumSet(LAMBDA x : f[x], S)

\* The elements of s that belong to S, in their order.
Kept(s, S) ==
  LET upTo[i \in 0 .. Len(s)] ==
        IF i = 0 THEN <<>>
        ELSE IF s[i] \in S THEN Append(upTo[i - 1], s[i]) ELSE upTo[i - 1]
  IN upTo[Len(s)]

\* The elements of S in the order R, a set of pairs.
Sorted(S, R) ==
  CHOOSE r \in [1 .. Cardinality(S) -> S] :
    \A i, j \in 1 .. Cardinality(S) : i < j => <<r[i], r[j]>> \in R

================================================================================
