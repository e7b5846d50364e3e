-------------------------------- MODULE Lists --------------------------------
(***************************************************************************)
(* What the code does with lists: a set of numbers put in order, which is  *)
(* also how a list is filtered (by its indices), Python's sorted, sum(),   *)
(* and a loop that carries a value along.                                  *)
(***************************************************************************)
EXTENDS Integers, FiniteSets, FiniteSetsExt, SequencesExt

\* The ids, the lowest first.
InOrder(ids) ==
  [k \in 1 .. Cardinality(ids) |-> CHOOSE i \in ids : Cardinality({j \in ids : j < i}) = k - 1]

\* sorted(seq), for numbers: equal values stay in the order they have.
Sorted[seq \in Seq(Int)] ==
  LET Before(i) == {j \in DOMAIN seq : seq[j] < seq[i] \/ (seq[j] = seq[i] /\ j < i)}
  IN [k \in DOMAIN seq |-> seq[CHOOSE i \in DOMAIN seq : Cardinality(Before(i)) = k - 1]]

\* sum(f[i] for i in ids)
Total(f, ids) == MapThenSumSet(LAMBDA i : f[i], ids)

\* "for x in seq: value = step(value, x)"
Looped(step, value, seq) == FoldLeft(LAMBDA v, x : step[v][x], value, seq)
=============================================================================
