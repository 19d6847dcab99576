------------------------------- MODULE Lists -------------------------------
(***************************************************************************)
(* Lists by their places: what SelectSeq and folds do, in definitions that *)
(* can be reasoned about.                                                  *)
(***************************************************************************)
EXTENDS Naturals, Sequences, FiniteSets

\* The elements of a list at some places, in their order.
Those(list, places) ==
    LET rank == [k \in places |-> Cardinality({j \in places : j <= k})]
    IN [n \in 1..Cardinality(places) |-> list[CHOOSE k \in places : rank[k] = n]]

\* The sum of a list of numbers.
SumOf(list) ==
    LET sum[n \in 0..Len(list)] == IF n = 0 THEN 0 ELSE sum[n - 1] + list[n]
    IN sum[Len(list)]
=============================================================================
