--------------------------------- MODULE Lists ---------------------------------
(***************************************************************************)
(* The lines of a file that a program keeps, in the form of a definition   *)
(* that needs no recursion.                                                *)
(***************************************************************************)
EXTENDS Integers, Sequences, FiniteSets

\* How many of the places K are not behind k.
Rank(K, k) == Cardinality({h \in K : h <= k})

\* The lines of s at the places K, in their order.
Keep(s, K) == [i \in 1 .. Cardinality(K) |-> s[CHOOSE k \in K : Rank(K, k) = i]]
==============================================================================
