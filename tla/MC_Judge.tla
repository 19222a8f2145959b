------------------------------ MODULE MC_Judge ------------------------------
(* Instances of Judge for TLC.                                             *)
EXTENDS Judge, TLC

CONSTANTS r1, r2, ann, good, loose, wrong, broken, endless, hang

Symm == Permutations({r1, r2})

\* Problem 1 has the tests 1 and 2.  Problem 2 lacks test 2: the count of its
\* tests is 2, but the loop stops at the gap.  Problem 3 has no test at all.
TestsOf == [p \in Problem |-> CASE p = 1 -> {1, 2} [] p = 2 -> {1, 3} [] p = 3 -> {}]

Right == [text |-> "xy", gaps |-> "between"]
Loose == [text |-> "xy", gaps |-> "none"]
Wrong == [text |-> "z", gaps |-> "none"]

ExpectedOf == [p \in Problem |-> [n \in TestNo |-> Right]]

\* wrong fails from test 2 on, loose leaves out the white space of test 2.
PrintsOf == [c \in Code |-> [p \in Problem |-> [n \in TestNo |->
    CASE c = wrong /\ n > 1 -> Wrong
      [] c = loose /\ n > 1 -> Loose
      [] OTHER -> Right]]]

HangsOn == {cpn \in Code \X Problem \X TestNo : cpn[1] = hang /\ cpn[3] = 1}
BrokenOnes == Code \cap {broken}
EndlessOnes == Code \cap {endless}
=============================================================================
