-------------------------- MODULE MC_ContestJudge ---------------------------
(* Instances of ContestJudge for TLC.                                      *)
EXTENDS ContestJudge, TLC

CONSTANTS r1, r2, ann, bob, loose, broken, hang, stuck

Symm == Permutations({r1, r2})

\* Problem 1 has the tests 1, 2 and 4: only those before the gap count.
\* Problem 2 has no test at all.
TestsOf == [p \in Problem |-> IF p = 1 THEN {1, 2, 4} ELSE {}]

Right == [text |-> "xy", gaps |-> "between"]
Loose == [text |-> "xy", gaps |-> "none"]
Wrong == [text |-> "z", gaps |-> "none"]

ExpectedOf == [p \in Problem |-> [n \in TestNo |-> Right]]

\* From test 2 on hang prints something wrong, and never exits on test 2; loose leaves
\* out the white space.  The C++ compiler never finishes with stuck, and Python runs it
\* but cannot be stopped by SIGTERM.
PrintsOf == [c \in Code |-> [p \in Problem |-> [n \in TestNo |->
    CASE c = hang /\ n > 1 -> Wrong
      [] c = loose /\ n > 1 -> Loose
      [] OTHER -> Right]]]

HangsOn == {cpn \in Code \X Problem \X TestNo :
                <<cpn[1], cpn[3]>> \in {<<hang, 2>>, <<stuck, 1>>}}
StubbornOnes == {cpn \in HangsOn : cpn[1] = stuck}
EndlessOnes == Code \cap {stuck}
Everybody == Contest \X User
UserIds == [u \in User |-> IF u = ann THEN 10002 ELSE 10003]
BrokenOnes == Code \cap {broken}
=============================================================================
