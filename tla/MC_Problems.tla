----------------------------- MODULE MC_Problems -----------------------------
(* An instance of Problems for TLC.                                        *)
EXTENDS Problems, TLC

CONSTANTS r1, r2, r3, ann

Symm == Permutations(Req)

Post(cases) == [op |-> "upload", user |-> ann, cases |-> cases]
Delete(i) == [op |-> "delete", user |-> ann, number |-> i]
Submit(i, solves) == [op |-> "submit", user |-> ann, number |-> i, solves |-> solves]

\* An upload may have no test, or more tests than are written; a program passes
\* every test, or the first one of every problem.
Requests == {Post(0), Post(3), Delete(1002),
             Submit(1002, Author \X {1, 2}), Submit(1003, Author \X {1})}
==============================================================================
