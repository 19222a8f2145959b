----------------------------- MODULE MC_Contests -----------------------------
(* Instances of Contests for TLC.                                          *)
EXTENDS Contests, TLC

CONSTANTS r1, r2, r3, r4, su, ann, bob

Symm == Permutations(Req)

UserIds == [u \in User |-> CASE u = su -> 0 [] u = ann -> 10002 [] u = bob -> 10003]

NewIds  == [u \in User |-> CASE u = su -> 0 [] u = ann -> 10004 [] u = bob -> 10005]

\* The clock begins at 1: the contest starts later and ends before MaxClock.
Form == [op |-> "create", user |-> su, start |-> 2, end |-> 3, duration |-> 1,
         described |-> TRUE]
Join(u)   == [op |-> "join", user |-> u, contest |-> 1]
Submit(u) == [op |-> "submit", user |-> u, contest |-> 1, problem |-> 1]

Taking    == {Form, Join(ann), Join(bob), Submit(ann), Submit(bob)}
Lone      == {Form, Join(ann), Submit(ann)}
Timed     == {[Form EXCEPT !.start = 1, !.end = 4], Join(ann), Submit(ann)}
=============================================================================
