----------------------------- MODULE MC_Accounts -----------------------------
(* Instances of Accounts for TLC.                                          *)
EXTENDS Accounts, TLC

CONSTANTS r1, r2, r3, r4, su, ann, bob, good, bad, new

Symm == Permutations(Req)

Register(u) == [op |-> "register", name |-> u, pwd |-> good]
Change(u, pwd) == [op |-> "password", user |-> u, old |-> pwd, new |-> new]
Update(u, mail) == [op |-> "profile", user |-> u, mail |-> mail]
Delete(u) == [op |-> "delete", user |-> su, target |-> u]
Appoint(op, i) == [op |-> op, user |-> su, target |-> i]

Requests == {Register(ann), Register(bob), Delete(ann),
             Appoint("add", 10002), Appoint("remove", 10002),
             Change(su, good), Change(su, bad), Change(ann, good),
             Update(su, FALSE), Update(ann, TRUE)}
Changes == {Register(ann), Change(ann, good)}
==============================================================================
