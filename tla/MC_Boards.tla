------------------------------- MODULE MC_Boards -------------------------------
(* An instance of Boards for TLC.                                          *)
EXTENDS Boards, TLC

CONSTANTS r1, r2, r3, r4

Symm == Permutations(Req)

Create(u, title) == [op |-> "create", user |-> u, title |-> title]
Delete(u, i) == [op |-> "delete", user |-> u, number |-> i]
View(i) == [op |-> "view", number |-> i]
Send(u, v, content) == [op |-> "send", user |-> u, to |-> v, content |-> content]
Announce(u) == [op |-> "announce", user |-> u]
Appointment(k, v, c) == [op |-> "appoint", key |-> k, value |-> v, choice |-> c]
Submit(u, p, pass) == [op |-> "submit", user |-> u, problem |-> p, pass |-> pass, total |-> 2]

\* One user is named like a problem.
AccountList == <<"ann", "bob", "1001">>

\* Names and passwords, with and without characters that are encoded or mean
\* something to grep.
Typed == {<<<<"a">>, <<"a">>>>, <<<<"a">>, <<"@", " ">>>>, <<<<"a", "+">>, <<"a">>>>,
          <<<<"a", " ">>, <<"a">>>>, <<<<"a", ".">>, <<"a">>>>}
Stars == <<<<"a">>, <<".", "*">>>>
Removed == {<<"a">>, <<"a", " ">>, <<"a", ".">>, <<".", "*">>}

\* What the title of the second post names: the first or its own text, or another file.
Titles == {Outside, 0, 1, 2}
Post1 == Create("ann", None)
Post2 == {Create("bob", title) : title \in Titles}

\* The boards share no file: the requests of a behaviour are all for one of them.
Boards == {Post2 \cup {Post1, Delete("ann", 1), Delete("bob", 1), View(1)},
           {Send("ann", "bob", "plain"), Send("ann", "ann", "bar"), Send("bob", "bob", "lines"),
            Send("ann", "bob", "empty"), Send("bob", "nobody", "plain")},
           {Announce("ann"), Announce("bob")},
           {Submit("ann", "1001", 2), Submit("bob", "1002", 1), Submit("1001", "1002", 2),
            [op |-> "rank"], [op |-> "profile", of |-> "ann"]},
           UNION {{[op |-> "register", name |-> u[1], pwd |-> u[2]] : u \in Typed},
                  {[op |-> "login", name |-> u[1], pwd |-> u[2]] : u \in Typed \cup {Stars}},
                  {[op |-> "unregister", name |-> u] : u \in Removed},
                  {Appointment(Username, <<"a">>, "add")},
                  {Appointment(Userid, AccountNumber(r), c) : r \in Req, c \in {"add", "remove"}}}}

\* Of the forms: one or two registrations, one login and one removal or appointment,
\* or two of these with one registration.
Of(w, ops) == Cardinality({r \in Req : w[r].op \in ops})
Few(w) ==
    LET registered == Of(w, {"register"})
    IN /\ Of(w, FormOps) > 0 => registered \in {1, 2}
       /\ Of(w, {"login"}) <= 1 /\ Of(w, {"unregister"}) <= 1
       /\ \A r \in Req : w[r].op = "appoint" /\ w[r].choice = "remove" =>
              [w[r] EXCEPT !.choice = "add"] \in Range(w)
       /\ Of(w, {"unregister", "appoint"}) <= IF registered = 1 THEN 2 ELSE 1

\* The same page or removal twice shows nothing new; there are
\* three posts only if they are alike and the first of them is deleted,
\* and of two posts that differ only one is deleted.
Workloads == {w \in UNION {[Req -> b] : b \in Boards} :
    /\ \A q, r \in Req : q # r /\ w[q] = w[r] =>
           \/ w[r].op \in {"announce", "submit", "register"}
           \/ w[r] \in {Post1, Send("ann", "bob", "plain")}
    /\ \/ Of(w, {"create"}) <= 2
       \/ Delete("ann", 1) \in Range(w) /\ Range(w) \cap Post2 = {}
    /\ Range(w) \cap Post2 = {} \/ ~{Post1, Delete("ann", 1), Delete("bob", 1)} \subseteq Range(w)
    /\ Cardinality(Range(w) \cap Post2) <= 1
    /\ Few(w)}
==============================================================================
