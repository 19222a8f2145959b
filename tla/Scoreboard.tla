------------------------------ MODULE Scoreboard ------------------------------
(***************************************************************************)
(* What is counted in submissions.txt: the ranking (cgi-bin/rank.cgi) and  *)
(* the numbers of a profile (cgi-src/profile.c), while judge.c appends     *)
(* lines.  Both count a user's lines and the accepted ones among them in   *)
(* two passes, and the ranking does so for one user after the other.       *)
(***************************************************************************)
EXTENDS Requests

CONSTANTS
    Problem,    \* problem numbers; a user may be named like one
    PageSize    \* 20 in rank.cgi

ScoreUser == Range(Accounts)
Judging   == [op : {"submit"}, user : User, problem : Problem, pass : Nat, total : Nat]
Ranking   == [op : {"rank"}]
Profile   == [op : {"profile"}, of : ScoreUser]

Count == 0 .. Cardinality(Req)
Row   == [user : ScoreUser, sub : Count, ac : Count]

VARIABLES
    submissions,  \* submissions.txt
    rows,         \* what a page has counted
    first         \* history: the length of submissions.txt when a page was begun

scoreVars == <<submissions, rows, first>>

ScoreInit ==
    /\ submissions = <<>>
    /\ rows = [r \in Req |-> <<>>]
    /\ first = [r \in Req |-> 0]

\* What judge.c does in the end; the rest of it is the subject of Judge.
AppendScore(r) ==
    /\ Arrive(r, "submit")
    /\ submissions' = Append(submissions, query[r])
    /\ Go(r, "done")
    /\ UNCHANGED <<rows, first>>

\* Whom a page counts for.
Listed(r) == IF query[r].op = "rank" THEN Accounts ELSE <<query[r].of>>

\* A user's page, or the ranking, is asked for.
BeginPage(r) ==
    /\ Arrive(r, "rank") \/ Arrive(r, "profile")
    /\ first' = [first EXCEPT ![r] = Len(submissions)]
    /\ Go(r, "count")
    /\ UNCHANGED <<submissions, rows>>

\* grep -c "|user|" finds the name in any field, get_submit looks at the user's.
CountSubmissions(r) ==
    LET u == Listed(r)[Len(rows[r]) + 1]
        lines == {k \in DOMAIN submissions : LET l == submissions[k] IN
                     l.user = u \/ (query[r].op = "rank" /\ l.problem = u)}
    IN
    /\ At(r, "count")
    /\ rows' = [rows EXCEPT ![r] = Append(@, [user |-> u, sub |-> Cardinality(lines), ac |-> 0])]
    /\ Go(r, "accepted")
    /\ UNCHANGED <<submissions, first>>

\* Mutant: any test will do.
Passes(l) == l.pass > 0

Accepted(l) == l.pass = l.total

\* awk, get_ac
CountAccepted(r) ==
    LET k == Len(rows[r])
        lines == {j \in DOMAIN submissions :
                     submissions[j].user = rows[r][k].user /\ Accepted(submissions[j])}
    IN
    /\ At(r, "accepted")
    /\ rows' = [rows EXCEPT ![r][k].ac = Cardinality(lines)]
    /\ Go(r, IF k = Len(Listed(r)) THEN "done" ELSE "count")
    /\ UNCHANGED <<submissions, first>>

ScoreStep(r) == AppendScore(r) \/ BeginPage(r) \/ CountSubmissions(r) \/ CountAccepted(r)

-----------------------------------------------------------------------------
\* The pages of the ranking.

\* The orders sort -k1 -rn can leave the rows in; it breaks ties by the text.
Sortings(table) == {s \in SetToSeqs(Range(table)) :
    \A j, k \in DOMAIN s : j < k => s[j].ac >= s[k].ac}

TotalPages(table) == (Len(table) + PageSize - 1) \div PageSize

\* The loop over the sorted rows: who has no submission is left out, and does
\* not count, on the page itself; on the pages before, everybody counts.
Page(sorted, page) ==
    LET start == (page - 1) * PageSize + 1
        next(seen, row) ==
            IF seen.rank \in start .. page * PageSize
            THEN IF row.sub = 0 THEN seen
                 ELSE [rank |-> seen.rank + 1, shown |-> Append(seen.shown, row)]
            ELSE [seen EXCEPT !.rank = @ + 1]
    IN FoldLeft(next, [rank |-> 1, shown |-> <<>>], sorted).shown

-----------------------------------------------------------------------------
ScoreTypeOK ==
    /\ submissions \in Seq(Judging)
    /\ \A r \in Req : Range(rows[r]) \subseteq Row /\ Len(rows[r]) <= Len(Accounts)
    /\ first \in [Req -> Count]

\* The lines of a user among the first n, and the accepted ones.
Own(u, n) == {k \in 1 .. n : submissions[k].user = u}
OwnAccepted(u, n) == {k \in Own(u, n) : submissions[k].pass = submissions[k].total}

Made(op) == {r \in Those({op}) : pc[r] = "done"}

(***************************************************************************)
(* Every number of a ranking or a profile was right at some moment while   *)
(* the page was made: submissions before it all count, and none counts     *)
(* twice or for somebody else, except that the ranking takes the lines of  *)
(* a problem for those of a user named like it (rank.cgi:46-47,            *)
(* profile.c:20-57).  So the two pages agree if nothing is submitted.      *)
(***************************************************************************)
NumbersWereRight ==
    \A r \in Made("rank") \cup Made("profile") :
        \A k \in DOMAIN rows[r] :
            LET row == rows[r][k]
                now == Len(submissions)
            IN /\ row.ac \in Cardinality(OwnAccepted(row.user, first[r]))
                             .. Cardinality(OwnAccepted(row.user, now))
               /\ row.sub >= Cardinality(Own(row.user, first[r]))
               /\ query[r].op = "profile" \/ row.user \notin Problem
                     => row.sub <= Cardinality(Own(row.user, now))

(***************************************************************************)
(* Whoever had submitted something before the ranking was begun is on one  *)
(* of the pages it announces, however ties are broken, and on one only if  *)
(* everybody has submitted; no page has more than twenty rows              *)
(* (rank.cgi:16-18, 51-72).                                                *)
(***************************************************************************)
RankingComplete ==
    \A r \in Made("rank") : \A s \in Sortings(rows[r]) :
        LET pages(u) == {p \in 1 .. TotalPages(rows[r]) :
                           \E k \in DOMAIN Page(s, p) : Page(s, p)[k].user = u}
        IN /\ \A u \in ScoreUser : Own(u, first[r]) # {} => pages(u) # {}
           /\ (\A k \in DOMAIN s : s[k].sub > 0)
                 => \A u \in ScoreUser : Cardinality(pages(u)) = 1
           /\ \A p \in 1 .. TotalPages(rows[r]) : Len(Page(s, p)) <= PageSize

(***************************************************************************)
(* A ranking shows everybody it should, with numbers that were right       *)
(* (rank.cgi, profile.c).                                                  *)
(***************************************************************************)
RankingTrue == NumbersWereRight /\ RankingComplete

-----------------------------------------------------------------------------
\* An invariant from which RankingTrue follows, with what Boards knows of the processes.

\* The k-th row of a page is right, except that its accepted lines may not be counted yet.
RowRight(r, k) ==
    LET row == rows[r][k]
        now == Len(submissions)
    IN /\ row.user = Listed(r)[k]
       /\ row.sub >= Cardinality(Own(row.user, first[r]))
       /\ query[r].op = "profile" \/ row.user \notin Problem
             => row.sub <= Cardinality(Own(row.user, now))
       /\ \/ pc[r] \in {"accepted", "dead"} /\ k = Len(rows[r])
          \/ row.ac \in Cardinality(OwnAccepted(row.user, first[r]))
                          .. Cardinality(OwnAccepted(row.user, now))

\* How many rows there are.
RowsSoFar(r) ==
    /\ pc[r] = "idle" => rows[r] = <<>>
    /\ pc[r] = "count" => Len(rows[r]) < Len(Listed(r))
    /\ pc[r] = "accepted" => Len(rows[r]) \in 1 .. Len(Listed(r))
    /\ pc[r] = "done" /\ query[r].op \in {"rank", "profile"} => Len(rows[r]) = Len(Listed(r))

RowsCounted ==
    /\ submissions \in Seq(Judging)
    /\ first \in [Req -> 0 .. Len(submissions)]
    /\ rows \in [Req -> Seq([user : ScoreUser, sub : Nat, ac : Nat])]
    /\ \A r \in Req : RowsSoFar(r) /\ \A k \in DOMAIN rows[r] : RowRight(r, k)
==============================================================================
