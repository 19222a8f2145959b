------------------------------- MODULE Contests -------------------------------
(***************************************************************************)
(* Contests: cgi-src/create_contest.c, join_contest.c, the part of         *)
(* contest_submit.c that looks at contests, contest_rank.c and             *)
(* admin_contest.c.                                                        *)
(*                                                                         *)
(* The files contests.txt, contest_participants.txt and                    *)
(* contest_submissions.txt are only ever appended to.  A request reads one *)
(* file after the other, decides, and appends its line; nothing is locked, *)
(* so what it has read may be out of date by then.  How a submission gets  *)
(* its verdict is the subject of ContestJudge; here any verdict may come.  *)
(***************************************************************************)
EXTENDS Lists

CONSTANTS
    Req,      \* the requests
    User,     \* names found in session files
    Admin,    \* those whose role is 1 or 2 in users.txt
    Problem,  \* problem numbers
    Query,    \* what requests ask for
    UserId,   \* UserId[u]: the number in users.txt; su has 0
    SecondId, \* SecondId[u]: the number if the name u is registered again
    MaxClock  \* bound on the clock

Time == 1 .. MaxClock

\* The forms of create_contest.c and contest.c.  `described' tells whether the
\* description was filled in; `duration' is the time each user has, 0 for no limit.
Creation == [op : {"create"}, user : User, start : Nat, end : Nat,
             duration : Nat, described : BOOLEAN]
Entry    == [op : {"join"}, user : User, contest : Nat]
Attempt  == [op : {"submit"}, user : User, contest : Nat, problem : Problem]

ASSUME ContestsAssumption ==
    /\ Admin \subseteq User
    /\ Query \subseteq Creation \cup Entry \cup Attempt
    /\ UserId \in [User -> Nat]
    /\ SecondId \in [User -> Nat]
    /\ MaxClock \in Nat \ {0}

\* What the numbers of u's accounts can be, 0 for none.
NumbersOf(u) == {0, UserId[u], SecondId[u]}

\* Registrations give everybody numbers of their own (see Accounts).
ASSUME NumbersDiffer ==
    \A u, v \in User : u # v => NumbersOf(u) \cap NumbersOf(v) \subseteq {0}

VARIABLES
    clock,         \* time(NULL)
    account,       \* account[u]: what get_user_id finds, 0 if there is no line
    contests,      \* contests.txt
    participants,  \* contest_participants.txt
    submissions,   \* contest_submissions.txt
    query,         \* the query string of each request
    pc,            \* where each request is
    next,          \* id in create_contest.c
    now,           \* now in join_contest.c
    uid,           \* uid in join_contest.c
    before         \* history: the requests that had ended when this one came

lines == <<contests, participants, submissions>>
local == <<next, now, uid>>
vars  == <<clock, account, lines, query, pc, local, before>>

\* Lines of the files; req and by are history, not in the files.
Contest == [id : Nat, start : Nat, end : Nat, duration : Nat,
            described : BOOLEAN, req : Req]
Participant == [contest : Nat, user : User, uid : Nat, since : Nat, req : Req]
Verdict == [contest : Nat, uid : Nat, problem : Problem, time : Nat,
            verdict : {"AC", "WA"}, by : User, req : Req]

Ended == {"refused", "closed", "done"}

-----------------------------------------------------------------------------
\* What the programs read in the files

\* Mutant of NextId: one more than the last line, as upload.c does it.
NextIdOfLast == IF contests = <<>> THEN 1 ELSE contests[Len(contests)].id + 1

\* get_next_id: one more than the largest number.
NextId ==
    LET ids == {0} \cup {contests[k].id : k \in DOMAIN contests}
    IN 1 + (CHOOSE n \in ids : \A m \in ids : m <= n)

Exists(c) == \E k \in DOMAIN contests : contests[k].id = c

\* The first line with number c.
IsFirst(c, k) ==
    /\ k \in DOMAIN contests
    /\ contests[k].id = c
    /\ \A i \in 1 .. k - 1 : contests[i].id # c
LineOf(c) == contests[CHOOSE k \in DOMAIN contests : IsFirst(c, k)]

\* strtok skips an empty description, so that the fields after it move up by
\* one: the end is taken for the start, and the problem numbers, or the name of
\* the creator, for the end.  As a time that is long past.
Opens(line)  == IF line.described THEN line.start ELSE line.end
Closes(line) == IF line.described THEN line.end ELSE 0

\* user_in_contest
Joined(c, u) == \E k \in DOMAIN participants :
    participants[k].contest = c /\ participants[k].user = u

-----------------------------------------------------------------------------
Init ==
    /\ clock = 1
    /\ account = UserId
    /\ contests = <<>>
    /\ participants = <<>>
    /\ submissions = <<>>
    /\ query \in [Req -> Query]
    /\ pc = [r \in Req |-> "idle"]
    /\ next = [r \in Req |-> 0]
    /\ now = [r \in Req |-> 0]
    /\ uid = [r \in Req |-> 0]
    /\ before = [r \in Req |-> {}]

Tick ==
    /\ clock < MaxClock
    /\ clock' = clock + 1
    /\ UNCHANGED <<account, lines, query, pc, local, before>>

\* delete_user.cgi.  Administrators are not deleted here.
RemoveAccount(u) ==
    /\ u \notin Admin
    /\ account' = [account EXCEPT ![u] = 0]
    /\ UNCHANGED <<clock, lines, query, pc, local, before>>

\* register.c: the name of a deleted account can be taken again.
RegisterAgain(u) ==
    /\ u \notin Admin
    /\ account[u] = 0
    /\ account' = [account EXCEPT ![u] = SecondId[u]]
    /\ UNCHANGED <<clock, lines, query, pc, local, before>>

Arrive(r) ==
    /\ pc[r] = "idle"
    /\ before' = [before EXCEPT ![r] = {q \in Req : pc[q] \in Ended}]

\* No session, not an administrator, no such contest, not a participant, ...
Refuse(r) ==
    /\ Arrive(r)
    /\ pc' = [pc EXCEPT ![r] = "refused"]
    /\ UNCHANGED <<clock, account, lines, query, local>>

\* create_contest.c checks the form and reads contests.txt.
CreateRead(r) ==
    LET form == query[r] IN
    /\ form.op = "create"
    /\ form.user \in Admin
    /\ 0 < form.start /\ form.start < form.end
    /\ Arrive(r)
    /\ next' = [next EXCEPT ![r] = NextId]
    /\ pc' = [pc EXCEPT ![r] = "numbered"]
    /\ UNCHANGED <<clock, account, lines, query, now, uid>>

CreateAppend(r) ==
    LET form == query[r] IN
    /\ pc[r] = "numbered"
    /\ contests' = Append(contests,
           [id |-> next[r], start |-> form.start, end |-> form.end,
            duration |-> form.duration, described |-> form.described, req |-> r])
    /\ pc' = [pc EXCEPT ![r] = "done"]
    /\ UNCHANGED <<clock, account, participants, submissions, query, local, before>>

\* Mutant of InWindow: the start is not looked at.
BeforeEnd(c) == clock <= Closes(LineOf(c))

\* now, against the start and end join_contest.c has read.
InWindow(c) == Opens(LineOf(c)) <= clock /\ clock <= Closes(LineOf(c))

\* join_contest.c finds the contest running.
JoinOpen(r) ==
    LET c == query[r].contest IN
    /\ query[r].op = "join"
    /\ Arrive(r)
    /\ Exists(c)
    /\ InWindow(c)
    /\ now' = [now EXCEPT ![r] = clock]
    /\ pc' = [pc EXCEPT ![r] = "joining"]
    /\ UNCHANGED <<clock, account, lines, query, next, uid>>

\* join_contest.c says "Contest not started yet" or "Contest ended".
JoinClosed(r) ==
    LET c == query[r].contest IN
    /\ query[r].op = "join"
    /\ Arrive(r)
    /\ Exists(c)
    /\ ~InWindow(c)
    /\ pc' = [pc EXCEPT ![r] = "closed"]
    /\ UNCHANGED <<clock, account, lines, query, local>>

\* It reads the participants, then the number of the account.
JoinCheck(r) ==
    LET j == query[r] IN
    /\ pc[r] = "joining"
    /\ IF Joined(j.contest, j.user)
       THEN /\ pc' = [pc EXCEPT ![r] = "refused"]
            /\ uid' = uid
       ELSE /\ pc' = [pc EXCEPT ![r] = "checked"]
            /\ uid' = [uid EXCEPT ![r] = account[j.user]]
    /\ UNCHANGED <<clock, account, lines, query, next, now, before>>

JoinAppend(r) ==
    LET j == query[r] IN
    /\ pc[r] = "checked"
    /\ participants' = Append(participants,
           [contest |-> j.contest, user |-> j.user, uid |-> uid[r],
            since |-> now[r], req |-> r])
    /\ pc' = [pc EXCEPT ![r] = "done"]
    /\ UNCHANGED <<clock, account, contests, submissions, query, local, before>>

\* Mutant of SubmitTake: whoever has a session may submit.
SubmitTakeAnyones(r) ==
    /\ query[r].op = "submit"
    /\ Arrive(r)
    /\ pc' = [pc EXCEPT ![r] = "judging"]
    /\ UNCHANGED <<clock, account, lines, query, local>>

\* contest_submit.c asks only whether the user takes part.
SubmitTake(r) ==
    /\ query[r].op = "submit"
    /\ Arrive(r)
    /\ Joined(query[r].contest, query[r].user)
    /\ pc' = [pc EXCEPT ![r] = "judging"]
    /\ UNCHANGED <<clock, account, lines, query, local>>

\* It has a verdict and looks up the number of the account.
SubmitRecord(r) ==
    LET j == query[r] IN
    /\ pc[r] = "judging"
    /\ \E verdict \in {"AC", "WA"} :
          submissions' = Append(submissions,
              [contest |-> j.contest, uid |-> account[j.user], problem |-> j.problem,
               time |-> clock, verdict |-> verdict, by |-> j.user, req |-> r])
    /\ pc' = [pc EXCEPT ![r] = "done"]
    /\ UNCHANGED <<clock, account, contests, participants, query, local, before>>

Next ==
    \/ Tick
    \/ \E u \in User : RemoveAccount(u) \/ RegisterAgain(u)
    \/ \E r \in Req :
          \/ Refuse(r)
          \/ CreateRead(r) \/ CreateAppend(r)
          \/ JoinOpen(r) \/ JoinClosed(r) \/ JoinCheck(r) \/ JoinAppend(r)
          \/ SubmitTake(r) \/ SubmitRecord(r)

Spec == Init /\ [][Next]_vars

-----------------------------------------------------------------------------
\* The ranking (contest_rank.c) and the administrators' view of it

\* The lines of contest c, in the order in which they were appended.
Rows(c) == Keep(participants, {k \in DOMAIN participants : participants[k].contest = c})

\* Mutant of Credited: the loop over the rows does not stop at the first match.
CreditedAll(c, i) ==
    {k \in DOMAIN submissions :
        /\ submissions[k].contest = c
        /\ submissions[k].verdict = "AC"
        /\ Rows(c)[i].uid = submissions[k].uid}

\* The accepted submissions counted in row i: those of the row's number, unless
\* an earlier row has the number, too.
Credited(c, i) ==
    {k \in DOMAIN submissions :
        /\ submissions[k].contest = c
        /\ submissions[k].verdict = "AC"
        /\ Rows(c)[i].uid = submissions[k].uid
        /\ \A h \in 1 .. i - 1 : Rows(c)[h].uid # submissions[k].uid}

Solved(c, i) == Cardinality(Credited(c, i))

\* admin_contest.c compares the rest of the line, line feed included, with AC.
AdminSolved(c, i) ==
    Cardinality({k \in DOMAIN submissions :
        /\ submissions[k].contest = c
        /\ submissions[k].uid = Rows(c)[i].uid
        /\ <<submissions[k].verdict, "\n">> = <<"AC">>})

-----------------------------------------------------------------------------
TypeOK ==
    /\ clock \in Time
    /\ account \in [User -> Nat]
    /\ contests \in Seq(Contest)
    /\ participants \in Seq(Participant)
    /\ submissions \in Seq(Verdict)
    /\ query \in [Req -> Query]
    /\ pc \in [Req -> {"idle", "numbered", "joining", "checked", "judging"} \cup Ended]
    /\ next \in [Req -> Nat]
    /\ now \in [Req -> Nat]
    /\ uid \in [Req -> Nat]
    /\ before \in [Req -> SUBSET Req]

\* One of the requests had ended when the other came.
Apart(q, r) == q \in before[r] \/ r \in before[q]

(***************************************************************************)
(* Two contests have the same number only if the requests that created     *)
(* them overlapped, whatever order the lines got into the file in          *)
(* (get_next_id in create_contest.c).                                      *)
(***************************************************************************)
IdsUnique ==
    \A i, j \in DOMAIN contests :
        i # j /\ Apart(contests[i].req, contests[j].req) =>
            contests[i].id # contests[j].id

(***************************************************************************)
(* A user is listed twice in a contest only if two requests of the user to *)
(* join it overlapped (user_in_contest in join_contest.c).                 *)
(***************************************************************************)
JoinedOnce ==
    \A i, j \in DOMAIN participants :
        i # j /\ Apart(participants[i].req, participants[j].req) =>
            \/ participants[i].contest # participants[j].contest
            \/ participants[i].user # participants[j].user

(***************************************************************************)
(* Whoever has submitted to a contest had joined it while it was running,  *)
(* so no submission is older than the contest: contest_submit.c does not   *)
(* look at the times, join_contest.c does.                                 *)
(***************************************************************************)
NeverEarly ==
    \A k \in DOMAIN submissions :
        LET s == submissions[k] IN
        /\ Exists(s.contest)
        /\ \E p \in DOMAIN participants :
              /\ participants[p].contest = s.contest
              /\ participants[p].user = s.by
              /\ Opens(LineOf(s.contest)) <= participants[p].since
              /\ participants[p].since <= Closes(LineOf(s.contest))
              /\ participants[p].since <= s.time

-----------------------------------------------------------------------------
\* The inductive invariant behind the three properties above

\* What a request that is under way asks for.
Control ==
    \A r \in Req :
        /\ pc[r] = "numbered" => query[r] \in Creation
        /\ pc[r] \in {"joining", "checked"} => query[r] \in Entry
        /\ pc[r] = "judging" => query[r] \in Attempt

\* Those who had ended when a request came have ended.
Past == \A r \in Req : \A q \in before[r] : pc[q] \in Ended

\* Lines are written by requests that are done.
Written ==
    /\ \A k \in DOMAIN contests : pc[contests[k].req] = "done"
    /\ \A k \in DOMAIN participants : pc[participants[k].req] = "done"

\* There is a largest number, and every number has a first line.
Numbering ==
    /\ \E n \in {0} \cup {contests[k].id : k \in DOMAIN contests} :
          \A k \in DOMAIN contests : contests[k].id <= n
    /\ \A k \in DOMAIN contests : \E i \in DOMAIN contests : IsFirst(contests[k].id, i)

\* A line that takes the number of a request under way, or a higher one, is of
\* a request that had not ended when this one came.
NumberIsFree ==
    \A r \in Req : pc[r] = "numbered" =>
        \A k \in DOMAIN contests :
            contests[k].id >= next[r] => contests[k].req \notin before[r]

\* The same for a line of the user who is about to join.
PlaceIsFree ==
    \A r \in Req : pc[r] = "checked" =>
        \A k \in DOMAIN participants :
            /\ participants[k].contest = query[r].contest
            /\ participants[k].user = query[r].user
            => participants[k].req \notin before[r]

\* Moment t lies in contest c, and in the past.
During(c, t) ==
    Exists(c) /\ Opens(LineOf(c)) <= t /\ t <= Closes(LineOf(c)) /\ t <= clock

JoinedDuring ==
    /\ \A r \in Req : pc[r] \in {"joining", "checked"} => During(query[r].contest, now[r])
    /\ \A k \in DOMAIN participants : During(participants[k].contest, participants[k].since)

SubmitterJoined ==
    \A r \in Req : pc[r] = "judging" => Joined(query[r].contest, query[r].user)

IInv ==
    /\ TypeOK /\ Control /\ Past /\ Written
    /\ Numbering /\ NumberIsFree /\ IdsUnique
    /\ PlaceIsFree /\ JoinedOnce
    /\ JoinedDuring /\ SubmitterJoined /\ NeverEarly

-----------------------------------------------------------------------------
\* An account, a request about to join and a participant have a number of their user.
OwnNumbers ==
    /\ \A u \in User : account[u] \in NumbersOf(u)
    /\ \A r \in Req : pc[r] = "checked" => uid[r] \in NumbersOf(query[r].user)
    /\ \A k \in DOMAIN participants :
          participants[k].uid \in NumbersOf(participants[k].user)

(***************************************************************************)
(* The ranking gives the accepted submissions of the accounts that joined  *)
(* to those who made them and counts each of them once, however often they *)
(* are listed.  (An account registered again under the name of one that    *)
(* was deleted may submit, but has another number than the one that        *)
(* joined; a submission made without an account has number 0, which is     *)
(* that of su.)                                                            *)
(***************************************************************************)
RankIsOwn ==
    \A k \in DOMAIN submissions :
        LET s == submissions[k]
            rows == Rows(s.contest)
            counted == {i \in DOMAIN rows : k \in Credited(s.contest, i)}
        IN /\ s.verdict = "AC" /\ s.uid # 0
           /\ \E i \in DOMAIN rows : rows[i].user = s.by /\ rows[i].uid = s.uid
           => \E i \in counted : counted = {i} /\ rows[i].user = s.by

\* contest_submit.c takes r's submission.
Takes(r) == pc[r] = "idle" /\ pc'[r] = "judging"

(***************************************************************************)
(* What contest.c:260-261 and join_contest.c:121 say, "Contest ended.",    *)
(* "View Final Ranking" and "Your personal timer starts now": no           *)
(* submission is taken after the end of the contest, nor from a user whose *)
(* time is up (create_contest.c:119, "0=unlimited").                       *)
(***************************************************************************)
TimesAreKept ==
    [][\A r \in Req : Takes(r) =>
          LET line == LineOf(query[r].contest)
          IN /\ clock <= line.end
             /\ line.duration > 0 => \E p \in DOMAIN participants :
                   /\ participants[p].contest = query[r].contest
                   /\ participants[p].user = query[r].user
                   /\ clock <= participants[p].since + line.duration]_vars

(***************************************************************************)
(* What the heading of admin_contest.c:76 says, "Solved", as contest_rank.c*)
(* counts it: both pages show the same number for a user.                  *)
(***************************************************************************)
AdminSeesSolved ==
    \A k \in DOMAIN contests : \A i \in DOMAIN Rows(contests[k].id) :
        Solved(contests[k].id, i) <= AdminSolved(contests[k].id, i)
=============================================================================
