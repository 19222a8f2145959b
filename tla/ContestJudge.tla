---------------------------- MODULE ContestJudge ----------------------------
(***************************************************************************)
(* cgi-src/contest_submit.c: judging a submission to a contest.            *)
(*                                                                         *)
(* Like judge.c it is one process per request and takes no lock, but the   *)
(* names of its files in /tmp carry the contest, the problem and the       *)
(* second of the request:                                                  *)
(*   src   contest_<cid>_<pid>_<second>.<ext>     the submitted text       *)
(*   prog  program_<cid>_<pid>_<second>           the executable           *)
(*   out   output_<cid>_<pid>_<i>_<second>.txt    the output on test i     *)
(* `timeout 5' sends SIGTERM to a test run that takes longer, and waits    *)
(* until it has ended: a program that ignores the signal is not ended.     *)
(* Nothing limits the compiler.  The files are deleted at the end, except  *)
(* the executable of a C program.                                          *)
(***************************************************************************)
EXTENDS Programs, Sequences

CONSTANTS
    Req,          \* the requests to /contest_submit.cgi
    User,         \* names found in session files
    Contest,      \* contest numbers
    Participant,  \* the <<contest, user>> in contest_participants.txt
    UserId,       \* UserId[u]: the number in users.txt, 0 if there is no line
    Stubborn,     \* the <<c, p, n>> on which program c never exits and ignores SIGTERM
    MaxClock,     \* bound on the clock, in seconds
    MayKill       \* whether requests can exceed httpd's script timeout

ASSUME ContestJudgeAssumption ==
    /\ MaxClock \in Nat
    /\ MayKill \in BOOLEAN
    /\ Participant \subseteq Contest \X User
    /\ UserId \in [User -> Nat]
    /\ Stubborn \subseteq Hangs

VARIABLES
    clock,        \* time(NULL)
    src,          \* code_file -> text
    prog,         \* program_file -> text it was compiled from
    out,          \* output_file -> contents
    submissions,  \* data/contest_submissions.txt
    job,          \* the query string of each request
    pc,           \* where each request is
    second,       \* timestamp
    tc,           \* the test number i
    pass,         \* tests passed so far
    child         \* the compiler or program the request waits for

files == <<src, prog, out>>
local == <<second, tc, pass>>
vars  == <<clock, files, submissions, job, pc, local, child>>

Job    == [user : User, contest : Contest, problem : Problem, lang : Lang, code : Code]
Second == 0 .. MaxClock
Key    == Contest \X Problem \X Second

\* A line of contest_submissions.txt; req is history, not in the file.
Record == [contest : Contest, uid : Nat, problem : Problem,
           verdict : {"AC", "WA"}, req : Req]

\* Mutant of OutFile: the name lacks the second.
OutFileShared(r) == <<<<job[r].contest, job[r].problem, 0>>, tc[r]>>

KeyOf(r)   == <<job[r].contest, job[r].problem, second[r]>>
Source(r)  == <<KeyOf(r), job[r].lang>>
OutFile(r) == <<KeyOf(r), tc[r]>>

\* Mutant of Total: all .in files count, as in judge.c.
TotalOfAll(p) == IF Tests[p] = {} THEN 1 ELSE Cardinality(Tests[p])

\* count_testcases: the .in files numbered 1, 2, ... without a gap, at least 1.
Total(p) ==
    LET found == {n \in TestNo : 1 .. n \subseteq Tests[p]}
    IN IF found = {} THEN 1 ELSE Cardinality(found)

Working(r) == pc[r] \in {"compile", "link", "test", "run", "clean"}

-----------------------------------------------------------------------------
Init ==
    /\ clock = 0
    /\ src = [f \in Key \X Lang |-> None]
    /\ prog = [k \in Key |-> None]
    /\ out = [f \in Key \X TestNo |-> None]
    /\ submissions = <<>>
    /\ job \in [Req -> Job]
    /\ pc = [r \in Req |-> "idle"]
    /\ second = [r \in Req |-> 0]
    /\ tc = [r \in Req |-> 1]
    /\ pass = [r \in Req |-> 0]
    /\ child = [r \in Req |-> None]

Tick ==
    /\ clock < MaxClock
    /\ clock' = clock + 1
    /\ UNCHANGED <<files, submissions, job, pc, local, child>>

\* No valid session, not in the contest, or no problem or code given.
Refuse(r) ==
    /\ pc[r] = "idle"
    /\ pc' = [pc EXCEPT ![r] = "refused"]
    /\ UNCHANGED <<clock, files, submissions, job, local, child>>

\* The request arrives and saves the submitted text.  Nothing is asked about
\* the state of the contest, nor whether the problem belongs to it.
SaveCode(r) ==
    LET j == job[r] IN
    /\ pc[r] = "idle"
    /\ <<j.contest, j.user>> \in Participant
    /\ second' = [second EXCEPT ![r] = clock]
    /\ src' = [src EXCEPT ![<<<<j.contest, j.problem, clock>>, j.lang>>] = j.code]
    /\ pc' = [pc EXCEPT ![r] = IF Compiled(j.lang) THEN "compile" ELSE "test"]
    /\ UNCHANGED <<clock, prog, out, submissions, job, tc, pass, child>>

\* The compiler finds no text it accepts: the text is deleted, nothing recorded.
CompileError(r) ==
    /\ pc[r] = "compile"
    /\ src[Source(r)] \in Broken \cup {None}
    /\ src' = [src EXCEPT ![Source(r)] = None]
    /\ pc' = [pc EXCEPT ![r] = "rejected"]
    /\ UNCHANGED <<clock, prog, out, submissions, job, local, child>>

\* The compiler has read the text and removes an old executable.  With an endless
\* text it never gets here.
CompileBegin(r) ==
    /\ pc[r] = "compile"
    /\ src[Source(r)] \notin Broken \cup Endless \cup {None}
    /\ prog' = [prog EXCEPT ![KeyOf(r)] = None]
    /\ child' = [child EXCEPT ![r] = [op |-> "link", code |-> src[Source(r)]]]
    /\ pc' = [pc EXCEPT ![r] = "link"]
    /\ UNCHANGED <<clock, src, out, submissions, job, local>>

\* The compiler finishes, whether or not its request is still there.
LinkEnd(r) ==
    /\ child[r] # None
    /\ child[r].op = "link"
    /\ prog' = [prog EXCEPT ![KeyOf(r)] = child[r].code]
    /\ child' = [child EXCEPT ![r] = None]
    /\ UNCHANGED <<clock, src, out, submissions, job, pc, local>>

\* pclose returns.
CompileReturn(r) ==
    /\ pc[r] = "link"
    /\ child[r] = None
    /\ pc' = [pc EXCEPT ![r] = "test"]
    /\ UNCHANGED <<clock, files, submissions, job, local, child>>

MoreTests(r) == tc[r] <= Total(job[r].problem)

\* The shell opens the input, truncates the output file and starts the program.
StartRun(r) ==
    /\ pc[r] = "test"
    /\ MoreTests(r)
    /\ tc[r] \in Tests[job[r].problem]
    /\ out' = [out EXCEPT ![OutFile(r)] = Empty]
    /\ child' = [child EXCEPT ![r] =
           [op |-> "run",
            code |-> IF Compiled(job[r].lang) THEN prog[KeyOf(r)] ELSE src[Source(r)]]]
    /\ pc' = [pc EXCEPT ![r] = "run"]
    /\ UNCHANGED <<clock, src, prog, submissions, job, local>>

\* There is no input 1: the shell gives up before it opens the output file.
StartNothing(r) ==
    /\ pc[r] = "test"
    /\ MoreTests(r)
    /\ tc[r] \notin Tests[job[r].problem]
    /\ pc' = [pc EXCEPT ![r] = "run"]
    /\ UNCHANGED <<clock, files, submissions, job, local, child>>

\* Another test run has r's output file open.
Shared(r) == \E q \in Req \ {r} :
    child[q] # None /\ child[q].op = "run" /\ OutFile(q) = OutFile(r)

\* Mutant of FinishRun: there is no timeout.
FinishRunUntimed(r) ==
    LET f == OutFile(r)
        printed == Ran(child[r].code, job[r].problem, tc[r])
    IN
    /\ child[r] # None
    /\ child[r].op = "run"
    /\ <<child[r].code, job[r].problem, tc[r]>> \notin Hangs
    /\ out' = [out EXCEPT ![f] = printed]
    /\ child' = [child EXCEPT ![r] = None]
    /\ UNCHANGED <<clock, src, prog, submissions, job, pc, local>>

\* The program exits, or `timeout' ends it unless it is stubborn.  What it writes
\* is lost when the file has been deleted meanwhile.
FinishRun(r) ==
    LET f == OutFile(r)
        printed == Ran(child[r].code, job[r].problem, tc[r])
    IN
    /\ child[r] # None
    /\ child[r].op = "run"
    /\ <<child[r].code, job[r].problem, tc[r]>> \notin Stubborn
    /\ \E contents \in CASE out[f] = None -> {None}
                         [] out[f] = Empty /\ ~Shared(r) -> {printed}
                         [] OTHER -> {printed, Mixed} :
          out' = [out EXCEPT ![f] = contents]
    /\ child' = [child EXCEPT ![r] = None]
    /\ UNCHANGED <<clock, src, prog, submissions, job, pc, local>>

\* Mutant of Compare: the output is kept.
CompareKeeping(r) ==
    /\ pc[r] = "run" /\ child[r] = None
    /\ \E status \in DiffW(out[OutFile(r)], Expected[job[r].problem][tc[r]]) :
          pass' = [pass EXCEPT ![r] = IF status = 0 THEN @ + 1 ELSE @]
    /\ tc' = [tc EXCEPT ![r] = @ + 1]
    /\ pc' = [pc EXCEPT ![r] = "test"]
    /\ UNCHANGED <<clock, files, submissions, job, second, child>>

\* system() returns, the output is compared with diff -w and deleted.
Compare(r) ==
    LET f == OutFile(r)
        statuses == IF tc[r] \in Tests[job[r].problem]
                    THEN DiffW(out[f], Expected[job[r].problem][tc[r]])
                    ELSE {2}    \* diff has no expected output to compare with
    IN
    /\ pc[r] = "run" /\ child[r] = None
    /\ \E status \in statuses :
          pass' = [pass EXCEPT ![r] = IF status = 0 THEN @ + 1 ELSE @]
    /\ out' = [out EXCEPT ![f] = None]
    /\ tc' = [tc EXCEPT ![r] = @ + 1]
    /\ pc' = [pc EXCEPT ![r] = "test"]
    /\ UNCHANGED <<clock, src, prog, submissions, job, second, child>>

\* The loop is over: one line is appended to contest_submissions.txt.
RecordVerdict(r) ==
    LET j == job[r] IN
    /\ pc[r] = "test"
    /\ ~MoreTests(r)
    /\ submissions' = Append(submissions,
           [contest |-> j.contest, uid |-> UserId[j.user], problem |-> j.problem,
            verdict |-> IF pass[r] = Total(j.problem) THEN "AC" ELSE "WA", req |-> r])
    /\ pc' = [pc EXCEPT ![r] = "clean"]
    /\ UNCHANGED <<clock, files, job, local, child>>

\* The text is deleted, and the executable of a C++ program; then the reply.
CleanUp(r) ==
    /\ pc[r] = "clean"
    /\ src' = [src EXCEPT ![Source(r)] = None]
    /\ prog' = IF job[r].lang = "cpp" THEN [prog EXCEPT ![KeyOf(r)] = None] ELSE prog
    /\ pc' = [pc EXCEPT ![r] = "done"]
    /\ UNCHANGED <<clock, out, submissions, job, local, child>>

\* Mutant of Kill: the script catches SIGTERM and enters a failure.
KillRecords(r) ==
    /\ MayKill
    /\ Working(r)
    /\ submissions' = Append(submissions,
           [contest |-> job[r].contest, uid |-> UserId[job[r].user],
            problem |-> job[r].problem, verdict |-> "WA", req |-> r])
    /\ pc' = [pc EXCEPT ![r] = "dead"]
    /\ UNCHANGED <<clock, files, job, local, child>>

\* httpd kills the script, not the script's children.
Kill(r) ==
    /\ MayKill
    /\ Working(r)
    /\ pc' = [pc EXCEPT ![r] = "dead"]
    /\ UNCHANGED <<clock, files, submissions, job, local, child>>

\* What a request that has arrived, or its child, does next.
Step(r) ==
    \/ CompileError(r) \/ CompileBegin(r) \/ LinkEnd(r) \/ CompileReturn(r)
    \/ StartRun(r) \/ StartNothing(r) \/ FinishRun(r) \/ Compare(r)
    \/ RecordVerdict(r) \/ CleanUp(r)

Next == Tick \/ \E r \in Req : SaveCode(r) \/ Refuse(r) \/ Step(r) \/ Kill(r)

Spec == Init /\ [][Next]_vars

\* The kernel runs every process that can run, timeout included.
FairSpec == Spec /\ \A r \in Req : WF_vars(Step(r))

-----------------------------------------------------------------------------
TypeOK ==
    /\ clock \in Second
    /\ src \in [Key \X Lang -> Code \cup {None}]
    /\ prog \in [Key -> Code \cup {None}]
    /\ out \in [Key \X TestNo -> File]
    /\ submissions \in Seq(Record)
    /\ job \in [Req -> Job]
    /\ pc \in [Req -> {"idle", "refused", "compile", "rejected", "link", "test",
                       "run", "clean", "done", "dead"}]
    /\ second \in [Req -> Second]
    /\ tc \in [Req -> Nat \ {0}]
    /\ pass \in [Req -> Nat]
    /\ child \in [Req -> Child \cup {None}]

\* No other request of the same second is for the same problem and contest.
Alone(r) == \A q \in Req \ {r} :
    pc[q] \in {"idle", "refused"} \/ KeyOf(q) # KeyOf(r)

\* The verdict a submission deserves on the tests that count, those numbered
\* from 1 without a gap: `timeout' cuts off what hangs, so only the text printed
\* by then counts, and without a test 1 nobody is accepted.
Deserves(j) ==
    LET counting == {n \in TestNo : 1 .. n \subseteq Tests[j.problem]}
    IN IF counting # {} /\ \A n \in counting :
              SameW(Prints[j.code][j.problem][n], Expected[j.problem][n])
       THEN "AC" ELSE "WA"

(***************************************************************************)
(* The verdict recorded for a submission is the one its own program        *)
(* deserves, whatever else runs, gets killed or hangs, as long as no other *)
(* submission to the same problem of the contest falls into its second.    *)
(***************************************************************************)
VerdictIsOwn ==
    \A k \in 1 .. Len(submissions) :
        LET r == submissions[k].req
        IN Alone(r) => submissions[k].verdict = Deserves(job[r])

(***************************************************************************)
(* A request that is alone in its second and has replied leaves no file    *)
(* behind, except the executable of a C program.                           *)
(***************************************************************************)
FilesRemoved ==
    \A r \in Req :
        pc[r] \in {"rejected", "done"} /\ Alone(r) =>
            /\ src[Source(r)] = None
            /\ \A n \in TestNo : out[<<KeyOf(r), n>>] = None
            /\ job[r].lang = "c" \/ prog[KeyOf(r)] = None

-----------------------------------------------------------------------------
\* An inductive invariant, from which the two properties follow.

Arrived(r) == pc[r] \notin {"idle", "refused"}

\* Where a request is, what it has started, and which test it is at.
Control ==
    \A r \in Req :
        /\ child[r] # None => \/ pc[r] = "dead"
                              \/ pc[r] \in {"link", "run"} /\ child[r].op = pc[r]
        /\ child[r] # None /\ child[r].op = "run" => tc[r] \in Tests[job[r].problem]
        /\ pc[r] \in {"idle", "compile", "link"} => tc[r] = 1 /\ pass[r] = 0
        /\ pc[r] \in {"compile", "link"} => Compiled(job[r].lang)
        /\ Working(r) => tc[r] <= Total(job[r].problem) + 1
        /\ pc[r] = "run" => MoreTests(r)

\* There are no files whose names nobody has used.
Fresh ==
    \A k \in Key : (\A q \in Req : Arrived(q) => KeyOf(q) # k) =>
        /\ \A l \in Lang : src[<<k, l>>] = None
        /\ prog[k] = None
        /\ \A n \in TestNo : out[<<k, n>>] = None

\* Test n exists and the program of j passes it.
Passes(j, n) ==
    n \in Tests[j.problem] /\ SameW(Prints[j.code][j.problem][n], Expected[j.problem][n])

\* A request that is alone works with its own files, and all the tests so far have
\* been passed iff its program passes them.
OwnWork(r) ==
    LET code == job[r].code
        lang == job[r].lang
        k    == KeyOf(r)
    IN
    Arrived(r) /\ Alone(r) /\ pc[r] # "dead" =>
        /\ src[Source(r)] = IF Working(r) THEN code ELSE None
        /\ pc[r] \in {"compile", "rejected"} => prog[k] = None
        /\ pc[r] = "link" => prog[k] = IF child[r] = None THEN code ELSE None
        /\ pc[r] \in {"test", "run", "clean"} => prog[k] = IF Compiled(lang) THEN code ELSE None
        /\ pc[r] = "done" => lang = "c" \/ prog[k] = None
        /\ child[r] # None => child[r].code = code
        /\ \A n \in TestNo : n # tc[r] \/ pc[r] # "run" => out[<<k, n>>] = None
        /\ pc[r] = "run" =>
               out[OutFile(r)] = IF tc[r] \notin Tests[job[r].problem] THEN None
                                 ELSE IF child[r] # None THEN Empty
                                 ELSE Prints[code][job[r].problem][tc[r]]
        /\ Working(r) =>
               /\ pass[r] < tc[r]
               /\ pass[r] = tc[r] - 1 <=> \A n \in 1 .. tc[r] - 1 : Passes(job[r], n)

Own == \A r \in Req : OwnWork(r)

\* Lines are entered at the end of the loop.
Logged ==
    /\ \A k \in 1 .. Len(submissions) : pc[submissions[k].req] \in {"clean", "done", "dead"}
    /\ \A r \in Req : pc[r] \in {"clean", "done"} =>
           \E k \in 1 .. Len(submissions) : submissions[k].req = r

IInv == TypeOK /\ Control /\ Fresh /\ Own /\ Logged /\ VerdictIsOwn

-----------------------------------------------------------------------------
\* The compiler gets through with the text of j, and `timeout' with its program.
Limited(j) ==
    /\ Compiled(j.lang) => j.code \notin Endless
    /\ \A n \in TestNo : <<j.code, j.problem, n>> \notin Stubborn

(***************************************************************************)
(* A submission that the compiler gets through with, and whose program     *)
(* exits or lets `timeout' end it, is judged to the end, refused by the    *)
(* compiler or killed, even if the program hangs on every test, and        *)
(* however long other submissions go on, unless one of them to the same    *)
(* problem falls into its second (it may then be running that program).    *)
(* Nothing forces the kill: without it `timeout' alone brings the end.     *)
(***************************************************************************)
SubmissionEnds == \A r \in Req :
    (Working(r) /\ Limited(job[r])) ~> (pc[r] \in {"rejected", "done", "dead"} \/ ~Alone(r))

-----------------------------------------------------------------------------
\* The refinement: requests that share their second and problem disturb
\* each other, nothing else does.

Status(r) ==
    CASE pc[r] = "idle" -> "idle"
      [] pc[r] \in {"compile", "link", "test", "run"} -> "taken"
      [] pc[r] \in {"refused", "rejected"} -> "closed"
      [] pc[r] = "dead" /\ (\A k \in 1 .. Len(submissions) : submissions[k].req # r)
           -> "lost"
      [] OTHER -> "graded"

Abstract == INSTANCE Grading WITH
    Verdict   <- {"AC", "WA"},
    Right     <- Deserves,
    Faulty    <- LAMBDA j : Compiled(j.lang) /\ j.code \in Broken,
    status    <- [r \in Req |-> Status(r)],
    log       <- [k \in 1 .. Len(submissions) |->
                     [req |-> submissions[k].req, verdict |-> submissions[k].verdict]],
    disturbed <- {r \in Req : pc[r] \notin {"idle", "refused"} /\ ~Alone(r)}

\* A submission is entered at most once, with the verdict it deserves, and is
\* turned down only if it does not compile.
ImplementsGrading == Abstract!Spec
=============================================================================
