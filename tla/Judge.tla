------------------------------- MODULE Judge --------------------------------
(***************************************************************************)
(* cgi-src/judge.c: judging a submission to the problem set.               *)
(*                                                                         *)
(* httpd forks for every connection, so every request is a process of its  *)
(* own and requests interleave freely.  The processes share three kinds of *)
(* files without any lock:                                                 *)
(*   src   /tmp/c_<problem>_<second>.<ext>, the submitted text             *)
(*   prog  /tmp/prog, the one executable of all compiled submissions       *)
(*   out   /tmp/out, the one output file of all test runs                  *)
(* and append to data/submissions.txt.  The compiler and the program under *)
(* test are children of the request: when httpd kills a request that       *)
(* exceeded the script timeout, its child goes on without it.              *)
(***************************************************************************)
EXTENDS Programs, Sequences

CONSTANTS
    Req,        \* the requests to /judge.cgi
    User,       \* names found in session files; "" without a valid session
    MaxClock,   \* bound on the clock, in seconds
    MayKill     \* whether requests can exceed the script timeout

ASSUME JudgeAssumption == MaxClock \in Nat /\ MayKill \in BOOLEAN

VARIABLES
    clock,        \* time(NULL)
    src,          \* source file name -> text
    prog,         \* text that /tmp/prog was compiled from
    out,          \* contents of /tmp/out
    submissions,  \* data/submissions.txt
    job,          \* the query string of each request
    pc,           \* where each request is
    phase,        \* "score": lines 104-119, "table": lines 133-152
    second,       \* the second that names the request's source file
    tc,           \* the test number i of the current loop
    pass,         \* tests passed so far
    rows,         \* tests the result table shows as PASS
    child,        \* the compiler or program the request waits for
    hit           \* history: another process wrote a file while the
                  \*   request depended on its contents

files == <<src, prog, out>>
local == <<phase, second, tc, pass, rows>>
vars  == <<clock, files, submissions, job, pc, local, child, hit>>

Job    == [user : User, problem : Problem, lang : Lang, code : Code]
Second == 0 .. MaxClock
SrcKey == Problem \X Second \X Lang

\* A line of submissions.txt; req and hit are history, not in the file.
Record == [user : User, problem : Problem, pass : Nat, total : Nat,
           req : Req, hit : BOOLEAN]

Key(r) == <<job[r].problem, second[r], job[r].lang>>

\* Mutant of Total: counting stops at the first gap, as in contest_submit.c.
TotalToGap(p) ==
    LET found == {n \in TestNo : 1 .. n \subseteq Tests[p]}
    IN IF found = {} THEN 1 ELSE Cardinality(found)

\* count_tc: the number of .in files, at least 1.
Total(p) == IF Tests[p] = {} THEN 1 ELSE Cardinality(Tests[p])

Working(r) == pc[r] \in {"compile", "link", "test", "run"}

-----------------------------------------------------------------------------
\* The history variable hit.

\* Request r still depends on what it, or its child, has put into file f.
Needs(r, f) ==
    \/ f = "src"  /\ \/ pc[r] = "compile"
                     \/ Working(r) /\ ~Compiled(job[r].lang)
    \/ f = "prog" /\ Compiled(job[r].lang) /\ pc[r] \in {"link", "test", "run"}
    \/ f = "out"  /\ pc[r] = "run"

\* Request q writes file f.
Touch(q, f) == hit' = [r \in Req |-> hit[r] \/ (r # q /\ Needs(r, f))]

\* Request q writes the source file named key.
TouchSrc(q, key) ==
    hit' = [r \in Req |-> hit[r] \/ (r # q /\ Needs(r, "src") /\ Key(r) = key)]

-----------------------------------------------------------------------------
Init ==
    /\ clock = 0
    /\ src = [k \in SrcKey |-> None]
    /\ prog = None
    /\ out = None
    /\ submissions = <<>>
    /\ job \in [Req -> Job]
    /\ pc = [r \in Req |-> "idle"]
    /\ phase = [r \in Req |-> "score"]
    /\ second = [r \in Req |-> 0]
    /\ tc = [r \in Req |-> 1]
    /\ pass = [r \in Req |-> 0]
    /\ rows = [r \in Req |-> {}]
    /\ child = [r \in Req |-> None]
    /\ hit = [r \in Req |-> FALSE]

Tick ==
    /\ clock < MaxClock
    /\ \E r \in Req : pc[r] = "idle"    \* a request reads it as it arrives
    /\ clock' = clock + 1
    /\ UNCHANGED <<files, submissions, job, pc, local, child, hit>>

\* The id or the code is missing from the query string.
Refuse(r) ==
    /\ pc[r] = "idle"
    /\ pc' = [pc EXCEPT ![r] = "done"]
    /\ UNCHANGED <<clock, files, submissions, job, local, child, hit>>

\* The request arrives and saves the submitted text.
SaveCode(r) ==
    LET key == <<job[r].problem, clock, job[r].lang>> IN
    /\ pc[r] = "idle"
    /\ second' = [second EXCEPT ![r] = clock]
    /\ src' = [src EXCEPT ![key] = job[r].code]
    /\ TouchSrc(r, key)
    /\ pc' = [pc EXCEPT ![r] = IF Compiled(job[r].lang) THEN "compile" ELSE "test"]
    /\ UNCHANGED <<clock, prog, out, submissions, job, phase, tc, pass, rows, child>>

\* g++ refuses the text: the reply is "Compile Error", nothing is recorded.
CompileError(r) ==
    /\ pc[r] = "compile"
    /\ src[Key(r)] \in Broken
    /\ pc' = [pc EXCEPT ![r] = "done"]
    /\ UNCHANGED <<clock, files, submissions, job, local, child, hit>>

\* Mutant of CompileBegin: the judge does not wait for g++.
CompileBeginOnly(r) ==
    /\ pc[r] = "compile"
    /\ src[Key(r)] \notin Broken \cup Endless
    /\ prog' = None
    /\ Touch(r, "prog")
    /\ child' = [child EXCEPT ![r] = [op |-> "link", code |-> src[Key(r)]]]
    /\ pc' = [pc EXCEPT ![r] = "test"]
    /\ UNCHANGED <<clock, src, out, submissions, job, local>>

\* Mutant of CompileBegin: a lock protects /tmp/prog from the programs that
\* still run.
CompileBeginLocked(r) ==
    /\ \A q \in Req : child[q] = None
    /\ pc[r] = "compile"
    /\ src[Key(r)] \notin Broken \cup Endless
    /\ prog' = None
    /\ Touch(r, "prog")
    /\ child' = [child EXCEPT ![r] = [op |-> "link", code |-> src[Key(r)]]]
    /\ pc' = [pc EXCEPT ![r] = "link"]
    /\ UNCHANGED <<clock, src, out, submissions, job, local>>

\* g++ has read the text and removes the old /tmp/prog to write its own.  Nobody
\* limits its time: with an endless text it never gets here.
CompileBegin(r) ==
    /\ pc[r] = "compile"
    /\ src[Key(r)] \notin Broken \cup Endless
    /\ prog' = None
    /\ Touch(r, "prog")
    /\ child' = [child EXCEPT ![r] = [op |-> "link", code |-> src[Key(r)]]]
    /\ pc' = [pc EXCEPT ![r] = "link"]
    /\ UNCHANGED <<clock, src, out, submissions, job, local>>

\* g++ finishes, whether or not its request is still there.
LinkEnd(r) ==
    /\ child[r] # None
    /\ child[r].op = "link"
    /\ prog' = child[r].code
    /\ Touch(r, "prog")
    /\ child' = [child EXCEPT ![r] = None]
    /\ UNCHANGED <<clock, src, out, submissions, job, pc, local>>

\* pclose returns.
CompileReturn(r) ==
    /\ pc[r] = "link"
    /\ child[r] = None
    /\ pc' = [pc EXCEPT ![r] = "test"]
    /\ UNCHANGED <<clock, files, submissions, job, local, child, hit>>

\* The loop has another test: the bound is Total, a missing file breaks it.
MoreTests(r) == tc[r] <= Total(job[r].problem) /\ tc[r] \in Tests[job[r].problem]

\* Mutant of StartRun: the output is appended to what is there.
StartRunAppending(r) ==
    /\ pc[r] = "test"
    /\ MoreTests(r)
    /\ out' = IF out = None THEN Empty ELSE out
    /\ Touch(r, "out")
    /\ child' = [child EXCEPT ![r] =
           [op |-> "run",
            code |-> IF Compiled(job[r].lang) THEN prog ELSE src[Key(r)]]]
    /\ pc' = [pc EXCEPT ![r] = "run"]
    /\ UNCHANGED <<clock, src, prog, submissions, job, local>>

\* The shell truncates /tmp/out and starts /tmp/prog, or python on the text.
StartRun(r) ==
    /\ pc[r] = "test"
    /\ MoreTests(r)
    /\ out' = Empty
    /\ Touch(r, "out")
    /\ child' = [child EXCEPT ![r] =
           [op |-> "run",
            code |-> IF Compiled(job[r].lang) THEN prog ELSE src[Key(r)]]]
    /\ pc' = [pc EXCEPT ![r] = "run"]
    /\ UNCHANGED <<clock, src, prog, submissions, job, local>>

\* Another test run has /tmp/out open.
Shared(r) == \E q \in Req \ {r} : child[q] # None /\ child[q].op = "run"

\* The program exits, whether or not its request is still there.  There is
\* no time limit: one that hangs never gets here.
FinishRun(r) ==
    LET p == job[r].problem IN
    /\ child[r] # None
    /\ child[r].op = "run"
    /\ <<child[r].code, p, tc[r]>> \notin Hangs
    /\ out' \in {Ran(child[r].code, p, tc[r])} \cup
                (IF out = Empty /\ ~Shared(r) THEN {} ELSE {Mixed})
    /\ hit' = [q \in Req |-> hit[q] \/ IF q = r THEN Shared(r) ELSE Needs(q, "out")]
    /\ child' = [child EXCEPT ![r] = None]
    /\ UNCHANGED <<clock, src, prog, submissions, job, pc, local>>

\* The .out file of the current test.
Wanted(r) == Expected[job[r].problem][tc[r]]

\* system() returns and /tmp/out is compared: with diff -b for the score.
CompareScore(r) ==
    /\ pc[r] = "run" /\ child[r] = None /\ phase[r] = "score"
    /\ \E status \in DiffB(out, Wanted(r)) :
          pass' = [pass EXCEPT ![r] = IF status = 0 THEN @ + 1 ELSE @]
    /\ tc' = [tc EXCEPT ![r] = @ + 1]
    /\ pc' = [pc EXCEPT ![r] = "test"]
    /\ UNCHANGED <<clock, files, submissions, job, phase, second, rows, child, hit>>

\* The second loop runs every test again and compares with diff -w.
CompareRow(r) ==
    /\ pc[r] = "run" /\ child[r] = None /\ phase[r] = "table"
    /\ \E status \in DiffW(out, Wanted(r)) :
          rows' = [rows EXCEPT ![r] = IF status = 0 THEN @ \cup {tc[r]} ELSE @]
    /\ tc' = [tc EXCEPT ![r] = @ + 1]
    /\ pc' = [pc EXCEPT ![r] = "test"]
    /\ UNCHANGED <<clock, files, submissions, job, phase, second, pass, child, hit>>

\* The line request r adds to the results.
Line(r) ==
    [user |-> job[r].user, problem |-> job[r].problem, pass |-> pass[r],
     total |-> Total(job[r].problem), req |-> r, hit |-> hit[r]]

\* Mutant of RecordScore: the line is written, but the loop starts again.
RecordScoreAgain(r) ==
    /\ pc[r] = "test" /\ phase[r] = "score"
    /\ ~MoreTests(r)
    /\ submissions' = Append(submissions, Line(r))
    /\ tc' = [tc EXCEPT ![r] = 1]
    /\ pass' = [pass EXCEPT ![r] = 0]
    /\ UNCHANGED <<clock, files, job, pc, phase, second, rows, child, hit>>

\* Mutant of RecordScore: the second loop does not reset i.
RecordScoreNoReset(r) ==
    /\ pc[r] = "test" /\ phase[r] = "score"
    /\ ~MoreTests(r)
    /\ submissions' = Append(submissions, Line(r))
    /\ phase' = [phase EXCEPT ![r] = "table"]
    /\ UNCHANGED <<clock, files, job, pc, second, tc, pass, rows, child, hit>>

\* The first loop is over: one line is appended to submissions.txt.
RecordScore(r) ==
    /\ pc[r] = "test" /\ phase[r] = "score"
    /\ ~MoreTests(r)
    /\ submissions' = Append(submissions, Line(r))
    /\ phase' = [phase EXCEPT ![r] = "table"]
    /\ tc' = [tc EXCEPT ![r] = 1]
    /\ UNCHANGED <<clock, files, job, pc, second, pass, rows, child, hit>>

\* The second loop is over: the page is complete.
Reply(r) ==
    /\ pc[r] = "test" /\ phase[r] = "table"
    /\ ~MoreTests(r)
    /\ pc' = [pc EXCEPT ![r] = "done"]
    /\ UNCHANGED <<clock, files, submissions, job, local, child, hit>>

\* httpd kills the script, not the script's children.
Kill(r) ==
    /\ MayKill
    /\ Working(r)
    /\ pc' = [pc EXCEPT ![r] = "dead"]
    /\ UNCHANGED <<clock, files, submissions, job, local, child, hit>>

\* What a request that has arrived, or its child, does next.
Step(r) ==
    \/ CompileError(r) \/ CompileBegin(r) \/ LinkEnd(r) \/ CompileReturn(r)
    \/ StartRun(r) \/ FinishRun(r) \/ CompareScore(r) \/ CompareRow(r)
    \/ RecordScore(r) \/ Reply(r)

Next == Tick \/ \E r \in Req : SaveCode(r) \/ Refuse(r) \/ Step(r) \/ Kill(r)

Spec == Init /\ [][Next]_vars

\* The kernel runs every process that can run.
FairSpec == Spec /\ \A r \in Req : WF_vars(Step(r))

-----------------------------------------------------------------------------
TypeOK ==
    /\ clock \in Second
    /\ src \in [SrcKey -> Code \cup {None}]
    /\ prog \in Code \cup {None}
    /\ out \in File
    /\ submissions \in Seq(Record)
    /\ job \in [Req -> Job]
    /\ pc \in [Req -> {"idle", "compile", "link", "test", "run", "done", "dead"}]
    /\ phase \in [Req -> {"score", "table"}]
    /\ second \in [Req -> Second]
    /\ tc \in [Req -> Nat \ {0}]
    /\ pass \in [Req -> Nat]
    /\ rows \in [Req -> SUBSET TestNo]
    /\ child \in [Req -> Child \cup {None}]
    /\ hit \in [Req -> BOOLEAN]

\* The tests the first n - 1 rounds of the loop have got to and `code' passes.
Solved(code, p, n) ==
    {k \in 1 .. n - 1 : SameB(Prints[code][p][k], Expected[p][k])}

\* The last test the loop gets to, plus one.
Stop(p) == CHOOSE n \in 1 .. Total(p) + 1 :
              /\ 1 .. n - 1 \subseteq Tests[p]
              /\ n \notin Tests[p] \/ n = Total(p) + 1

(***************************************************************************)
(* The score written to submissions.txt is the score of the request's own  *)
(* program, unless another process wrote one of the shared /tmp files      *)
(* while this request depended on it.                                      *)
(***************************************************************************)
ScoreIsOwn ==
    \A k \in 1 .. Len(submissions) :
        LET s == submissions[k]
            code == job[s.req].code
        IN ~s.hit => s.pass = Cardinality(Solved(code, s.problem, Stop(s.problem)))

(***************************************************************************)
(* An undisturbed "Accepted" (pass = total) means that the program printed *)
(* the expected text for every .in file of the problem, those behind a gap *)
(* in the numbering included, and that there is at least one.              *)
(***************************************************************************)
AcceptedSolvesAll ==
    \A k \in 1 .. Len(submissions) :
        LET s == submissions[k] IN
        ~s.hit /\ s.pass = s.total =>
            /\ Tests[s.problem] # {}
            /\ \A n \in Tests[s.problem] :
                   SameB(Prints[job[s.req].code][s.problem][n], Expected[s.problem][n])

(***************************************************************************)
(* A completed, undisturbed page never shows FAIL for a test that counted  *)
(* towards the score it announces: the second round of runs, with the laxer*)
(* diff -w, confirms the first.                                            *)
(***************************************************************************)
TableConfirmsScore ==
    \A r \in Req :
        pc[r] = "done" /\ phase[r] = "table" /\ ~hit[r] =>
            LET p == job[r].problem IN Solved(job[r].code, p, Stop(p)) \subseteq rows[r]
(***************************************************************************)
(* A submission that the compiler gets through with, and whose program     *)
(* exits on every test, gets its verdict however long other programs and   *)
(* compilers go on, unless another process wrote one of its files (it may  *)
(* then be running somebody else's program).                               *)
(***************************************************************************)
VerdictComes ==
    \A r \in Req :
        (/\ Working(r)
         /\ Compiled(job[r].lang) => job[r].code \notin Endless
         /\ \A n \in TestNo : <<job[r].code, job[r].problem, n>> \notin Hangs)
            ~> (pc[r] \in {"done", "dead"} \/ hit[r])

-----------------------------------------------------------------------------
\* The inductive invariant that the three safety properties follow from.

\* Where a request can have a child, and which tests it can be at.
Control ==
    \A r \in Req :
        /\ pc[r] \in {"idle", "compile", "test", "done"} => child[r] = None
        /\ pc[r] \in {"link", "run"} /\ child[r] # None => child[r].op = pc[r]
        /\ pc[r] = "run" \/ (child[r] # None /\ child[r].op = "run")
               => tc[r] \in Tests[job[r].problem]

\* How far the loops are.
Rounds ==
    \A r \in Req :
        /\ pc[r] \in {"idle", "compile", "link"} =>
               phase[r] = "score" /\ tc[r] = 1 /\ pass[r] = 0
        /\ pc[r] \in {"compile", "link"} => Compiled(job[r].lang)
        /\ Working(r) =>
               /\ tc[r] <= Total(job[r].problem) + 1
               /\ 1 .. tc[r] - 1 \subseteq Tests[job[r].problem]
        /\ Working(r) /\ phase[r] = "score" => pass[r] < tc[r]
        /\ pc[r] = "run" => MoreTests(r)

\* An undisturbed request works with its own files and counts its own score.
OwnWork(r) ==
    LET code == job[r].code
        p == job[r].problem
    IN ~hit[r] =>
        /\ Needs(r, "src") => src[Key(r)] = code
        /\ pc[r] \in {"link", "run"} /\ child[r] # None => child[r].code = code
        /\ Needs(r, "prog") /\ ~(pc[r] = "link" /\ child[r] # None) => prog = code
        /\ pc[r] = "run" =>
               out = IF child[r] = None THEN Prints[code][p][tc[r]] ELSE Empty
        /\ Working(r) /\ phase[r] = "score" =>
               pass[r] = Cardinality(Solved(code, p, tc[r]))
        /\ Working(r) /\ phase[r] = "table" => Solved(code, p, tc[r]) \subseteq rows[r]

Own == \A r \in Req : OwnWork(r)

\* The lines of the results file have the right total, and the loop that led
\* to them ended at Stop.
Logged ==
    \A k \in 1 .. Len(submissions) :
        LET p == submissions[k].problem IN
        /\ submissions[k].total = Total(p)
        /\ Stop(p) \in 1 .. Total(p) + 1
        /\ 1 .. Stop(p) - 1 \subseteq Tests[p]

IInv == /\ TypeOK /\ Control /\ Rounds /\ Own /\ Logged
        /\ ScoreIsOwn /\ TableConfirmsScore

-----------------------------------------------------------------------------
\* The refinement: a request is disturbed when another process wrote one of
\* its files.

\* The score a submission deserves.
Deserves(j) == [pass  |-> Cardinality(Solved(j.code, j.problem, Stop(j.problem))),
                total |-> Total(j.problem)]

Status(r) ==
    CASE phase[r] = "table" -> "graded"
      [] pc[r] = "idle"     -> "idle"
      [] Working(r) /\ phase[r] = "score"     -> "taken"
      [] pc[r] = "done" /\ phase[r] = "score" -> "closed"
      [] pc[r] = "dead" /\ phase[r] = "score" -> "lost"

Abstract == INSTANCE Grading WITH
    Verdict   <- [pass : 0 .. MaxTests, total : 1 .. MaxTests],
    Right     <- Deserves,
    Faulty    <- LAMBDA j : Compiled(j.lang) /\ j.code \in Broken,
    status    <- [r \in Req |-> Status(r)],
    log       <- [k \in 1 .. Len(submissions) |->
                     [req |-> submissions[k].req,
                      verdict |-> [pass  |-> submissions[k].pass,
                                   total |-> submissions[k].total]]],
    disturbed <- {r \in Req : hit[r]}

\* A submission is entered at most once, with the score it deserves, and is
\* turned down only if it does not compile: unless it is disturbed.
ImplementsGrading == Abstract!Spec
=============================================================================
