------------------------------- MODULE Problems -------------------------------
(***************************************************************************)
(* The problem set: cgi-src/upload.c, delete_problem.c, what judge.c reads *)
(* of data/testdata, and the marks of list_problems.c.                     *)
(*                                                                         *)
(* A problem is a line of problems.txt, a directory with its statement and *)
(* one with its tests.  upload.c makes them one after the other,           *)
(* delete_problem.c takes them away one after the other, and judge.c reads *)
(* the tests one by one, all at once and without a lock.  Submissions also *)
(* share /tmp/prog and /tmp/out, which is the subject of Judge: here any   *)
(* result may come of a test while another submission is not kept apart.   *)
(***************************************************************************)
EXTENDS Lists, SequencesExt

CONSTANTS
    Req,       \* the requests
    User,      \* names found in session files
    Query,     \* what requests ask for
    Shipped,   \* how many problems the installation brings, from 1001 on ...
    ShippedCases,  \* ... and how many tests each of them has
    MaxCases,  \* 50 in upload.c
    None       \* no file, no directory, or no number

\* A problem is named after the request that uploaded it.
Author == Req \cup {"shipped"}

\* `cases': how many lines of the form have input||output.  `solves': the
\* tests the submitted program passes.
Upload     == [op : {"upload"}, user : User, cases : Nat]
Removal    == [op : {"delete"}, user : User, number : Nat]
Submission == [op : {"submit"}, user : User, number : Nat, solves : SUBSET (Author \X Nat)]

ASSUME ProblemsAssumption ==
    /\ Query \subseteq Upload \cup Removal \cup Submission
    /\ MaxCases \in Nat /\ Shipped \in Nat /\ ShippedCases \in 1 .. MaxCases
    /\ IsFiniteSet(Req)
    /\ None \notin Author \cup Nat \cup {"empty"} /\ "empty" \notin Author
    /\ "shipped" \notin Req

\* Every upload adds one to a number that is there, or to 1000.
Number   == 1001 .. 1000 + Shipped + Cardinality(Req)
TestFile == (1 .. MaxCases) \X {"in", "out"}

\* What there is in a directory of tests: whose each file is.
Dir == UNION {[F -> Author] : F \in SUBSET TestFile}

ASSUME DirAssumption == None \notin Dir

\* A line whose beginning was overwritten has no number.
Line == [id : Nat \cup {None}, by : Author]
Result == [user : User, number : Nat, pass : Nat, total : Nat, req : Req]

\* The file problems.txt refers to came with the installation or was created by
\* a deletion.
File == Author

VARIABLES
    content,      \* the contents of every file
    list,         \* the file problems.txt refers to
    copy,         \* the file problems.txt.tmp refers to
    testdata,     \* testdata[i]: whose test each file is, None without a directory
    statement,    \* statement[i]: whose title and description problem_data/i has,
                  \* "empty" without them, None without a directory
    submissions,  \* submissions.txt
    query,        \* the query string of each request
    pc,           \* where each request is
    number,       \* id in upload.c, pid in delete_problem.c, id in judge.c
    n,            \* case_num in upload.c, the number of the test in judge.c
    got,          \* whose input a test run reads
    total, pass,  \* in judge.c
    fd, text,     \* the copy a deletion has open, and what it is to contain
    todo,         \* the files a deletion still finds in the directory
    before        \* history: the requests that had ended when this one came

files == <<content, list, copy>>
dirs  == <<testdata, statement>>
score == <<got, total, pass>>
local == <<number, n, score, fd, text, todo>>
vars  == <<files, dirs, submissions, query, pc, local, before>>

Ended == {"refused", "done", "dead"}

-----------------------------------------------------------------------------
ShippedNumber == 1001 .. 1000 + Shipped

Init ==
    /\ content = [f \in File |->
           IF f = "shipped"
           THEN [k \in 1 .. Shipped |-> [id |-> 1000 + k, by |-> "shipped"]]
           ELSE <<>>]
    /\ list = "shipped"
    /\ copy = None
    /\ testdata = [i \in Number |->
           IF i \in ShippedNumber
           THEN [f \in (1 .. ShippedCases) \X {"in", "out"} |-> "shipped"] ELSE None]
    /\ statement = [i \in Number |-> IF i \in ShippedNumber THEN "shipped" ELSE None]
    /\ submissions = <<>>
    /\ query \in [Req -> Query]
    /\ pc = [r \in Req |-> "idle"]
    /\ number = [r \in Req |-> 0]
    /\ n = [r \in Req |-> 0]
    /\ got = [r \in Req |-> "shipped"]
    /\ total = [r \in Req |-> 1]
    /\ pass = [r \in Req |-> 0]
    /\ fd = [r \in Req |-> "shipped"]
    /\ text = [r \in Req |-> <<>>]
    /\ todo = [r \in Req |-> {}]
    /\ before = [r \in Req |-> {}]

Arrive(r) ==
    /\ pc[r] = "idle"
    /\ before' = [before EXCEPT ![r] = {q \in Req : pc[q] \in Ended}]

Go(r, where) == pc' = [pc EXCEPT ![r] = where]

\* No session, no title, not an administrator, no code.
Refuse(r) ==
    /\ Arrive(r)
    /\ Go(r, "refused")
    /\ UNCHANGED <<files, dirs, submissions, query, local>>

-----------------------------------------------------------------------------
\* upload.c

\* Mutant: the number of lines plus one.
ReadLastCount(r) ==
    /\ query[r].op = "upload"
    /\ Arrive(r)
    /\ number' = [number EXCEPT ![r] = 1000 + Len(content[list]) + 1]
    /\ Go(r, "numbered")
    /\ UNCHANGED <<files, dirs, submissions, query, n, score, fd, text, todo>>

\* tail -1 problems.txt | cut: one more than the number of the last line.
ReadLast(r) ==
    LET lines == content[list] IN
    /\ query[r].op = "upload"
    /\ Arrive(r)
    /\ number' = [number EXCEPT ![r] =
           (IF lines = <<>> \/ Last(lines).id = None THEN 1000 ELSE Last(lines).id) + 1]
    /\ Go(r, "numbered")
    /\ UNCHANGED <<files, dirs, submissions, query, n, score, fd, text, todo>>

AppendLine(r) ==
    /\ pc[r] = "numbered"
    /\ content' = [content EXCEPT ![list] = Append(@, [id |-> number[r], by |-> r])]
    /\ Go(r, "listed")
    /\ UNCHANGED <<list, copy, dirs, submissions, query, local, before>>

\* mkdir -p
MakeDirs(r) ==
    LET i == number[r] IN
    /\ pc[r] = "listed"
    /\ testdata' = [testdata EXCEPT ![i] = IF @ = None THEN [f \in {} |-> r] ELSE @]
    /\ statement' = [statement EXCEPT ![i] = IF @ = None THEN "empty" ELSE @]
    /\ Go(r, "made")
    /\ UNCHANGED <<files, submissions, query, local, before>>

\* title.txt and desc.txt
WriteStatement(r) ==
    /\ pc[r] = "made"
    /\ statement' = [statement EXCEPT ![number[r]] = IF @ = None THEN None ELSE r]
    /\ n' = [n EXCEPT ![r] = 1]
    /\ Go(r, "input")
    /\ UNCHANGED <<files, testdata, submissions, query, number, score, fd, text, todo, before>>

\* File f in the directory; the shell cannot write it if the directory is gone.
WithFile(dir, f, r) == IF dir = None THEN None ELSE
    [g \in DOMAIN dir \cup {f} |-> IF g = f THEN r ELSE dir[g]]

MoreCases(r) == n[r] <= query[r].cases /\ n[r] <= MaxCases

WriteInput(r) ==
    /\ pc[r] = "input"
    /\ MoreCases(r)
    /\ testdata' = [testdata EXCEPT ![number[r]] = WithFile(@, <<n[r], "in">>, r)]
    /\ Go(r, "output")
    /\ UNCHANGED <<files, statement, submissions, query, local, before>>

WriteOutput(r) ==
    /\ pc[r] = "output"
    /\ testdata' = [testdata EXCEPT ![number[r]] = WithFile(@, <<n[r], "out">>, r)]
    /\ n' = [n EXCEPT ![r] = @ + 1]
    /\ Go(r, "input")
    /\ UNCHANGED <<files, statement, submissions, query, number, score, fd, text, todo, before>>

\* "Upload Success!"
UploadEnd(r) ==
    /\ pc[r] = "input"
    /\ ~MoreCases(r)
    /\ Go(r, "done")
    /\ UNCHANGED <<files, dirs, submissions, query, local, before>>

-----------------------------------------------------------------------------
\* delete_problem.c

HasNumber(lines, i) == \E k \in DOMAIN lines : lines[k].id = i

\* Mutant: the loop ends where the line is found.
UpTo(lines, i) ==
    IF HasNumber(lines, i)
    THEN SubSeq(lines, 1, (CHOOSE k \in DOMAIN lines :
             lines[k].id = i /\ \A h \in 1 .. k - 1 : lines[h].id # i) - 1)
    ELSE lines

Without(lines, i) == Keep(lines, {k \in DOMAIN lines : lines[k].id # i})

\* It opens both files and reads problems.txt.
ReadList(r) ==
    LET i == query[r].number
        f == IF copy = None THEN r ELSE copy
    IN
    /\ query[r].op = "delete"
    /\ i \in Number
    /\ Arrive(r)
    /\ number' = [number EXCEPT ![r] = i]
    /\ copy' = f
    /\ fd' = [fd EXCEPT ![r] = f]
    /\ text' = [text EXCEPT ![r] = Without(content[list], i)]
    /\ content' = [content EXCEPT ![f] = <<>>]
    /\ Go(r, IF HasNumber(content[list], i) THEN "copying" ELSE "vain")
    /\ UNCHANGED <<list, dirs, submissions, query, n, score, todo>>

\* If another request has written into the same file, the end of what it wrote
\* may stay, with its first line torn.
Overwritten(f, lines) ==
    LET was == content[f]
        torn(k) == [was[k] EXCEPT !.id = None]
    IN {lines}
       \cup {lines \o SubSeq(was, k, Len(was)) : k \in DOMAIN was}
       \cup {lines \o <<torn(k)>> \o SubSeq(was, k + 1, Len(was)) : k \in DOMAIN was}

\* fclose
WriteCopy(r) ==
    /\ pc[r] \in {"copying", "vain"}
    /\ \E lines \in Overwritten(fd[r], text[r]) :
          content' = [content EXCEPT ![fd[r]] = lines]
    /\ Go(r, IF pc[r] = "copying" THEN "moving" ELSE "unfound")
    /\ UNCHANGED <<list, copy, dirs, submissions, query, local, before>>

\* "Problem not found"
RemoveCopy(r) ==
    /\ pc[r] = "unfound"
    /\ copy' = None
    /\ Go(r, "refused")
    /\ UNCHANGED <<content, list, dirs, submissions, query, local, before>>

\* rename; nothing happens if another request has moved the copy away.
MoveCopy(r) ==
    /\ pc[r] = "moving"
    /\ IF copy = None THEN UNCHANGED <<list, copy>>
       ELSE list' = copy /\ copy' = None
    /\ Go(r, "moved")
    /\ UNCHANGED <<content, dirs, submissions, query, local, before>>

\* remove_directory opens the directory of the tests; what is written later it
\* does not find.
OpenDir(r) ==
    LET dir == testdata[number[r]] IN
    /\ pc[r] = "moved"
    /\ todo' = [todo EXCEPT ![r] = IF dir = None THEN {} ELSE DOMAIN dir]
    /\ Go(r, "removing")
    /\ UNCHANGED <<files, dirs, submissions, query, number, n, score, fd, text, before>>

RemoveTest(r) ==
    LET i == number[r] IN
    /\ pc[r] = "removing"
    /\ \E f \in todo[r] :
          /\ todo' = [todo EXCEPT ![r] = @ \ {f}]
          /\ testdata' = [testdata EXCEPT ![i] =
                 IF @ = None THEN None ELSE [g \in DOMAIN @ \ {f} |-> @[g]]]
    /\ UNCHANGED <<files, statement, submissions, query, pc, number, n, score, fd, text, before>>

\* rmdir, which fails if something is left.
RemoveDir(r) ==
    LET i == number[r] IN
    /\ pc[r] = "removing"
    /\ todo[r] = {}
    /\ testdata' = [testdata EXCEPT ![i] =
           IF @ = None \/ DOMAIN @ = {} THEN None ELSE @]
    /\ Go(r, "emptied")
    /\ UNCHANGED <<files, statement, submissions, query, local, before>>

\* The same for the statement.
RemoveStatement(r) ==
    /\ pc[r] = "emptied"
    /\ statement' = [statement EXCEPT ![number[r]] = None]
    /\ Go(r, "done")
    /\ UNCHANGED <<files, testdata, submissions, query, local, before>>

-----------------------------------------------------------------------------
\* judge.c, as far as it reads the tests

\* The text is saved and given to the compiler.
Compile(r) ==
    LET i == query[r].number IN
    /\ query[r].op = "submit"
    /\ i \in Number
    /\ Arrive(r)
    /\ number' = [number EXCEPT ![r] = i]
    /\ Go(r, "compiling")
    /\ UNCHANGED <<files, dirs, submissions, query, n, score, fd, text, todo>>

\* "Compile Error"
CompileError(r) ==
    /\ pc[r] = "compiling"
    /\ Go(r, "done")
    /\ UNCHANGED <<files, dirs, submissions, query, local, before>>

\* count_tc, after the program has been compiled.
Count(r) ==
    LET dir == testdata[number[r]]
        inputs == IF dir = None THEN {} ELSE {f \in DOMAIN dir : f[2] = "in"}
    IN
    /\ pc[r] = "compiling"
    /\ n' = [n EXCEPT ![r] = 1]
    /\ total' = [total EXCEPT ![r] = IF inputs = {} THEN 1 ELSE Cardinality(inputs)]
    /\ Go(r, "judging")
    /\ UNCHANGED <<files, dirs, submissions, query, number, got, pass, fd, text, todo, before>>

HasFile(i, f) == testdata[i] # None /\ f \in DOMAIN testdata[i]

\* There is an input with the next number: the program reads it.
ReadInput(r) ==
    LET f == <<n[r], "in">> IN
    /\ pc[r] = "judging"
    /\ n[r] <= total[r]
    /\ HasFile(number[r], f)
    /\ got' = [got EXCEPT ![r] = testdata[number[r]][f]]
    /\ Go(r, "comparing")
    /\ UNCHANGED <<files, dirs, submissions, query, number, n, total, pass, fd, text, todo, before>>

\* Another submission may have put its own program or output where r's belong: one
\* that had not ended when r came, or whose program goes on without it.
Shared(r) == \E q \in Req \ {r} :
    /\ query[q].op = "submit" /\ pc[q] \notin {"idle", "refused"}
    /\ q \notin before[r] \/ pc[q] = "dead"

\* diff compares what the program printed, if that is what is in /tmp/out, with the
\* expected output, if there is one.
ReadOutput(r) ==
    LET f == <<n[r], "out">>
        own == testdata[number[r]][f] = got[r] /\ <<got[r], n[r]>> \in query[r].solves
    IN
    /\ pc[r] = "comparing"
    /\ \E passed \in IF ~HasFile(number[r], f) THEN {FALSE}
                      ELSE IF Shared(r) THEN BOOLEAN ELSE {own} :
          pass' = [pass EXCEPT ![r] = IF passed THEN @ + 1 ELSE @]
    /\ n' = [n EXCEPT ![r] = @ + 1]
    /\ Go(r, "judging")
    /\ UNCHANGED <<files, dirs, submissions, query, number, got, total, fd, text, todo, before>>

Score(r) ==
    /\ pc[r] = "judging"
    /\ ~(n[r] <= total[r] /\ HasFile(number[r], <<n[r], "in">>))
    /\ submissions' = Append(submissions,
           [user |-> query[r].user, number |-> number[r],
            pass |-> pass[r], total |-> total[r], req |-> r])
    /\ Go(r, "showing")
    /\ UNCHANGED <<files, dirs, query, local, before>>

\* Every test is run once more, for the table; the tests are read but nothing comes of it.
ShowTable(r) ==
    /\ pc[r] = "showing"
    /\ Go(r, "done")
    /\ UNCHANGED <<files, dirs, submissions, query, local, before>>

\* httpd stops a script that runs too long.
Kill(r) ==
    /\ pc[r] \notin Ended \cup {"idle"}
    /\ Go(r, "dead")
    /\ UNCHANGED <<files, dirs, submissions, query, local, before>>

Step(r) ==
    \/ Refuse(r)
    \/ ReadLast(r) \/ AppendLine(r) \/ MakeDirs(r) \/ WriteStatement(r)
    \/ WriteInput(r) \/ WriteOutput(r) \/ UploadEnd(r)
    \/ ReadList(r) \/ WriteCopy(r) \/ RemoveCopy(r) \/ MoveCopy(r)
    \/ OpenDir(r) \/ RemoveTest(r) \/ RemoveDir(r) \/ RemoveStatement(r)
    \/ Compile(r) \/ CompileError(r) \/ Count(r) \/ ReadInput(r) \/ ReadOutput(r)
    \/ Score(r) \/ ShowTable(r)
    \/ Kill(r)

Next == \E r \in Req : Step(r)

Spec == Init /\ [][Next]_vars

-----------------------------------------------------------------------------
\* list_problems.c

\* Mutant: any test will do.
MarkPartly(i, u) == \E k \in DOMAIN submissions :
    /\ submissions[k].number = i
    /\ submissions[k].user = u
    /\ submissions[k].pass > 0

\* user_ac: the problem is marked AC for user u.
Mark(i, u) == \E k \in DOMAIN submissions :
    /\ submissions[k].number = i
    /\ submissions[k].user = u
    /\ submissions[k].pass = submissions[k].total

-----------------------------------------------------------------------------
TypeOK ==
    /\ content \in [File -> Seq(Line)]
    /\ list \in File
    /\ copy \in File \cup {None}
    /\ testdata \in [Number -> Dir \cup {None}]
    /\ statement \in [Number -> Author \cup {"empty", None}]
    /\ submissions \in Seq(Result)
    /\ query \in [Req -> Query]
    /\ pc \in [Req -> {"idle", "numbered", "listed", "made", "input", "output", "copying",
                       "vain", "moving", "unfound", "moved", "removing", "emptied",
                       "compiling", "judging", "comparing", "showing"} \cup Ended]
    /\ number \in [Req -> Number \cup {0}]
    /\ n \in [Req -> 0 .. MaxCases + 1]
    /\ got \in [Req -> Author]
    /\ total \in [Req -> Nat \ {0}]
    /\ pass \in [Req -> Nat]
    /\ fd \in [Req -> File]
    /\ text \in [Req -> Seq(Line)]
    /\ todo \in [Req -> SUBSET TestFile]
    /\ before \in [Req -> SUBSET Req]

Arrived(r) == pc[r] # "idle"

\* One of the requests had ended when the other came.
Apart(q, r) == q \in before[r] \/ r \in before[q]
ApartFrom(r, others) == \A q \in others \ {r} : Arrived(q) => Apart(q, r)

Changing  == {r \in Req : query[r].op \in {"upload", "delete"}}
Deletions(i) == {r \in Req : query[r].op = "delete" /\ query[r].number = i /\ Arrived(r)}

\* Nothing that changes the problem set overlapped with another change, or was
\* killed half way.
Orderly == \A r \in Changing : Arrived(r) => pc[r] # "dead" /\ ApartFrom(r, Changing)

\* What an author's problem consists of.
TestsOf(a) == 1 .. (IF a = "shipped" THEN ShippedCases
                    ELSE IF query[a].cases < MaxCases THEN query[a].cases ELSE MaxCases)

Whole(i, a) ==
    /\ testdata[i] = [f \in TestsOf(a) \X {"in", "out"} |-> a]
    /\ statement[i] = a

(***************************************************************************)
(* Two problems have the same number only if uploads or deletions          *)
(* overlapped: numbers come from the last line (upload.c:72), and a kill   *)
(* between the steps does not matter.                                      *)
(***************************************************************************)
NumbersUnique ==
    (\A r \in Changing : Arrived(r) => ApartFrom(r, Changing)) =>
        \A j, k \in DOMAIN content[list] :
            j # k => content[list][j].id # content[list][k].id

(***************************************************************************)
(* A problem whose upload was confirmed ("Upload Success!") is listed, and *)
(* has its own statement and tests and nobody else's, even under a number  *)
(* that was in use before, until it is deleted; unless uploads or          *)
(* deletions overlapped or were killed.                                    *)
(***************************************************************************)
UploadStays ==
    Orderly =>
        \A r \in Changing :
            /\ query[r].op = "upload" /\ pc[r] = "done"
            /\ \A q \in Deletions(number[r]) : q \in before[r]
            => /\ \E k \in DOMAIN content[list] :
                     content[list][k] = [id |-> number[r], by |-> r]
               /\ Whole(number[r], r)

(***************************************************************************)
(* Of a problem whose deletion was confirmed ("deleted successfully")      *)
(* nothing is left, and nothing comes back: neither the line nor a test    *)
(* nor the statement, unless the deletion overlapped with another change.  *)
(***************************************************************************)
DeletedIsGone ==
    \A r \in Req :
        /\ query[r].op = "delete" /\ pc[r] = "done"
        /\ ApartFrom(r, Changing)
        => LET i == number[r]
               old == before[r] \cup {"shipped"}
           IN /\ \A k \in DOMAIN content[list] :
                    content[list][k].id = i => content[list][k].by \notin old
              /\ testdata[i] # None =>
                    \A f \in DOMAIN testdata[i] : testdata[i][f] \notin old
              /\ statement[i] \notin old

(***************************************************************************)
(* What an administrator was told lasts: an upload until the problem is    *)
(* deleted (upload.c), a deletion for good (delete_problem.c).             *)
(***************************************************************************)
ProblemsLast == UploadStays /\ DeletedIsGone

\* No other submission was under way with r, and none that came before was killed:
\* its program would go on.
Lone(r) == \A q \in Req \ {r} :
    Arrived(r) /\ query[q].op = "submit" /\ pc[q] \notin {"idle", "refused"} =>
        (q \in before[r] /\ pc[q] # "dead") \/ r \in before[q]

(***************************************************************************)
(* A problem is marked AC only for those whose program passed all tests of *)
(* this problem, unless a submission of theirs to it overlapped with other *)
(* submissions (they share /tmp/prog and /tmp/out) or followed a killed    *)
(* one, or changes of the problem set were killed or overlapped with       *)
(* anything, or the number was that of another problem before              *)
(* (judge.c:104-119, list_problems.c:9-32).                                *)
(***************************************************************************)
MarkIsEarned ==
    /\ Orderly
    /\ \A r \in Req : Arrived(r) => ApartFrom(r, Changing)
    => \A k \in DOMAIN content[list], u \in User :
          LET line == content[list][k] IN
          /\ Mark(line.id, u) /\ Deletions(line.id) = {}
          /\ \A s \in DOMAIN submissions :
                submissions[s].user = u /\ submissions[s].number = line.id =>
                    Lone(submissions[s].req)
          =>  \E s \in DOMAIN submissions :
                  /\ submissions[s].user = u
                  /\ submissions[s].number = line.id
                  /\ TestsOf(line.by) # {}
                  /\ \A t \in TestsOf(line.by) :
                        <<line.by, t>> \in query[submissions[s].req].solves
-----------------------------------------------------------------------------
\* An inductive invariant, from which NumbersUnique, ProblemsLast and MarkIsEarned
\* follow.

\* No change overlapped with another one.
InTurn == \A r \in Changing : Arrived(r) => ApartFrom(r, Changing)

\* The steps of an upload, of a deletion up to its rename and behind it, and of a
\* submission.
Making   == {"numbered", "listed", "made", "input", "output"}
Copying  == {"copying", "vain", "moving", "unfound"}
Removing == {"moved", "removing", "emptied"}
Judging  == {"judging", "comparing"}

Past == \A r \in Req : before[r] \subseteq {q \in Req : pc[q] \in Ended}

\* What a request that is under way asks for, for which number, and which test it is at.
Control ==
    \A r \in Req :
        /\ pc[r] \in Making => query[r].op = "upload"
        /\ pc[r] \in Copying \cup Removing => query[r].op = "delete"
        /\ pc[r] \in Judging \cup {"compiling", "showing"} => query[r].op = "submit"
        /\ pc[r] = "idle" => number[r] = 0
        /\ pc[r] \notin {"idle", "refused"} => number[r] \in Number
        /\ pc[r] \notin {"idle", "refused"} /\ query[r].op # "upload" =>
              number[r] = query[r].number
        /\ pc[r] \in {"idle", "compiling"} => pass[r] = 0
        /\ pc[r] \in {"input", "judging"} => n[r] # 0
        /\ pc[r] \in {"output", "comparing"} => n[r] \in 1 .. MaxCases

\* No number is left out.
Dense ==
    \A r \in Req : query[r].op = "upload" =>
        \A m \in 1001 + Shipped .. number[r] :
            \E q \in Req : query[q].op = "upload" /\ number[q] = m

\* A line has the number of the problem it is about, or was torn.
IsLine(l) ==
    /\ l.by = "shipped" => l.id \in ShippedNumber \cup {None}
    /\ l.by # "shipped" =>
          /\ query[l.by].op = "upload" /\ pc[l.by] \notin {"idle", "refused", "numbered"}
          /\ l.id \in {number[l.by], None}

LinesOwn ==
    /\ \A f \in File : \A k \in DOMAIN content[f] : IsLine(content[f][k])
    /\ \A r \in Req : \A k \in DOMAIN text[r] : IsLine(text[r][k])

\* A file is named after the request that created it, and is not yet there when that
\* comes; problems.txt and its copy are two files.
FilesNew ==
    /\ copy # list
    /\ \A r \in Req : pc[r] = "idle" =>
          r # list /\ r # copy /\ \A q \in Req : fd[q] # r

\* What a deletion is about to rename, while no other change is under way.
CopyAtWork ==
    \A r \in Req : pc[r] \in Copying /\ ApartFrom(r, Changing) =>
        /\ copy = fd[r]
        /\ text[r] = Without(content[list], number[r])
        /\ pc[r] \in {"copying", "vain"} => content[copy] = <<>>
        /\ pc[r] = "moving" => content[copy] = text[r]

\* Numbers ascend, and one that an upload is about to use is larger than all of them.
Ascending ==
    InTurn =>
        /\ \A k \in DOMAIN content[list] : content[list][k].id # None
        /\ \A j, k \in DOMAIN content[list] : j < k => content[list][j].id < content[list][k].id
        /\ \A r \in Req : pc[r] = "numbered" =>
              \A k \in DOMAIN content[list] : content[list][k].id < number[r]

\* The files that are, or may become, problems.txt, and what is to be written into them.
Live == ({list, copy} \ {None}) \cup {fd[q] : q \in {q \in Req : pc[q] \in Copying}}

IsOld(l, d) == l.id = number[d] /\ l.by \in before[d] \cup {"shipped"}

NoOldLine(d) ==
    /\ \A f \in Live : \A k \in DOMAIN content[f] : ~IsOld(content[f][k], d)
    /\ \A q \in Req : pc[q] \in Copying => \A k \in DOMAIN text[q] : ~IsOld(text[q][k], d)

\* DeletedIsGone, step by step.
LinesGone ==
    \A d \in Req :
        /\ query[d].op = "delete" /\ pc[d] \in Removing \cup {"done"}
        /\ ApartFrom(d, Changing)
        => NoOldLine(d)

TestsGone ==
    \A d \in Req :
        query[d].op = "delete" /\ ApartFrom(d, Changing) =>
            LET i == number[d]
                old == before[d] \cup {"shipped"}
            IN /\ pc[d] = "removing" /\ testdata[i] # None =>
                     DOMAIN testdata[i] \subseteq todo[d]
               /\ pc[d] = "emptied" => testdata[i] = None
               /\ pc[d] = "done" =>
                     /\ testdata[i] # None =>
                           \A f \in DOMAIN testdata[i] : testdata[i][f] \notin old
                     /\ statement[i] \notin old

\* Where there are files there is a line, or a deletion that is not through.
PlacesFree ==
    Orderly =>
        \A i \in Number : testdata[i] # None \/ statement[i] # None =>
            \/ \E k \in DOMAIN content[list] : content[list][k].id = i
            \/ \E d \in Req : pc[d] \in Removing /\ number[d] = i

\* What an upload has made so far.
BeingMade ==
    Orderly =>
        \A r \in Req :
            LET i == number[r]
                dir == testdata[i]
            IN /\ pc[r] \in {"numbered", "listed"} => dir = None /\ statement[i] = None
               /\ pc[r] = "made" => dir = [f \in {} |-> r] /\ statement[i] = "empty"
               /\ pc[r] \in {"input", "output"} =>
                     1 .. n[r] - 1 \subseteq TestsOf(r) /\ statement[i] = r
               /\ pc[r] = "input" => dir = [f \in (1 .. n[r] - 1) \X {"in", "out"} |-> r]
               /\ pc[r] = "output" =>
                     /\ n[r] \in TestsOf(r)
                     /\ dir = [f \in ((1 .. n[r] - 1) \X {"in", "out"}) \cup {<<n[r], "in">>} |-> r]

\* A line stays until somebody deletes its number, ...
UploadLines ==
    Orderly =>
        \A r \in Req :
            /\ query[r].op = "upload" /\ pc[r] \in {"listed", "made", "input", "output", "done"}
            /\ \A q \in Deletions(number[r]) : q \in before[r]
            => \E k \in DOMAIN content[list] : content[list][k] = [id |-> number[r], by |-> r]

\* ... and as long as it is there, so is the rest of the problem.
WholeLines ==
    Orderly =>
        \A k \in DOMAIN content[list] :
            LET l == content[list][k] IN
            (IF l.by = "shipped" THEN TRUE ELSE pc[l.by] = "done") => Whole(l.id, l.by)

Undisturbed == Orderly /\ \A r \in Req : Arrived(r) => ApartFrom(r, Changing)

\* How far a submission is with the tests of its problem.
Judged ==
    Undisturbed =>
        \A r \in Req : pc[r] \in Judging /\ Deletions(number[r]) = {} =>
            /\ (\A k \in DOMAIN content[list] : content[list][k].id # number[r]) =>
                  pc[r] = "judging" /\ n[r] = 1 /\ total[r] = 1 /\ pass[r] = 0
            /\ \A k \in DOMAIN content[list] : content[list][k].id = number[r] =>
                  LET a == content[list][k].by IN
                  /\ total[r] = IF TestsOf(a) = {} THEN 1 ELSE Cardinality(TestsOf(a))
                  /\ pc[r] = "comparing" => n[r] \in TestsOf(a) /\ got[r] = a
                  /\ 1 .. n[r] - 1 \subseteq TestsOf(a)
                  /\ pass[r] < n[r]
                  /\ Lone(r) /\ pass[r] = n[r] - 1 =>
                        \A t \in 1 .. n[r] - 1 : <<a, t>> \in query[r].solves

\* A full count was earned with the tests of the problem that has the number now.
Earned ==
    Undisturbed =>
        \A s \in DOMAIN submissions :
            LET result == submissions[s] IN
            /\ result.pass = result.total /\ Deletions(result.number) = {}
            /\ Lone(result.req)
            =>  \E k \in DOMAIN content[list] :
                    LET a == content[list][k].by IN
                    /\ content[list][k].id = result.number
                    /\ TestsOf(a) # {}
                    /\ \A t \in TestsOf(a) : <<a, t>> \in query[result.req].solves

IInv ==
    /\ TypeOK /\ Past /\ Control /\ Dense /\ LinesOwn /\ FilesNew
    /\ CopyAtWork /\ Ascending
    /\ LinesGone /\ TestsGone
    /\ PlacesFree /\ BeingMade /\ UploadLines /\ WholeLines
    /\ Judged /\ Earned
=============================================================================
