---------------------------- MODULE JudgeProofs -----------------------------
(***************************************************************************)
(* Proofs about Judge: for any number of requests, problems and tests,     *)
(* whatever the programs print, and with or without killed requests.       *)
(***************************************************************************)
EXTENDS Judge, FiniteSetTheorems, SequenceTheorems, TLAPS

-----------------------------------------------------------------------------
(* Counting tests.                                                         *)

LEMMA TestsFinite ==
    ASSUME NEW p \in Problem
    PROVE  IsFiniteSet(Tests[p]) /\ Tests[p] \in SUBSET TestNo
<1>1. Tests[p] \in SUBSET TestNo
  BY ProgramsAssumption
<1>2. IsFiniteSet(TestNo)
  BY ProgramsAssumption, FS_Interval DEF TestNo
<1>3. QED
  BY <1>1, <1>2, FS_Subset

LEMMA TotalType ==
    ASSUME NEW p \in Problem
    PROVE  Total(p) \in Nat \ {0}
<1>1. CASE Tests[p] = {}
  BY <1>1 DEF Total
<1>2. CASE Tests[p] # {}
  BY <1>2, TestsFinite, FS_CardinalityType, FS_EmptySet DEF Total
<1>3. QED
  BY <1>1, <1>2

LEMMA SolvedFinite ==
    ASSUME NEW c, NEW p, NEW n \in Nat
    PROVE  IsFiniteSet(Solved(c, p, n)) /\ Cardinality(Solved(c, p, n)) \in Nat
<1>1. IsFiniteSet(1 .. n - 1)
  BY FS_Interval
<1>2. Solved(c, p, n) \in SUBSET (1 .. n - 1)
  BY DEF Solved
<1>3. QED
  BY <1>1, <1>2, FS_Subset, FS_CardinalityType

\* One more round of the loop: the score grows by one iff the test is passed.
LEMMA SolvedNext ==
    ASSUME NEW c, NEW p, NEW n \in Nat \ {0}
    PROVE  LET same == SameB(Prints[c][p][n], Expected[p][n]) IN
           /\ Solved(c, p, n + 1) = Solved(c, p, n) \cup (IF same THEN {n} ELSE {})
           /\ Cardinality(Solved(c, p, n + 1)) =
                  Cardinality(Solved(c, p, n)) + (IF same THEN 1 ELSE 0)
<1> DEFINE same == SameB(Prints[c][p][n], Expected[p][n])
<1>1. (1 .. (n + 1) - 1) = (1 .. n - 1) \cup {n}
  OBVIOUS
<1>2. Solved(c, p, n + 1) = Solved(c, p, n) \cup (IF same THEN {n} ELSE {})
  BY <1>1 DEF Solved
<1>3. n \notin Solved(c, p, n)
  <2>1. Solved(c, p, n) \subseteq 1 .. n - 1
    BY DEF Solved
  <2>2. QED
    BY <2>1
<1>4. Cardinality(Solved(c, p, n + 1)) =
          Cardinality(Solved(c, p, n)) + (IF same THEN 1 ELSE 0)
  <2> HIDE DEF same
  <2>1. IsFiniteSet(Solved(c, p, n)) /\ Cardinality(Solved(c, p, n)) \in Nat
    BY SolvedFinite
  <2>2. CASE same
    <3>1. Solved(c, p, n + 1) = Solved(c, p, n) \cup {n}
      BY <1>2, <2>2
    <3>2. QED
      BY <1>3, <2>1, <2>2, <3>1, FS_AddElement
  <2>3. CASE ~same
    <3>1. Solved(c, p, n + 1) = Solved(c, p, n)
      BY <1>2, <2>3
    <3>2. QED
      BY <2>1, <2>3, <3>1
  <2>4. QED
    BY <2>2, <2>3
<1>5. QED
  BY <1>2, <1>4

LEMMA SolvedFirst ==
    ASSUME NEW c, NEW p
    PROVE  Solved(c, p, 1) = {} /\ Cardinality(Solved(c, p, 1)) = 0
BY FS_EmptySet DEF Solved

\* The loops end at test Stop(p).
LEMMA StopIs ==
    ASSUME NEW p \in Problem, NEW n \in Nat \ {0},
           n <= Total(p) + 1, 1 .. n - 1 \subseteq Tests[p],
           ~(n <= Total(p) /\ n \in Tests[p])
    PROVE  Stop(p) = n
<1> DEFINE Last(m) == /\ 1 .. m - 1 \subseteq Tests[p]
                      /\ m \notin Tests[p] \/ m = Total(p) + 1
<1>1. n \in 1 .. Total(p) + 1 /\ Last(n)
  BY TotalType
<1>2. ASSUME NEW m \in 1 .. Total(p) + 1, Last(m)
      PROVE  m = n
  <2>1. CASE m < n
    BY <1>1, <1>2, <2>1, TotalType
  <2>2. CASE n < m
    BY <1>1, <1>2, <2>2, TotalType
  <2>3. QED
    BY <2>1, <2>2, TotalType
<1>3. QED
  BY <1>1, <1>2 DEF Stop

\* A full score means that all the tests are passed and that there are some.
LEMMA FullScore ==
    ASSUME NEW c, NEW p \in Problem, NEW n \in Nat \ {0},
           n <= Total(p) + 1, 1 .. n - 1 \subseteq Tests[p],
           Cardinality(Solved(c, p, n)) = Total(p)
    PROVE  Tests[p] # {} /\ Solved(c, p, n) = Tests[p]
<1>1. Solved(c, p, n) \in SUBSET Tests[p]
  BY DEF Solved
<1>2. Tests[p] # {}
  <2>1. SUFFICES ASSUME Tests[p] = {} PROVE FALSE
    OBVIOUS
  <2>2. Solved(c, p, n) = {}
    BY <1>1, <2>1
  <2>3. QED
    BY <2>2, FS_EmptySet, TotalType
<1>3. Total(p) = Cardinality(Tests[p])
  BY <1>2 DEF Total
<1>4. QED
  BY <1>1, <1>2, <1>3, TestsFinite, FS_Subset
-----------------------------------------------------------------------------
(* Types, children and tests.                                              *)

LEMMA RanType ==
    ASSUME NEW c \in Code \cup {None}, NEW p \in Problem, NEW n \in Tests[p]
    PROVE  Ran(c, p, n) \in File
BY ProgramsAssumption DEF Ran, File

LEMMA KeyType ==
    ASSUME TypeOK, NEW r \in Req
    PROVE  Key(r) \in SrcKey /\ src[Key(r)] \in Code \cup {None}
BY DEF TypeOK, Key, SrcKey, Job

LEMMA NextCases ==
    ASSUME [Next]_vars
    PROVE  \/ UNCHANGED vars
           \/ Tick
           \/ \E r \in Req : \/ Refuse(r) \/ SaveCode(r) \/ CompileError(r)
                             \/ CompileBegin(r) \/ LinkEnd(r) \/ CompileReturn(r)
                             \/ StartRun(r) \/ FinishRun(r) \/ CompareScore(r)
                             \/ CompareRow(r) \/ RecordScore(r) \/ Reply(r) \/ Kill(r)
BY DEF Next, Step

LEMMA TypeInit == Init => TypeOK /\ Control
BY JudgeAssumption, ProgramsAssumption
   DEF Init, TypeOK, Control, Second, Child, File

LEMMA TypeStep == TypeOK /\ Control /\ [Next]_vars => TypeOK'
<1> SUFFICES ASSUME TypeOK, Control, [Next]_vars PROVE TypeOK'
  OBVIOUS
<1> USE DEF TypeOK
<1>1. CASE UNCHANGED vars
  BY <1>1 DEF vars, files, local
<1>2. CASE Tick
  BY <1>2, JudgeAssumption DEF Tick, files, local, Second
<1>3. ASSUME NEW r \in Req, Refuse(r) PROVE TypeOK'
  BY <1>3 DEF Refuse, files, local
<1>4. ASSUME NEW r \in Req, SaveCode(r) PROVE TypeOK'
  <2>1. job[r].code \in Code /\ job[r].problem \in Problem /\ job[r].lang \in Lang
    BY DEF Job
  <2>2. src' \in [SrcKey -> Code \cup {None}]
    BY <1>4, <2>1 DEF SaveCode, SrcKey
  <2>3. hit' \in [Req -> BOOLEAN]
    BY <1>4 DEF SaveCode, TouchSrc
  <2>4. QED
    BY <1>4, <2>2, <2>3 DEF SaveCode
<1>5. ASSUME NEW r \in Req, CompileError(r) PROVE TypeOK'
  BY <1>5 DEF CompileError, files, local
<1>6. ASSUME NEW r \in Req, CompileBegin(r) PROVE TypeOK'
  <2>1. [op |-> "link", code |-> src[Key(r)]] \in Child
    BY KeyType DEF Child
  <2>2. hit' \in [Req -> BOOLEAN]
    BY <1>6 DEF CompileBegin, Touch
  <2>3. QED
    BY <1>6, <2>1, <2>2 DEF CompileBegin, local
<1>7. ASSUME NEW r \in Req, LinkEnd(r) PROVE TypeOK'
  <2>1. child[r].code \in Code \cup {None}
    BY <1>7 DEF LinkEnd, Child
  <2>2. hit' \in [Req -> BOOLEAN]
    BY <1>7 DEF LinkEnd, Touch
  <2>3. QED
    BY <1>7, <2>1, <2>2 DEF LinkEnd, local
<1>8. ASSUME NEW r \in Req, CompileReturn(r) PROVE TypeOK'
  BY <1>8 DEF CompileReturn, files, local
<1>9. ASSUME NEW r \in Req, StartRun(r) PROVE TypeOK'
  <2>1. [op |-> "run", code |-> IF Compiled(job[r].lang) THEN prog ELSE src[Key(r)]]
            \in Child
    BY KeyType DEF Child
  <2>2. hit' \in [Req -> BOOLEAN]
    BY <1>9 DEF StartRun, Touch
  <2>3. QED
    BY <1>9, <2>1, <2>2 DEF StartRun, local, File
<1>10. ASSUME NEW r \in Req, FinishRun(r) PROVE TypeOK'
  <2>1. child[r] \in Child /\ child[r].code \in Code \cup {None}
    BY <1>10 DEF FinishRun, Child
  <2>2. job[r].problem \in Problem /\ tc[r] \in Tests[job[r].problem]
    BY <1>10 DEF FinishRun, Control, Job
  <2>3. out' \in File
    <3>1. Ran(child[r].code, job[r].problem, tc[r]) \in File /\ Mixed \in File
      BY <2>1, <2>2, RanType DEF File
    <3>2. out' \in {Ran(child[r].code, job[r].problem, tc[r]), Mixed}
      BY <1>10 DEF FinishRun
    <3>3. QED
      BY <3>1, <3>2
  <2>4. hit' \in [Req -> BOOLEAN]
    BY <1>10 DEF FinishRun
  <2>5. QED
    BY <1>10, <2>3, <2>4 DEF FinishRun, local
<1>11. ASSUME NEW r \in Req, CompareScore(r) PROVE TypeOK'
  <2>1. pass' \in [Req -> Nat]
    BY <1>11 DEF CompareScore
  <2>2. QED
    BY <1>11, <2>1 DEF CompareScore, files
<1>12. ASSUME NEW r \in Req, CompareRow(r) PROVE TypeOK'
  <2>1. tc[r] \in TestNo
    BY <1>12, TestsFinite DEF CompareRow, Control, Job
  <2>2. rows' \in [Req -> SUBSET TestNo]
    BY <1>12, <2>1 DEF CompareRow
  <2>3. QED
    BY <1>12, <2>2 DEF CompareRow, files
<1>13. ASSUME NEW r \in Req, RecordScore(r) PROVE TypeOK'
  <2>1. Line(r) \in Record
    BY TotalType DEF Line, Record, Job
  <2>2. QED
    BY <1>13, <2>1 DEF RecordScore, files
<1>14. ASSUME NEW r \in Req, Reply(r) PROVE TypeOK'
  BY <1>14 DEF Reply, files, local
<1>15. ASSUME NEW r \in Req, Kill(r) PROVE TypeOK'
  BY <1>15 DEF Kill, files, local
<1>16. QED
  BY NextCases, <1>1, <1>2, <1>3, <1>4, <1>5, <1>6, <1>7, <1>8, <1>9, <1>10,
     <1>11, <1>12, <1>13, <1>14, <1>15

LEMMA ControlStep == TypeOK /\ Control /\ [Next]_vars => Control'
<1> SUFFICES ASSUME TypeOK, Control, [Next]_vars PROVE Control'
  OBVIOUS
<1> USE DEF TypeOK, Control
<1>1. CASE UNCHANGED vars
  BY <1>1 DEF vars, local
<1>2. CASE Tick
  BY <1>2 DEF Tick, local
<1>3. ASSUME NEW r \in Req, Refuse(r) PROVE Control'
  BY <1>3 DEF Refuse, local
<1>4. ASSUME NEW r \in Req, SaveCode(r) PROVE Control'
  BY <1>4 DEF SaveCode
<1>5. ASSUME NEW r \in Req, CompileError(r) PROVE Control'
  BY <1>5 DEF CompileError, local
<1>6. ASSUME NEW r \in Req, CompileBegin(r) PROVE Control'
  BY <1>6 DEF CompileBegin, local
<1>7. ASSUME NEW r \in Req, LinkEnd(r) PROVE Control'
  BY <1>7 DEF LinkEnd, local
<1>8. ASSUME NEW r \in Req, CompileReturn(r) PROVE Control'
  BY <1>8 DEF CompileReturn, local
<1>9. ASSUME NEW r \in Req, StartRun(r) PROVE Control'
  BY <1>9 DEF StartRun, MoreTests, local
<1>10. ASSUME NEW r \in Req, FinishRun(r) PROVE Control'
  BY <1>10 DEF FinishRun, local
<1>11. ASSUME NEW r \in Req, CompareScore(r) PROVE Control'
  BY <1>11 DEF CompareScore
<1>12. ASSUME NEW r \in Req, CompareRow(r) PROVE Control'
  BY <1>12 DEF CompareRow
<1>13. ASSUME NEW r \in Req, RecordScore(r) PROVE Control'
  BY <1>13 DEF RecordScore
<1>14. ASSUME NEW r \in Req, Reply(r) PROVE Control'
  BY <1>14 DEF Reply, local
<1>15. ASSUME NEW r \in Req, Kill(r) PROVE Control'
  BY <1>15 DEF Kill, local, Working
<1>16. QED
  BY NextCases, <1>1, <1>2, <1>3, <1>4, <1>5, <1>6, <1>7, <1>8, <1>9, <1>10,
     <1>11, <1>12, <1>13, <1>14, <1>15

\* The variables of judge.c keep to their types: no run is ever started or
\* compared for a test number that has no input file.
THEOREM Typing == Spec => [](TypeOK /\ Control)
<1>1. Init => TypeOK /\ Control
  BY TypeInit
<1>2. TypeOK /\ Control /\ [Next]_vars => (TypeOK /\ Control)'
  BY TypeStep, ControlStep
<1>3. QED
  BY <1>1, <1>2, PTL DEF Spec
-----------------------------------------------------------------------------
(* The loops.                                                              *)

LEMMA RoundsInit == Init => Rounds
BY DEF Init, Rounds, Working

LEMMA RoundsStep == TypeOK /\ Control /\ Rounds /\ [Next]_vars => Rounds'
<1> SUFFICES ASSUME TypeOK, Control, Rounds, [Next]_vars PROVE Rounds'
  OBVIOUS
<1> USE DEF TypeOK, Rounds, Working, MoreTests
<1>0. \A r \in Req : Total(job[r].problem) \in Nat \ {0}
  BY TotalType DEF Job
<1>1. CASE UNCHANGED vars
  BY <1>1 DEF vars, local
<1>2. CASE Tick
  BY <1>2 DEF Tick, local
<1>3. ASSUME NEW r \in Req, Refuse(r) PROVE Rounds'
  BY <1>3 DEF Refuse, local
<1>4. ASSUME NEW r \in Req, SaveCode(r) PROVE Rounds'
  BY <1>0, <1>4 DEF SaveCode
<1>5. ASSUME NEW r \in Req, CompileError(r) PROVE Rounds'
  BY <1>5 DEF CompileError, local
<1>6. ASSUME NEW r \in Req, CompileBegin(r) PROVE Rounds'
  BY <1>6 DEF CompileBegin, local
<1>7. ASSUME NEW r \in Req, LinkEnd(r) PROVE Rounds'
  BY <1>7 DEF LinkEnd, local
<1>8. ASSUME NEW r \in Req, CompileReturn(r) PROVE Rounds'
  BY <1>8 DEF CompileReturn, local
<1>9. ASSUME NEW r \in Req, StartRun(r) PROVE Rounds'
  BY <1>9 DEF StartRun, local
<1>10. ASSUME NEW r \in Req, FinishRun(r) PROVE Rounds'
  BY <1>10 DEF FinishRun, local
<1>11. ASSUME NEW r \in Req, CompareScore(r) PROVE Rounds'
  BY <1>0, <1>11 DEF CompareScore
<1>12. ASSUME NEW r \in Req, CompareRow(r) PROVE Rounds'
  BY <1>0, <1>12 DEF CompareRow
<1>13. ASSUME NEW r \in Req, RecordScore(r) PROVE Rounds'
  BY <1>0, <1>13 DEF RecordScore
<1>14. ASSUME NEW r \in Req, Reply(r) PROVE Rounds'
  BY <1>14 DEF Reply, local
<1>15. ASSUME NEW r \in Req, Kill(r) PROVE Rounds'
  BY <1>15 DEF Kill, local
<1>16. QED
  BY NextCases, <1>1, <1>2, <1>3, <1>4, <1>5, <1>6, <1>7, <1>8, <1>9, <1>10,
     <1>11, <1>12, <1>13, <1>14, <1>15

-----------------------------------------------------------------------------
(* The work of an undisturbed request.                                     *)

\* What another process does leaves r's work alone, or disturbs r.
LEMMA OthersKeepOwn ==
    ASSUME TypeOK, NEW r \in Req, OwnWork(r), ~hit[r],
           UNCHANGED job,
           pc'[r] = pc[r], phase'[r] = phase[r], second'[r] = second[r],
           tc'[r] = tc[r], pass'[r] = pass[r], rows'[r] = rows[r],
           child'[r] = child[r],
           Needs(r, "src") => src'[Key(r)] = src[Key(r)],
           Needs(r, "prog") => prog' = prog,
           Needs(r, "out") => out' = out
    PROVE  OwnWork(r)'
<1>1. Key(r)' = Key(r)
  BY DEF Key
<1>2. Needs(r, "src")' = Needs(r, "src") /\ Needs(r, "prog")' = Needs(r, "prog")
  BY DEF Needs, Working
<1>3. Working(r)' = Working(r)
  BY DEF Working
<1>4. Solved(job[r].code, job[r].problem, tc[r])' = Solved(job[r].code, job[r].problem, tc[r])
  BY DEF Solved
<1>5. pc[r] = "run" => Needs(r, "out")
  BY DEF Needs
<1>6. QED
  BY <1>1, <1>2, <1>3, <1>4, <1>5 DEF OwnWork

LEMMA OwnInit == Init => Own
BY DEF Init, Own, OwnWork, Needs, Working

LEMMA OwnStep == TypeOK /\ Control /\ Rounds /\ Own /\ [Next]_vars => Own'
<1> SUFFICES ASSUME TypeOK, Control, Rounds, Own, [Next]_vars, NEW r \in Req
             PROVE  OwnWork(r)'
  BY DEF Own
<1> SUFFICES ASSUME ~hit'[r] PROVE OwnWork(r)'
  BY DEF OwnWork
<1>a. OwnWork(r) /\ job[r] \in Job
  BY DEF Own, TypeOK
<1>b. \A q \in Req : hit[q] \in BOOLEAN
  BY DEF TypeOK
<1>1. CASE UNCHANGED vars
  BY <1>1, <1>a, OthersKeepOwn DEF vars, files, local
<1>2. CASE Tick
  BY <1>2, <1>a, OthersKeepOwn DEF Tick, files, local
<1>3. ASSUME NEW q \in Req, Refuse(q) PROVE OwnWork(r)'
  <2>1. CASE q = r
    BY <1>3, <2>1 DEF Refuse, TypeOK, OwnWork, Needs, Working
  <2>2. CASE q # r
    BY <1>3, <1>a, <2>2, OthersKeepOwn DEF Refuse, files, local, TypeOK
  <2>3. QED
    BY <2>1, <2>2
<1>4. ASSUME NEW q \in Req, SaveCode(q) PROVE OwnWork(r)'
  <2>1. CASE q = r
    <3>1. /\ pc[r] = "idle" /\ pc'[r] \in {"compile", "test"}
          /\ pc'[r] = "test" => ~Compiled(job[r].lang)
          /\ UNCHANGED <<job, phase, tc, pass, rows, child>>
      BY <1>4, <2>1 DEF SaveCode, TypeOK
    <3>2. phase[r] = "score" /\ tc[r] = 1 /\ pass[r] = 0 /\ child[r] = None
      BY <3>1 DEF Rounds, Control
    <3>3. src'[Key(r)'] = job[r].code
      BY <1>4, <2>1, <1>a DEF SaveCode, TypeOK, Key, SrcKey, Job
    <3>4. QED
      BY <3>1, <3>2, <3>3, SolvedFirst DEF OwnWork, Needs, Working
  <2>2. CASE q # r
    <3>1. ~hit[r] /\ (Needs(r, "src") => Key(r) # <<job[q].problem, clock, job[q].lang>>)
      BY <1>4, <2>2, <1>b DEF SaveCode, TouchSrc
    <3>2. Needs(r, "src") => src'[Key(r)] = src[Key(r)]
      BY <1>4, <3>1, KeyType DEF SaveCode, TypeOK
    <3>3. QED
      BY <1>4, <1>a, <2>2, <3>1, <3>2, OthersKeepOwn DEF SaveCode, TypeOK
  <2>3. QED
    BY <2>1, <2>2
<1>5. ASSUME NEW q \in Req, CompileError(q) PROVE OwnWork(r)'
  <2>1. CASE q = r
    BY <1>5, <2>1 DEF CompileError, TypeOK, OwnWork, Needs, Working
  <2>2. CASE q # r
    BY <1>5, <1>a, <2>2, OthersKeepOwn DEF CompileError, files, local, TypeOK
  <2>3. QED
    BY <2>1, <2>2
<1>6. ASSUME NEW q \in Req, CompileBegin(q) PROVE OwnWork(r)'
  <2>1. CASE q = r
    <3>1. /\ pc[r] = "compile" /\ pc'[r] = "link" /\ hit'[r] = hit[r]
          /\ child'[r] = [op |-> "link", code |-> src[Key(r)]]
          /\ UNCHANGED <<src, job, local>>
      BY <1>6, <2>1, <1>b DEF CompileBegin, Touch, TypeOK
    <3>2. child'[r] # None
      BY <3>1, KeyType, ProgramsAssumption DEF Child
    <3>3. src[Key(r)] = job[r].code
      BY <1>a, <3>1 DEF OwnWork, Needs
    <3>4. Key(r)' = Key(r)
      BY <3>1 DEF Key, local
    <3>5. QED
      BY <1>a, <3>1, <3>2, <3>3, <3>4 DEF OwnWork, Needs, Working, local, Solved
  <2>2. CASE q # r
    <3>1. ~hit[r] /\ ~Needs(r, "prog")
      BY <1>6, <2>2, <1>b DEF CompileBegin, Touch
    <3>2. QED
      BY <1>6, <1>a, <2>2, <3>1, OthersKeepOwn DEF CompileBegin, local, TypeOK
  <2>3. QED
    BY <2>1, <2>2
<1>7. ASSUME NEW q \in Req, LinkEnd(q) PROVE OwnWork(r)'
  <2>1. CASE q = r
    <3>1. /\ child[r] # None /\ child[r].op = "link" /\ child'[r] = None
          /\ prog' = child[r].code /\ hit'[r] = hit[r]
          /\ UNCHANGED <<src, out, job, pc, local>>
      BY <1>7, <2>1, <1>b DEF LinkEnd, Touch, TypeOK
    <3>2. pc[r] \in {"link", "dead"}
      BY <3>1 DEF Control, TypeOK
    <3>3. Key(r)' = Key(r)
      BY <3>1 DEF Key, local
    <3>4. QED
      BY <1>a, <3>1, <3>2, <3>3 DEF OwnWork, Needs, Working, local, Solved
  <2>2. CASE q # r
    <3>1. ~hit[r] /\ ~Needs(r, "prog")
      BY <1>7, <2>2, <1>b DEF LinkEnd, Touch
    <3>2. QED
      BY <1>7, <1>a, <2>2, <3>1, OthersKeepOwn DEF LinkEnd, local, TypeOK
  <2>3. QED
    BY <2>1, <2>2
<1>8. ASSUME NEW q \in Req, CompileReturn(q) PROVE OwnWork(r)'
  <2>1. CASE q = r
    <3>1. /\ pc[r] = "link" /\ child[r] = None /\ pc'[r] = "test"
          /\ UNCHANGED <<files, job, local, child, hit>>
      BY <1>8, <2>1 DEF CompileReturn, TypeOK
    <3>2. Key(r)' = Key(r)
      BY <3>1 DEF Key, local
    <3>3. QED
      BY <1>a, <3>1, <3>2 DEF OwnWork, Needs, Working, files, local, Solved
  <2>2. CASE q # r
    BY <1>8, <1>a, <2>2, OthersKeepOwn DEF CompileReturn, files, local, TypeOK
  <2>3. QED
    BY <2>1, <2>2
<1>9. ASSUME NEW q \in Req, StartRun(q) PROVE OwnWork(r)'
  <2>1. CASE q = r
    <3>1. /\ pc[r] = "test" /\ pc'[r] = "run" /\ out' = Empty /\ hit'[r] = hit[r]
          /\ child'[r] = [op |-> "run", code |-> IF Compiled(job[r].lang)
                                                THEN prog ELSE src[Key(r)]]
          /\ UNCHANGED <<src, prog, job, local>>
      BY <1>9, <2>1, <1>b DEF StartRun, Touch, TypeOK
    <3>2. child'[r] # None
      BY <3>1, KeyType, ProgramsAssumption DEF Child, TypeOK
    <3>3. child[r] = None
      BY <3>1 DEF Control
    <3>4. Key(r)' = Key(r)
      BY <3>1 DEF Key, local
    <3>5. child'[r].code = job[r].code
      BY <1>a, <3>1, <3>3 DEF OwnWork, Needs, Working
    <3>6. QED
      BY <1>a, <3>1, <3>2, <3>4, <3>5 DEF OwnWork, Needs, Working, local, Solved
  <2>2. CASE q # r
    <3>1. ~hit[r] /\ ~Needs(r, "out")
      BY <1>9, <2>2, <1>b DEF StartRun, Touch
    <3>2. QED
      BY <1>9, <1>a, <2>2, <3>1, OthersKeepOwn DEF StartRun, local, TypeOK
  <2>3. QED
    BY <2>1, <2>2
<1>10. ASSUME NEW q \in Req, FinishRun(q) PROVE OwnWork(r)'
  <2>1. CASE q = r
    <3>1. /\ child[r] # None /\ child[r].op = "run" /\ child'[r] = None
          /\ UNCHANGED <<src, prog, job, pc, local>>
      BY <1>10, <2>1 DEF FinishRun, TypeOK
    <3>2. ~hit[r] /\ ~Shared(r)
      BY <1>10, <2>1, <1>b DEF FinishRun
    <3>3. pc[r] \in {"run", "dead"}
      BY <3>1 DEF Control, TypeOK
    <3>4. Key(r)' = Key(r)
      BY <3>1 DEF Key, local
    <3>5. ASSUME pc[r] = "run"
          PROVE  out' = Prints[job[r].code][job[r].problem][tc[r]]
      <4>1. out = Empty /\ child[r].code = job[r].code
        BY <1>a, <3>1, <3>2, <3>5 DEF OwnWork
      <4>2. out' = Ran(job[r].code, job[r].problem, tc[r])
        BY <1>10, <2>1, <3>2, <4>1 DEF FinishRun
      <4>3. job[r].code # None
        BY <1>a, ProgramsAssumption DEF Job
      <4>4. QED
        BY <4>2, <4>3 DEF Ran
    <3>6. QED
      BY <1>a, <3>1, <3>2, <3>3, <3>4, <3>5 DEF OwnWork, Needs, Working, local, Solved
  <2>2. CASE q # r
    <3>1. ~hit[r] /\ ~Needs(r, "out")
      BY <1>10, <2>2, <1>b DEF FinishRun
    <3>2. QED
      BY <1>10, <1>a, <2>2, <3>1, OthersKeepOwn DEF FinishRun, local, TypeOK
  <2>3. QED
    BY <2>1, <2>2
<1>c. ASSUME pc[r] = "run"
      PROVE  /\ Prints[job[r].code][job[r].problem][tc[r]] \in Output
             /\ Wanted(r) \in Output
  <2>1. tc[r] \in TestNo
    BY <1>a, <1>c, TestsFinite DEF Control, Job
  <2>2. QED
    BY <1>a, <2>1, ProgramsAssumption DEF Wanted, Job
<1>11. ASSUME NEW q \in Req, CompareScore(q) PROVE OwnWork(r)'
  <2>1. CASE q = r
    <3> DEFINE P == Prints[job[r].code][job[r].problem][tc[r]]
    <3>1. /\ pc[r] = "run" /\ child[r] = None /\ phase[r] = "score"
          /\ tc'[r] = tc[r] + 1 /\ pc'[r] = "test"
          /\ UNCHANGED <<files, job, phase, second, rows, child, hit>>
      BY <1>11, <2>1 DEF CompareScore, TypeOK
    <3>2. out = P /\ P \in Output /\ P # Mixed
      BY <1>a, <1>c, <3>1, ProgramsAssumption DEF OwnWork
    <3>3. pass'[r] = pass[r] + (IF SameB(P, Wanted(r)) THEN 1 ELSE 0)
      BY <1>11, <2>1, <3>2 DEF CompareScore, TypeOK, DiffB
    <3>4. pass'[r] = Cardinality(Solved(job[r].code, job[r].problem, tc[r] + 1))
      <4>1. pass[r] = Cardinality(Solved(job[r].code, job[r].problem, tc[r]))
        BY <1>a, <3>1 DEF OwnWork, Working
      <4>2. tc[r] \in Nat \ {0}
        BY DEF TypeOK
      <4>3. QED
        BY <3>3, <4>1, <4>2, SolvedNext DEF Wanted
    <3>5. Key(r)' = Key(r)
      BY <3>1 DEF Key
    <3>6. Solved(job[r].code, job[r].problem, tc[r])'
              = Solved(job[r].code, job[r].problem, tc[r] + 1)
      BY <3>1 DEF Solved
    <3>7. QED
      BY <1>a, <3>1, <3>4, <3>5, <3>6 DEF OwnWork, Needs, Working, files
  <2>2. CASE q # r
    BY <1>11, <1>a, <2>2, OthersKeepOwn DEF CompareScore, files, TypeOK
  <2>3. QED
    BY <2>1, <2>2
<1>12. ASSUME NEW q \in Req, CompareRow(q) PROVE OwnWork(r)'
  <2>1. CASE q = r
    <3> DEFINE P == Prints[job[r].code][job[r].problem][tc[r]]
    <3>1. /\ pc[r] = "run" /\ child[r] = None /\ phase[r] = "table"
          /\ tc'[r] = tc[r] + 1 /\ pc'[r] = "test"
          /\ UNCHANGED <<files, job, phase, second, pass, child, hit>>
      BY <1>12, <2>1 DEF CompareRow, TypeOK
    <3>2. out = P /\ P \in Output /\ P # Mixed
      BY <1>a, <1>c, <3>1, ProgramsAssumption DEF OwnWork
    <3>3. rows'[r] = rows[r] \cup (IF SameW(P, Wanted(r)) THEN {tc[r]} ELSE {})
      BY <1>12, <2>1, <3>2 DEF CompareRow, TypeOK, DiffW
    <3>4. SameB(P, Wanted(r)) => SameW(P, Wanted(r))
      BY <3>2 DEF SameB, SameW
    <3>5. Solved(job[r].code, job[r].problem, tc[r] + 1) \subseteq rows'[r]
      <4>1. Solved(job[r].code, job[r].problem, tc[r]) \subseteq rows[r]
        BY <1>a, <3>1 DEF OwnWork, Working
      <4>2. tc[r] \in Nat \ {0}
        BY DEF TypeOK
      <4>3. Solved(job[r].code, job[r].problem, tc[r] + 1) =
                Solved(job[r].code, job[r].problem, tc[r])
                    \cup (IF SameB(P, Wanted(r)) THEN {tc[r]} ELSE {})
        BY <4>2, SolvedNext DEF Wanted
      <4>4. QED
        BY <3>3, <3>4, <4>1, <4>3
    <3>6. Key(r)' = Key(r)
      BY <3>1 DEF Key
    <3>7. Solved(job[r].code, job[r].problem, tc[r])'
              = Solved(job[r].code, job[r].problem, tc[r] + 1)
      BY <3>1 DEF Solved
    <3>8. QED
      BY <1>a, <3>1, <3>5, <3>6, <3>7 DEF OwnWork, Needs, Working, files
  <2>2. CASE q # r
    BY <1>12, <1>a, <2>2, OthersKeepOwn DEF CompareRow, files, TypeOK
  <2>3. QED
    BY <2>1, <2>2
<1>13. ASSUME NEW q \in Req, RecordScore(q) PROVE OwnWork(r)'
  <2>1. CASE q = r
    <3>1. /\ pc[r] = "test" /\ phase'[r] = "table" /\ tc'[r] = 1
          /\ UNCHANGED <<files, job, pc, second, pass, rows, child, hit>>
      BY <1>13, <2>1 DEF RecordScore, TypeOK
    <3>2. Key(r)' = Key(r)
      BY <3>1 DEF Key
    <3>3. Solved(job[r].code, job[r].problem, tc[r])' = {}
      BY <3>1, SolvedFirst DEF Solved
    <3>4. QED
      BY <1>a, <3>1, <3>2, <3>3 DEF OwnWork, Needs, Working, files
  <2>2. CASE q # r
    BY <1>13, <1>a, <2>2, OthersKeepOwn DEF RecordScore, files, TypeOK
  <2>3. QED
    BY <2>1, <2>2
<1>14. ASSUME NEW q \in Req, Reply(q) PROVE OwnWork(r)'
  <2>1. CASE q = r
    BY <1>14, <2>1 DEF Reply, TypeOK, OwnWork, Needs, Working
  <2>2. CASE q # r
    BY <1>14, <1>a, <2>2, OthersKeepOwn DEF Reply, files, local, TypeOK
  <2>3. QED
    BY <2>1, <2>2
<1>15. ASSUME NEW q \in Req, Kill(q) PROVE OwnWork(r)'
  <2>1. CASE q = r
    BY <1>15, <2>1 DEF Kill, TypeOK, OwnWork, Needs, Working
  <2>2. CASE q # r
    BY <1>15, <1>a, <2>2, OthersKeepOwn DEF Kill, files, local, TypeOK
  <2>3. QED
    BY <2>1, <2>2
<1>16. QED
  BY NextCases, <1>1, <1>2, <1>3, <1>4, <1>5, <1>6, <1>7, <1>8, <1>9, <1>10,
     <1>11, <1>12, <1>13, <1>14, <1>15

-----------------------------------------------------------------------------
(* The results file and the page.                                          *)

\* What holds of the lines in the file holds of a line that is added.
LEMMA LogGrows ==
    ASSUME TypeOK, NEW r \in Req, RecordScore(r)
    PROVE  /\ Len(submissions') = Len(submissions) + 1
           /\ \A k \in 1 .. Len(submissions) : submissions'[k] = submissions[k]
           /\ submissions'[Len(submissions) + 1] = Line(r)
BY DEF TypeOK, RecordScore

\* No other step writes the file.
LEMMA LogKept ==
    ASSUME [Next]_vars, \A r \in Req : ~RecordScore(r)
    PROVE  UNCHANGED <<submissions, job>>
BY NextCases DEF vars, local, files, Tick, Refuse, SaveCode, CompileError, CompileBegin,
   LinkEnd, CompileReturn, StartRun, FinishRun, CompareScore, CompareRow, Reply, Kill

\* A request that ends its loop is at test Stop.
LEMMA AtStop ==
    ASSUME TypeOK, Rounds, NEW r \in Req, Working(r), ~MoreTests(r)
    PROVE  LET p == job[r].problem IN
           Stop(p) = tc[r] /\ Stop(p) \in 1 .. Total(p) + 1 /\ 1 .. Stop(p) - 1 \subseteq Tests[p]
<1> DEFINE p == job[r].problem
<1>1. p \in Problem /\ tc[r] \in Nat \ {0}
  BY DEF TypeOK, Job
<1>2. tc[r] <= Total(p) + 1 /\ 1 .. tc[r] - 1 \subseteq Tests[p]
  BY DEF Rounds
<1>3. Stop(p) = tc[r]
  BY <1>1, <1>2, StopIs DEF MoreTests
<1>4. QED
  BY <1>1, <1>2, <1>3, TotalType

LEMMA LoggedStep == TypeOK /\ Rounds /\ Logged /\ [Next]_vars => Logged'
<1> SUFFICES ASSUME TypeOK, Rounds, Logged, [Next]_vars PROVE Logged'
  OBVIOUS
<1>1. CASE \A r \in Req : ~RecordScore(r)
  BY <1>1, LogKept DEF Logged
<1>2. ASSUME NEW r \in Req, RecordScore(r) PROVE Logged'
  <2>1. Working(r) /\ ~MoreTests(r) /\ Len(submissions) \in Nat
    BY <1>2 DEF RecordScore, Working, TypeOK
  <2>2. LET p == job[r].problem IN
        Stop(p) \in 1 .. Total(p) + 1 /\ 1 .. Stop(p) - 1 \subseteq Tests[p]
    BY <2>1, AtStop
  <2>3. ASSUME NEW k \in 1 .. Len(submissions')
        PROVE  LET q == submissions'[k].problem IN
               /\ submissions'[k].total = Total(q)
               /\ Stop(q) \in 1 .. Total(q) + 1
               /\ 1 .. Stop(q) - 1 \subseteq Tests[q]
    <3>1. CASE k \in 1 .. Len(submissions)
      <4>1. submissions'[k] = submissions[k]
        BY <1>2, <3>1, LogGrows
      <4>2. QED
        BY <3>1, <4>1 DEF Logged
    <3>2. CASE k = Len(submissions) + 1
      <4>1. /\ submissions'[k].problem = job[r].problem
            /\ submissions'[k].total = Total(job[r].problem)
        <5>1. submissions'[k] = Line(r)
          BY <1>2, <3>2, LogGrows
        <5>2. QED
          BY <5>1 DEF Line
      <4>2. QED
        BY <2>2, <4>1
    <3>3. k \in 1 .. Len(submissions) + 1
      BY <1>2, <2>3, LogGrows
    <3>4. QED
      BY <2>1, <3>1, <3>2, <3>3
  <2>4. QED
    BY <2>3 DEF Logged, Stop
<1>3. QED
  BY <1>1, <1>2

LEMMA ScoreStep ==
    TypeOK /\ Rounds /\ Own /\ ScoreIsOwn /\ [Next]_vars => ScoreIsOwn'
<1> SUFFICES ASSUME TypeOK, Rounds, Own, ScoreIsOwn, [Next]_vars PROVE ScoreIsOwn'
  OBVIOUS
<1>1. CASE \A r \in Req : ~RecordScore(r)
  BY <1>1, LogKept DEF ScoreIsOwn, Solved
<1>2. ASSUME NEW r \in Req, RecordScore(r) PROVE ScoreIsOwn'
  <2> DEFINE code == job[r].code
             p    == job[r].problem
  <2>1. job' = job /\ Len(submissions) \in Nat
    BY <1>2 DEF RecordScore, TypeOK
  <2>2. Working(r) /\ phase[r] = "score" /\ ~MoreTests(r)
    BY <1>2 DEF RecordScore, Working
  <2>3. Stop(p) = tc[r]
    BY <2>2, AtStop
  <2>4. ~hit[r] => pass[r] = Cardinality(Solved(code, p, Stop(p)))
    BY <2>2, <2>3 DEF Own, OwnWork
  <2>5. \A k \in 1 .. Len(submissions) :
           ~submissions[k].hit => submissions[k].pass =
               Cardinality(Solved(job[submissions[k].req].code, submissions[k].problem,
                                  Stop(submissions[k].problem)))
    BY DEF ScoreIsOwn
  <2>6. ASSUME NEW k \in 1 .. Len(submissions'), ~submissions'[k].hit
        PROVE  submissions'[k].pass =
                   Cardinality(Solved(job[submissions'[k].req].code, submissions'[k].problem,
                                      Stop(submissions'[k].problem)))
    <3>1. CASE k \in 1 .. Len(submissions)
      <4>1. submissions'[k] = submissions[k]
        BY <1>2, <3>1, LogGrows
      <4>2. QED
        BY <2>5, <2>6, <3>1, <4>1
    <3>2. CASE k = Len(submissions) + 1
      <4>1. /\ submissions'[k].problem = p /\ submissions'[k].pass = pass[r]
            /\ submissions'[k].req = r /\ submissions'[k].hit = hit[r]
        <5>1. submissions'[k] = Line(r)
          BY <1>2, <3>2, LogGrows
        <5>2. QED
          BY <5>1 DEF Line
      <4>2. QED
        BY <2>4, <2>6, <4>1
    <3>3. k \in 1 .. Len(submissions) + 1
      BY <1>2, <2>6, LogGrows
    <3>4. QED
      BY <2>1, <3>1, <3>2, <3>3
  <2>7. QED
    BY <2>1, <2>6 DEF ScoreIsOwn, Solved, Stop
<1>3. QED
  BY <1>1, <1>2

\* A disturbed request stays disturbed.
LEMMA HitStays ==
    ASSUME TypeOK, [Next]_vars, NEW r \in Req, hit[r]
    PROVE  hit'[r]
<1>1. CASE \E q \in Req : \/ SaveCode(q) \/ CompileBegin(q) \/ LinkEnd(q) \/ StartRun(q)
  BY <1>1 DEF TypeOK, SaveCode, CompileBegin, LinkEnd, StartRun, Touch, TouchSrc
<1>2. CASE \E q \in Req : FinishRun(q)
  BY <1>2 DEF TypeOK, FinishRun
<1>3. CASE UNCHANGED hit
  BY <1>3
<1>4. QED
  BY <1>1, <1>2, <1>3, NextCases DEF vars, Tick, Refuse, CompileError, CompileReturn,
     CompareScore, CompareRow, RecordScore, Reply, Kill

LEMMA TableStep ==
    TypeOK /\ Rounds /\ Own /\ TableConfirmsScore /\ [Next]_vars => TableConfirmsScore'
<1> SUFFICES ASSUME TypeOK, Rounds, Own, TableConfirmsScore, [Next]_vars, NEW r \in Req,
                    pc'[r] = "done", phase'[r] = "table", ~hit'[r]
             PROVE  Solved(job[r].code, job[r].problem, Stop(job[r].problem))'
                        \subseteq rows'[r]
  BY DEF TableConfirmsScore
<1> DEFINE S == Solved(job[r].code, job[r].problem, Stop(job[r].problem))
<1>1. S' = S
  BY NextCases DEF Solved, Stop, vars, local, files, Tick, Refuse, SaveCode, CompileError,
     CompileBegin, LinkEnd, CompileReturn, StartRun, FinishRun, CompareScore, CompareRow,
     RecordScore, Reply, Kill
<1>2. CASE Reply(r)
  <2>1. /\ Working(r) /\ phase[r] = "table" /\ ~MoreTests(r) /\ ~hit[r]
        /\ rows' = rows
    BY <1>2 DEF Reply, Working, local
  <2>2. Stop(job[r].problem) = tc[r]
    BY <2>1, AtStop
  <2>3. QED
    BY <1>1, <2>1, <2>2 DEF Own, OwnWork
<1>3. CASE ~Reply(r)
  <2>1. ~hit[r]
    BY HitStays
  <2>2. pc[r] = "done" /\ phase[r] = "table"
    <3>1. pc[r] \in {"idle", "compile"} => phase[r] = "score"
      BY DEF Rounds
    <3>2. CASE UNCHANGED <<pc, phase>>
      BY <3>2
    <3>3. ASSUME NEW q \in Req, \/ SaveCode(q) \/ CompileBegin(q) \/ CompileReturn(q)
                                 \/ StartRun(q) \/ CompareScore(q) \/ CompareRow(q)
                                 \/ RecordScore(q) \/ Kill(q)
          PROVE  pc[r] = "done" /\ phase[r] = "table"
      <4>1. q # r
        BY <3>3 DEF TypeOK, SaveCode, CompileBegin, CompileReturn, StartRun, CompareScore,
           CompareRow, RecordScore, Kill
      <4>2. QED
        BY <3>3, <4>1 DEF TypeOK, local, SaveCode, CompileBegin, CompileReturn, StartRun,
           CompareScore, CompareRow, RecordScore, Kill
    <3>4. ASSUME NEW q \in Req, Refuse(q) \/ CompileError(q) \/ Reply(q)
          PROVE  pc[r] = "done" /\ phase[r] = "table"
      <4>1. q # r
        BY <1>3, <3>1, <3>4 DEF TypeOK, local, Refuse, CompileError
      <4>2. QED
        BY <3>4, <4>1 DEF TypeOK, local, Refuse, CompileError, Reply
    <3>5. QED
      BY <3>2, <3>3, <3>4, NextCases DEF vars, local, Tick, LinkEnd, FinishRun
  <2>3. rows'[r] = rows[r]
    BY <2>2, NextCases DEF TypeOK, vars, local, files, Tick, Refuse, SaveCode,
       CompileError, CompileBegin, LinkEnd, CompileReturn, StartRun, FinishRun,
       CompareScore, CompareRow, RecordScore, Reply, Kill
  <2>4. QED
    BY <1>1, <2>1, <2>2, <2>3 DEF TableConfirmsScore
<1>4. QED
  BY <1>2, <1>3

-----------------------------------------------------------------------------

\* IInv is an inductive invariant of judge.c.
THEOREM Invariance == Spec => []IInv
<1>1. Init => IInv
  BY TypeInit, RoundsInit, OwnInit
     DEF IInv, Init, Logged, ScoreIsOwn, TableConfirmsScore
<1>2. IInv /\ [Next]_vars => IInv'
  BY TypeStep, ControlStep, RoundsStep, OwnStep, LoggedStep, ScoreStep, TableStep DEF IInv
<1>3. QED
  BY <1>1, <1>2, PTL DEF Spec

\* The score in submissions.txt is the score of the submitted program, unless
\* another process wrote one of its files.
THEOREM ScoreTheorem == Spec => []ScoreIsOwn
<1>1. IInv => ScoreIsOwn
  BY DEF IInv
<1>2. QED
  BY <1>1, Invariance, PTL

\* An undisturbed page shows PASS for every test that counted.
THEOREM TableTheorem == Spec => []TableConfirmsScore
<1>1. IInv => TableConfirmsScore
  BY DEF IInv
<1>2. QED
  BY <1>1, Invariance, PTL

\* An undisturbed "Accepted" means that the program passes every .in file of
\* the problem, wherever its number is, and that there is one.
THEOREM AcceptedTheorem == Spec => []AcceptedSolvesAll
<1>1. ASSUME IInv, NEW k \in 1 .. Len(submissions),
             ~submissions[k].hit, submissions[k].pass = submissions[k].total
      PROVE  /\ Tests[submissions[k].problem] # {}
             /\ \A n \in Tests[submissions[k].problem] :
                   SameB(Prints[job[submissions[k].req].code][submissions[k].problem][n],
                         Expected[submissions[k].problem][n])
  <2> DEFINE c == job[submissions[k].req].code
             p == submissions[k].problem
             n == Stop(p)
  <2>1. p \in Problem
    <3>1. submissions[k] \in Record
      BY <1>1 DEF IInv, TypeOK
    <3>2. QED
      BY <3>1 DEF Record
  <2>2. Cardinality(Solved(c, p, n)) = Total(p)
    BY <1>1 DEF IInv, ScoreIsOwn, Logged
  <2>3. n \in Nat \ {0} /\ n <= Total(p) + 1 /\ 1 .. n - 1 \subseteq Tests[p]
    BY <1>1, <2>1, TotalType DEF IInv, Logged
  <2>4. Tests[p] # {} /\ Solved(c, p, n) = Tests[p]
    BY <2>1, <2>2, <2>3, FullScore
  <2>5. QED
    BY <2>4 DEF Solved
<1>2. IInv => AcceptedSolvesAll
  BY <1>1 DEF AcceptedSolvesAll
<1>3. QED
  BY <1>2, Invariance, PTL

-----------------------------------------------------------------------------
(* The refinement.                                                         *)

LEMMA AppendIs ==
    ASSUME NEW S, NEW n \in Nat, NEW f \in [1 .. n -> S], NEW g \in [1 .. n + 1 -> S],
           \A k \in 1 .. n : g[k] = f[k]
    PROVE  g = Append(f, g[n + 1])
<1>1. f \in Seq(S) /\ g \in Seq(S) /\ Len(f) = n /\ Len(g) = n + 1
  BY SeqDef
<1>2. g[n + 1] \in S
  BY n + 1 \in 1 .. n + 1
<1>3. /\ Append(f, g[n + 1]) \in Seq(S) /\ Len(Append(f, g[n + 1])) = n + 1
      /\ \A k \in 1 .. n + 1 : Append(f, g[n + 1])[k] = g[k]
  BY <1>1, <1>2, AppendProperties
<1>4. QED
  BY <1>1, <1>3, SeqEqual

LEMMA TotalBound ==
    ASSUME NEW p \in Problem
    PROVE  Total(p) \in 1 .. MaxTests
<1>1. MaxTests \in Nat \ {0} /\ Tests[p] \subseteq TestNo
  BY ProgramsAssumption
<1>2. IsFiniteSet(TestNo) /\ Cardinality(TestNo) = MaxTests
  BY <1>1, FS_Interval DEF TestNo
<1>3. Cardinality(Tests[p]) <= MaxTests
  BY <1>1, <1>2, FS_Subset
<1>4. QED
  BY <1>1, <1>3, TotalType DEF Total

\* The status of a request, written without CASE.
StatusTable(r) ==
    /\ pc[r] = "idle" /\ phase[r] = "score" => Status(r) = "idle"
    /\ Working(r) /\ phase[r] = "score" => Status(r) = "taken"
    /\ pc[r] = "done" /\ phase[r] = "score" => Status(r) = "closed"
    /\ pc[r] = "dead" /\ phase[r] = "score" => Status(r) = "lost"
    /\ pc[r] # "idle" /\ phase[r] = "table" => Status(r) = "graded"

LEMMA StatusIs == ASSUME NEW r PROVE StatusTable(r) /\ StatusTable(r)'
<1>1. StatusTable(r)
  <2>1. pc[r] = "idle" /\ phase[r] = "score" => Status(r) = "idle"
    BY Zenon DEF Status, Working
  <2>2. Working(r) /\ phase[r] = "score" => Status(r) = "taken"
    BY Zenon DEF Status, Working
  <2>3. pc[r] = "done" /\ phase[r] = "score" => Status(r) = "closed"
    BY Zenon DEF Status, Working
  <2>4. pc[r] = "dead" /\ phase[r] = "score" => Status(r) = "lost"
    BY Zenon DEF Status, Working
  <2>5. pc[r] # "idle" /\ phase[r] = "table" => Status(r) = "graded"
    BY Zenon DEF Status, Working
  <2>6. QED
    BY <2>1, <2>2, <2>3, <2>4, <2>5 DEF StatusTable
<1>2. StatusTable(r)'
  <2>1. (pc[r] = "idle" /\ phase[r] = "score" => Status(r) = "idle")'
    BY Zenon DEF Status, Working
  <2>2. (Working(r) /\ phase[r] = "score" => Status(r) = "taken")'
    BY Zenon DEF Status, Working
  <2>3. (pc[r] = "done" /\ phase[r] = "score" => Status(r) = "closed")'
    BY Zenon DEF Status, Working
  <2>4. (pc[r] = "dead" /\ phase[r] = "score" => Status(r) = "lost")'
    BY Zenon DEF Status, Working
  <2>5. (pc[r] # "idle" /\ phase[r] = "table" => Status(r) = "graded")'
    BY Zenon DEF Status, Working
  <2>6. QED
    BY <2>1, <2>2, <2>3, <2>4, <2>5 DEF StatusTable
<1>3. QED
  BY <1>1, <1>2

\* What the abstract variables stand for.
StatusMap == [r \in Req |-> Status(r)]
LogMap == [k \in 1 .. Len(submissions) |->
              [req |-> submissions[k].req,
               verdict |-> [pass |-> submissions[k].pass, total |-> submissions[k].total]]]
Disturbed == {r \in Req : hit[r]}

LEMMA JobKept == ASSUME [Next]_vars PROVE UNCHANGED job
BY NextCases DEF vars, local, files, Tick, Refuse, SaveCode, CompileError, CompileBegin,
   LinkEnd, CompileReturn, StartRun, FinishRun, CompareScore, CompareRow, RecordScore,
   Reply, Kill

\* The status of a request changes with its place in the script.
LEMMA StatusKept ==
    ASSUME TypeOK, Rounds, NEW r \in Req, pc'[r] = pc[r], phase'[r] = phase[r]
    PROVE  Status(r)' = Status(r)
<1>1. StatusTable(r) /\ StatusTable(r)'
  BY StatusIs
<1>2. /\ pc[r] \in {"idle", "compile", "link", "test", "run", "done", "dead"}
      /\ phase[r] \in {"score", "table"}
      /\ pc[r] = "idle" => phase[r] = "score"
  BY DEF TypeOK, Rounds
<1>3. QED
  BY <1>1, <1>2 DEF StatusTable, Working

\* One request moves from one status to the next.
LEMMA MoveMaps ==
    ASSUME TypeOK, Rounds, NEW r \in Req, NEW from, NEW to, Status(r) = from, Status(r)' = to,
           \A q \in Req \ {r} : pc'[q] = pc[q] /\ phase'[q] = phase[q]
    PROVE  Abstract!Move(r, from, to)
<1>1. \A q \in Req \ {r} : Status(q)' = Status(q)
  BY StatusKept
<1>2. \A q \in Req : Status(q)' = IF q = r THEN to ELSE Status(q)
  BY <1>1
<1>3. [q \in Req |-> Status(q)]' = [[q \in Req |-> Status(q)] EXCEPT ![r] = to]
  BY <1>2
<1>4. QED
  BY <1>3 DEF Abstract!Move

\* The steps that enter nothing: the request moves, or nothing is seen.
LEMMA QuietMaps ==
    ASSUME IInv, [Next]_vars, \A r \in Req : ~RecordScore(r)
    PROVE  /\ UNCHANGED LogMap
           /\ \/ UNCHANGED StatusMap
              \/ \E r \in Req : \/ Abstract!Move(r, "idle", "taken")
                                \/ Abstract!Move(r, "idle", "closed")
                                \/ /\ Abstract!Move(r, "taken", "closed")
                                   /\ \/ Compiled(job[r].lang) /\ job[r].code \in Broken
                                      \/ r \in Disturbed
                                \/ Abstract!Move(r, "taken", "lost")
<1>1. TypeOK /\ Rounds
  BY DEF IInv
<1>2. \A r \in Req : StatusTable(r) /\ StatusTable(r)'
  BY StatusIs
<1>3. UNCHANGED LogMap
  BY LogKept DEF LogMap
<1>4. CASE UNCHANGED <<pc, phase>>
  <2>1. \A r \in Req : Status(r)' = Status(r)
    BY <1>1, <1>4, StatusKept
  <2>2. QED
    BY <1>3, <2>1 DEF StatusMap
<1>5. ASSUME NEW r \in Req, SaveCode(r) \/ Refuse(r) \/ Step(r) \/ Kill(r)
      PROVE  \/ UNCHANGED StatusMap
             \/ Abstract!Move(r, "idle", "taken")
             \/ Abstract!Move(r, "idle", "closed")
             \/ /\ Abstract!Move(r, "taken", "closed")
                /\ \/ Compiled(job[r].lang) /\ job[r].code \in Broken
                   \/ r \in Disturbed
             \/ Abstract!Move(r, "taken", "lost")
  <2>1. /\ \A q \in Req \ {r} : pc'[q] = pc[q] /\ phase'[q] = phase[q]
        /\ phase'[r] = phase[r]
    BY <1>1, <1>5 DEF TypeOK, local, SaveCode, Refuse, Step, CompileError, CompileBegin, LinkEnd,
       CompileReturn, StartRun, FinishRun, CompareScore, CompareRow, Reply, Kill
  <2>2. CASE Status(r)' = Status(r)
    <3>1. \A q \in Req : Status(q)' = Status(q)
      BY <1>1, <2>1, <2>2, StatusKept
    <3>2. QED
      BY <3>1 DEF StatusMap
  <2>3. CASE SaveCode(r)
    <3>1. pc[r] = "idle" /\ phase[r] = "score" /\ pc'[r] \in {"compile", "test"}
      BY <1>1, <2>3 DEF SaveCode, TypeOK, Rounds
    <3>2. Status(r) = "idle" /\ Status(r)' = "taken"
      BY <1>2, <2>1, <3>1 DEF StatusTable, Working
    <3>3. QED
      BY <1>1, <2>1, <3>2, MoveMaps
  <2>4. CASE Refuse(r)
    <3>1. pc[r] = "idle" /\ phase[r] = "score" /\ pc'[r] = "done"
      BY <1>1, <2>4 DEF Refuse, TypeOK, Rounds
    <3>2. Status(r) = "idle" /\ Status(r)' = "closed"
      BY <1>2, <2>1, <3>1 DEF StatusTable
    <3>3. QED
      BY <1>1, <2>1, <3>2, MoveMaps
  <2>5. CASE CompileError(r)
    <3>1. /\ pc[r] = "compile" /\ phase[r] = "score" /\ pc'[r] = "done"
          /\ src[Key(r)] \in Broken
      BY <1>1, <2>5 DEF CompileError, TypeOK, Rounds
    <3>2. Compiled(job[r].lang)
      BY <1>1, <3>1 DEF Rounds
    <3>3. Status(r) = "taken" /\ Status(r)' = "closed"
      BY <1>2, <2>1, <3>1 DEF StatusTable, Working
    <3>4. r \in Disturbed \/ job[r].code \in Broken
      BY <3>1 DEF IInv, Own, OwnWork, Needs, Disturbed
    <3>5. Abstract!Move(r, "taken", "closed")
      BY <1>1, <2>1, <3>3, MoveMaps
    <3>6. QED
      BY <3>2, <3>4, <3>5
  <2>6. CASE Kill(r)
    <3>1. Working(r) /\ pc'[r] = "dead"
      BY <1>1, <2>6 DEF Kill, TypeOK
    <3>2. CASE phase[r] = "table"
      <4>1. Status(r) = "graded" /\ Status(r)' = "graded"
        BY <1>2, <2>1, <3>1, <3>2 DEF StatusTable, Working
      <4>2. QED
        BY <2>2, <4>1
    <3>3. CASE phase[r] = "score"
      <4>1. Status(r) = "taken" /\ Status(r)' = "lost"
        BY <1>2, <2>1, <3>1, <3>3 DEF StatusTable
      <4>2. QED
        BY <1>1, <2>1, <4>1, MoveMaps
    <3>4. QED
      BY <1>1, <3>2, <3>3 DEF TypeOK
  <2>7. CASE CompileBegin(r) \/ CompileReturn(r) \/ StartRun(r) \/ CompareScore(r) \/ CompareRow(r)
    <3>1. Working(r) /\ Working(r)'
      BY <1>1, <2>7 DEF CompileBegin, CompileReturn, StartRun, CompareScore, CompareRow,
         TypeOK, Working
    <3>2. Status(r)' = Status(r)
      BY <1>1, <1>2, <2>1, <3>1 DEF StatusTable, Working, TypeOK
    <3>3. QED
      BY <2>2, <3>2
  <2>8. CASE Reply(r)
    <3>1. pc[r] = "test" /\ pc'[r] = "done" /\ phase[r] = "table"
      BY <1>1, <2>8 DEF Reply, TypeOK
    <3>2. Status(r) = "graded" /\ Status(r)' = "graded"
      BY <1>2, <2>1, <3>1 DEF StatusTable
    <3>3. QED
      BY <2>2, <3>2
  <2>9. CASE LinkEnd(r) \/ FinishRun(r)
    <3>1. pc'[r] = pc[r]
      BY <2>9 DEF LinkEnd, FinishRun
    <3>2. QED
      BY <1>1, <2>1, <2>2, <3>1, StatusKept
  <2>10. QED
    BY <1>5, <2>3, <2>4, <2>5, <2>6, <2>7, <2>8, <2>9 DEF Step
<1>6. QED
  BY <1>3, <1>4, <1>5 DEF Next, vars, local, Tick

\* The end of the first loop enters the score that is deserved, or one of a disturbed request.
LEMMA RecordMaps ==
    ASSUME IInv, [Next]_vars, NEW r \in Req, RecordScore(r)
    PROVE  /\ Abstract!Move(r, "taken", "graded")
           /\ \E v \in [pass : 0 .. MaxTests, total : 1 .. MaxTests] :
                 /\ r \notin Disturbed => v = Deserves(job[r])
                 /\ LogMap' = Append(LogMap, [req |-> r, verdict |-> v])
<1> DEFINE n == Len(submissions)
           p == job[r].problem
           v == [pass |-> pass[r], total |-> Total(p)]
           L == [req : Req, verdict : [pass : Nat, total : Nat]]
<1>1. TypeOK /\ Rounds /\ TypeOK'
  BY TypeStep DEF IInv
<1>2. /\ n \in Nat /\ Len(submissions') = n + 1
      /\ \A k \in 1 .. n : submissions'[k] = submissions[k]
      /\ submissions'[n + 1].req = r
      /\ submissions'[n + 1].pass = pass[r] /\ submissions'[n + 1].total = Total(p)
  <2>1. submissions'[n + 1] = Line(r) /\ n \in Nat
    BY <1>1, LogGrows DEF TypeOK
  <2>2. QED
    BY <1>1, <2>1, LogGrows DEF Line
<1>3. /\ Working(r) /\ phase[r] = "score" /\ ~MoreTests(r)
      /\ pc' = pc /\ phase'[r] = "table"
      /\ \A q \in Req \ {r} : phase'[q] = phase[q]
  BY <1>1 DEF RecordScore, TypeOK, Working
<1>4. Status(r) = "taken" /\ Status(r)' = "graded"
  BY <1>3, StatusIs DEF StatusTable, Working
<1>5. Abstract!Move(r, "taken", "graded")
  BY <1>1, <1>3, <1>4, MoveMaps
<1>6. v \in [pass : 0 .. MaxTests, total : 1 .. MaxTests]
  <2>1. p \in Problem /\ pass[r] \in Nat /\ tc[r] \in Nat
    BY <1>1 DEF TypeOK, Job
  <2>2. pass[r] < tc[r] /\ tc[r] <= Total(p) + 1
    BY <1>1, <1>3 DEF Rounds
  <2>3. Total(p) \in 1 .. MaxTests /\ MaxTests \in Nat
    BY <2>1, TotalBound, ProgramsAssumption
  <2>4. QED
    BY <2>1, <2>2, <2>3
<1>7. r \notin Disturbed => v = Deserves(job[r])
  <2>1. Stop(p) = tc[r]
    BY <1>1, <1>3, AtStop
  <2>2. ~hit[r] => pass[r] = Cardinality(Solved(job[r].code, p, Stop(p)))
    BY <1>3, <2>1 DEF IInv, Own, OwnWork
  <2>3. QED
    BY <2>2 DEF Deserves, Disturbed
<1>8. LogMap' = Append(LogMap, [req |-> r, verdict |-> v])
  <2>1. LogMap \in [1 .. n -> L]
    <3>1. \A k \in 1 .. n : submissions[k] \in Record
      BY <1>1, ElementOfSeq DEF TypeOK
    <3>2. QED
      BY <3>1 DEF LogMap, Record
  <2>2. LogMap' \in [1 .. n + 1 -> L]
    <3>1. \A k \in 1 .. n + 1 : submissions'[k] \in Record
      BY <1>1, <1>2, ElementOfSeq DEF TypeOK
    <3>2. QED
      BY <1>2, <3>1 DEF LogMap, Record
  <2>3. \A k \in 1 .. n : LogMap'[k] = LogMap[k]
    BY <1>2 DEF LogMap
  <2>4. LogMap'[n + 1] = [req |-> r, verdict |-> v]
    BY <1>2 DEF LogMap
  <2>5. QED
    BY <1>2, <2>1, <2>2, <2>3, <2>4, AppendIs
<1>9. QED
  BY <1>5, <1>6, <1>7, <1>8

LEMMA InitMaps == Init => Abstract!Init
<1> SUFFICES ASSUME Init PROVE Abstract!Init
  OBVIOUS
<1>1. \A r \in Req : Status(r) = "idle"
  BY StatusIs DEF Init, StatusTable
<1>2. QED
  BY <1>1 DEF Init, Abstract!Init

LEMMA StepMaps == IInv /\ [Next]_vars => [Abstract!Next]_(Abstract!vars)
<1> SUFFICES ASSUME IInv, [Next]_vars PROVE Abstract!Next
  OBVIOUS
<1>1. job' = job
  BY JobKept
<1>2. Disturbed \subseteq Disturbed'
  BY HitStays DEF IInv, Disturbed
<1>3. CASE \A r \in Req : ~RecordScore(r)
  BY <1>1, <1>2, <1>3, QuietMaps
     DEF Abstract!Next, Abstract!Take, Abstract!TurnAway, Abstract!Reject, Abstract!Lose,
         StatusMap, LogMap, Disturbed
<1>4. ASSUME NEW r \in Req, RecordScore(r) PROVE Abstract!Next
  BY <1>1, <1>2, <1>4, RecordMaps DEF Abstract!Next, Abstract!Grade, LogMap, Disturbed
<1>5. QED
  BY <1>3, <1>4

\* judge.c keeps the promise of Grading: a submission gets at most one line, with the score
\* its program deserves, and only what does not compile is turned down; nothing is promised
\* where another process wrote one of the files of the request.
THEOREM JudgeRefinement == Spec => ImplementsGrading
<1>1. Init => Abstract!Init
  BY InitMaps
<1>2. IInv /\ [Next]_vars => [Abstract!Next]_(Abstract!vars)
  BY StepMaps
<1>3. QED
  BY <1>1, <1>2, Invariance, PTL DEF Spec, Abstract!Spec, ImplementsGrading
=============================================================================
