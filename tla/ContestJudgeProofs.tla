------------------------- MODULE ContestJudgeProofs --------------------------
(***************************************************************************)
(* Proofs about ContestJudge: for any number of requests, contests,        *)
(* problems and tests, whatever the programs print, and with or without    *)
(* killed requests.                                                        *)
(***************************************************************************)
EXTENDS ContestJudge, FiniteSetTheorems, SequenceTheorems, TLAPS

-----------------------------------------------------------------------------
(* Counting tests.                                                         *)

\* The tests that count are those from 1 to Total(p), or there is none.
LEMMA Counting ==
    ASSUME NEW p \in Problem
    PROVE  LET found == {n \in TestNo : 1 .. n \subseteq Tests[p]} IN
           /\ Total(p) \in TestNo
           /\ found = {} => Total(p) = 1 /\ 1 \notin Tests[p]
           /\ found # {} => found = 1 .. Total(p) /\ 1 .. Total(p) \subseteq Tests[p]
<1> DEFINE found == {n \in TestNo : 1 .. n \subseteq Tests[p]}
<1>1. MaxTests \in Nat \ {0} /\ Tests[p] \subseteq TestNo
  BY ProgramsAssumption
<1>2. IsFiniteSet(TestNo) /\ Cardinality(TestNo) = MaxTests
  BY <1>1, FS_Interval DEF TestNo
<1>3. IsFiniteSet(found) /\ Cardinality(found) \in 0 .. MaxTests
  BY <1>2, FS_Subset, FS_CardinalityType
<1>4. CASE found = {}
  <2>1. Total(p) = 1 /\ 1 \in TestNo
    BY <1>1, <1>4 DEF Total, TestNo
  <2>2. 1 \notin Tests[p]
    BY <1>4, <2>1
  <2>3. QED
    BY <1>4, <2>1, <2>2
<1>5. CASE found # {}
  <2> DEFINE size == Cardinality(found)
  <2>1. size \in 1 .. MaxTests /\ Total(p) = size
    BY <1>3, <1>5, FS_EmptySet DEF Total
  <2>2. ASSUME NEW n \in 1 .. size
        PROVE  n \in Tests[p]
    <3>1. SUFFICES ASSUME n \notin Tests[p] PROVE FALSE
      OBVIOUS
    <3>2. found \subseteq 1 .. n - 1
      <4>1. ASSUME NEW m \in found, m >= n
            PROVE  FALSE
        BY <2>2, <3>1, <4>1 DEF TestNo
      <4>2. QED
        BY <2>2, <4>1 DEF TestNo
    <3>3. IsFiniteSet(1 .. n - 1) /\ Cardinality(1 .. n - 1) = n - 1
      BY <2>2, FS_Interval
    <3>4. size <= n - 1
      BY <3>2, <3>3, FS_Subset
    <3>5. QED
      BY <2>1, <3>4
  <2>3. ASSUME NEW m \in found
        PROVE  m <= size
    <3>1. 1 .. m \subseteq found
      <4>1. m \in 1 .. MaxTests /\ 1 .. m \subseteq Tests[p]
        BY <2>3 DEF TestNo
      <4>2. ASSUME NEW n \in 1 .. m
            PROVE  n \in 1 .. MaxTests /\ 1 .. n \subseteq 1 .. m
        BY <1>1, <4>1
      <4>3. QED
        BY <4>1, <4>2 DEF TestNo
    <3>2. IsFiniteSet(1 .. m) /\ Cardinality(1 .. m) = m
      BY <2>3, FS_Interval DEF TestNo
    <3>3. QED
      BY <1>3, <3>1, <3>2, FS_Subset
  <2>4. found = 1 .. size
    <3>1. \A m \in found : m \in 1 .. size
      BY <2>1, <2>3 DEF TestNo
    <3>2. \A m \in 1 .. size : m \in TestNo /\ 1 .. m \subseteq Tests[p]
      BY <1>1, <2>1, <2>2 DEF TestNo
    <3>3. QED
      BY <3>1, <3>2
  <2>5. QED
    BY <1>5, <2>1, <2>2, <2>4 DEF TestNo
<1>6. QED
  BY <1>4, <1>5

\* Who has passed all tests of the loop deserves to be accepted.
LEMMA DeservesIs ==
    ASSUME NEW j \in Job
    PROVE  (\A n \in 1 .. Total(j.problem) : Passes(j, n)) <=> Deserves(j) = "AC"
<1> DEFINE found == {n \in TestNo : 1 .. n \subseteq Tests[j.problem]}
<1>1. j.problem \in Problem
  BY DEF Job
<1>2. CASE found = {}
  BY <1>1, <1>2, Counting DEF Deserves, Passes
<1>3. CASE found # {}
  <2>1. found = 1 .. Total(j.problem) /\ 1 .. Total(j.problem) \subseteq Tests[j.problem]
    BY <1>1, <1>3, Counting
  <2>2. QED
    BY <1>3, <2>1 DEF Deserves, Passes
<1>4. QED
  BY <1>2, <1>3

LEMMA DeservesType == ASSUME NEW j PROVE Deserves(j) \in {"AC", "WA"}
BY DEF Deserves

-----------------------------------------------------------------------------
(* Types, children and tests.                                              *)

LEMMA NextCases ==
    ASSUME [Next]_vars
    PROVE  \/ UNCHANGED vars
           \/ Tick
           \/ \E r \in Req : \/ Refuse(r) \/ SaveCode(r) \/ CompileError(r)
                             \/ CompileBegin(r) \/ LinkEnd(r) \/ CompileReturn(r)
                             \/ StartRun(r) \/ StartNothing(r) \/ FinishRun(r)
                             \/ Compare(r) \/ RecordVerdict(r) \/ CleanUp(r) \/ Kill(r)
BY DEF Next, Step

LEMMA NamesType ==
    ASSUME TypeOK, NEW r \in Req
    PROVE  /\ job[r] \in Job /\ job[r].problem \in Problem /\ job[r].lang \in Lang
           /\ job[r].code \in Code /\ job[r].code # None
           /\ KeyOf(r) \in Key /\ Source(r) \in Key \X Lang
           /\ src[Source(r)] \in Code \cup {None} /\ prog[KeyOf(r)] \in Code \cup {None}
<1>1. /\ job[r] \in Job /\ job[r].problem \in Problem /\ job[r].lang \in Lang
      /\ job[r].code \in Code /\ job[r].contest \in Contest
  BY DEF TypeOK, Job
<1>2. KeyOf(r) \in Key
  BY <1>1 DEF TypeOK, KeyOf, Key
<1>3. job[r].code # None
  BY <1>1, ProgramsAssumption
<1>4. QED
  BY <1>1, <1>2, <1>3 DEF TypeOK, Source

LEMMA ChildType ==
    ASSUME NEW op \in {"link", "run"}, NEW code \in Code \cup {None}
    PROVE  /\ [op |-> op, code |-> code] \in Child
           /\ [op |-> op, code |-> code] # None
BY ProgramsAssumption DEF Child

LEMMA RanType ==
    ASSUME NEW c \in Code \cup {None}, NEW p \in Problem, NEW n \in Tests[p]
    PROVE  Ran(c, p, n) \in File
BY ProgramsAssumption DEF Ran, File

\* What FinishRun leaves in the file of its request, and nothing else.
LEMMA FinishRunOut ==
    ASSUME TypeOK, NEW r \in Req, FinishRun(r)
    PROVE  LET printed == Ran(child[r].code, job[r].problem, tc[r]) IN
           \E contents \in {None, printed, Mixed} :
               /\ out' = [out EXCEPT ![OutFile(r)] = contents]
               /\ out[OutFile(r)] = Empty /\ ~Shared(r) => contents = printed
<1> DEFINE printed == Ran(child[r].code, job[r].problem, tc[r])
<1>1. Empty # None
  BY ProgramsAssumption
<1>2. CASE out[OutFile(r)] = None
  BY <1>1, <1>2 DEF FinishRun
<1>3. CASE out[OutFile(r)] = Empty /\ ~Shared(r)
  BY <1>1, <1>3 DEF FinishRun
<1>4. CASE out[OutFile(r)] # None /\ ~(out[OutFile(r)] = Empty /\ ~Shared(r))
  BY <1>4 DEF FinishRun
<1>5. QED
  BY <1>2, <1>3, <1>4

LEMMA TypeInit == Init => TypeOK /\ Control
BY ContestJudgeAssumption, ProgramsAssumption
   DEF Init, TypeOK, Control, Second, Child, File, Working

LEMMA TypeStep == TypeOK /\ Control /\ [Next]_vars => TypeOK'
<1> SUFFICES ASSUME TypeOK, Control, [Next]_vars PROVE TypeOK'
  OBVIOUS
<1> USE DEF TypeOK
<1>1. CASE UNCHANGED vars
  BY <1>1 DEF vars, files, local
<1>2. CASE Tick
  BY <1>2, ContestJudgeAssumption DEF Tick, files, local, Second
<1>3. ASSUME NEW r \in Req, Refuse(r) PROVE TypeOK'
  BY <1>3 DEF Refuse, files, local
<1>4. ASSUME NEW r \in Req, SaveCode(r) PROVE TypeOK'
  <2>1. job[r].code \in Code /\ second' \in [Req -> Second]
    BY <1>4, NamesType DEF SaveCode
  <2>2. src' \in [Key \X Lang -> Code \cup {None}]
    BY <1>4, <2>1 DEF SaveCode
  <2>3. QED
    BY <1>4, <2>1, <2>2 DEF SaveCode
<1>5. ASSUME NEW r \in Req, CompileError(r) PROVE TypeOK'
  <2>1. src' \in [Key \X Lang -> Code \cup {None}]
    BY <1>5 DEF CompileError
  <2>2. QED
    BY <1>5, <2>1 DEF CompileError, local
<1>6. ASSUME NEW r \in Req, CompileBegin(r) PROVE TypeOK'
  <2>1. [op |-> "link", code |-> src[Source(r)]] \in Child
    BY NamesType, ChildType
  <2>2. prog' \in [Key -> Code \cup {None}]
    BY <1>6 DEF CompileBegin
  <2>3. QED
    BY <1>6, <2>1, <2>2 DEF CompileBegin, local
<1>7. ASSUME NEW r \in Req, LinkEnd(r) PROVE TypeOK'
  <2>1. child[r].code \in Code \cup {None}
    BY <1>7 DEF LinkEnd, Child
  <2>2. prog' \in [Key -> Code \cup {None}]
    BY <1>7, <2>1 DEF LinkEnd
  <2>3. QED
    BY <1>7, <2>2 DEF LinkEnd, local
<1>8. ASSUME NEW r \in Req, CompileReturn(r) PROVE TypeOK'
  BY <1>8 DEF CompileReturn, files, local
<1>9. ASSUME NEW r \in Req, StartRun(r) PROVE TypeOK'
  <2>1. [op |-> "run", code |-> IF Compiled(job[r].lang) THEN prog[KeyOf(r)]
                                                      ELSE src[Source(r)]] \in Child
    BY NamesType, ChildType
  <2>2. out' \in [Key \X TestNo -> File]
    BY <1>9 DEF StartRun, File
  <2>3. QED
    BY <1>9, <2>1, <2>2 DEF StartRun, local
<1>10. ASSUME NEW r \in Req, StartNothing(r) PROVE TypeOK'
  BY <1>10 DEF StartNothing, files, local
<1>11. ASSUME NEW r \in Req, FinishRun(r) PROVE TypeOK'
  <2> DEFINE printed == Ran(child[r].code, job[r].problem, tc[r])
  <2>1. child[r].code \in Code \cup {None}
    BY <1>11 DEF FinishRun, Child
  <2>2. tc[r] \in Tests[job[r].problem] /\ job[r].problem \in Problem
    BY <1>11, NamesType DEF FinishRun, Control
  <2>3. {None, printed, Mixed} \subseteq File
    BY <2>1, <2>2, RanType DEF File
  <2>4. out' \in [Key \X TestNo -> File]
    BY <1>11, <2>3, FinishRunOut
  <2>5. QED
    BY <1>11, <2>4 DEF FinishRun, local
<1>12. ASSUME NEW r \in Req, Compare(r) PROVE TypeOK'
  <2>1. pass' \in [Req -> Nat] /\ tc' \in [Req -> Nat \ {0}]
    BY <1>12 DEF Compare
  <2>2. out' \in [Key \X TestNo -> File]
    BY <1>12 DEF Compare, File
  <2>3. QED
    BY <1>12, <2>1, <2>2 DEF Compare
<1>13. ASSUME NEW r \in Req, RecordVerdict(r) PROVE TypeOK'
  <2>1. [contest |-> job[r].contest, uid |-> UserId[job[r].user], problem |-> job[r].problem,
         verdict |-> IF pass[r] = Total(job[r].problem) THEN "AC" ELSE "WA", req |-> r] \in Record
    BY ContestJudgeAssumption DEF Record, Job
  <2>2. QED
    BY <1>13, <2>1 DEF RecordVerdict, files, local
<1>14. ASSUME NEW r \in Req, CleanUp(r) PROVE TypeOK'
  <2>1. src' \in [Key \X Lang -> Code \cup {None}] /\ prog' \in [Key -> Code \cup {None}]
    BY <1>14 DEF CleanUp
  <2>2. QED
    BY <1>14, <2>1 DEF CleanUp, local
<1>15. ASSUME NEW r \in Req, Kill(r) PROVE TypeOK'
  BY <1>15 DEF Kill, files, local
<1>16. QED
  BY NextCases, <1>1, <1>2, <1>3, <1>4, <1>5, <1>6, <1>7, <1>8, <1>9, <1>10,
     <1>11, <1>12, <1>13, <1>14, <1>15

LEMMA ControlStep == TypeOK /\ Control /\ [Next]_vars => Control'
<1> SUFFICES ASSUME TypeOK, Control, [Next]_vars PROVE Control'
  OBVIOUS
<1>0. \A r \in Req : Total(job[r].problem) \in Nat \ {0}
  BY NamesType, Counting, ProgramsAssumption DEF TestNo
<1> USE DEF TypeOK, Control, Working
<1>1. CASE UNCHANGED vars
  BY <1>1 DEF vars, local, MoreTests
<1>2. CASE Tick
  BY <1>2 DEF Tick, local, MoreTests
<1>3. ASSUME NEW r \in Req, Refuse(r) PROVE Control'
  BY <1>3 DEF Refuse, local, MoreTests
<1>4. ASSUME NEW r \in Req, SaveCode(r) PROVE Control'
  BY <1>0, <1>4 DEF SaveCode, MoreTests
<1>5. ASSUME NEW r \in Req, CompileError(r) PROVE Control'
  BY <1>5 DEF CompileError, local, MoreTests
<1>6. ASSUME NEW r \in Req, CompileBegin(r) PROVE Control'
  BY <1>6 DEF CompileBegin, local, MoreTests
<1>7. ASSUME NEW r \in Req, LinkEnd(r) PROVE Control'
  BY <1>7 DEF LinkEnd, local, MoreTests
<1>8. ASSUME NEW r \in Req, CompileReturn(r) PROVE Control'
  BY <1>0, <1>8 DEF CompileReturn, local, MoreTests
<1>9. ASSUME NEW r \in Req, StartRun(r) PROVE Control'
  BY <1>9 DEF StartRun, local, MoreTests
<1>10. ASSUME NEW r \in Req, StartNothing(r) PROVE Control'
  BY <1>10 DEF StartNothing, local, MoreTests
<1>11. ASSUME NEW r \in Req, FinishRun(r) PROVE Control'
  BY <1>11 DEF FinishRun, local, MoreTests
<1>12. ASSUME NEW r \in Req, Compare(r) PROVE Control'
  BY <1>0, <1>12 DEF Compare, MoreTests
<1>13. ASSUME NEW r \in Req, RecordVerdict(r) PROVE Control'
  BY <1>13 DEF RecordVerdict, local, MoreTests
<1>14. ASSUME NEW r \in Req, CleanUp(r) PROVE Control'
  BY <1>14 DEF CleanUp, local, MoreTests
<1>15. ASSUME NEW r \in Req, Kill(r) PROVE Control'
  BY <1>15 DEF Kill, local, MoreTests
<1>16. QED
  BY NextCases, <1>1, <1>2, <1>3, <1>4, <1>5, <1>6, <1>7, <1>8, <1>9, <1>10,
     <1>11, <1>12, <1>13, <1>14, <1>15

\* The judge keeps to its types, and never has more under way than the test it is at.
THEOREM ContestTyping == Spec => [](TypeOK /\ Control)
<1>1. TypeOK /\ Control /\ [Next]_vars => (TypeOK /\ Control)'
  BY TypeStep, ControlStep
<1>2. QED
  BY TypeInit, <1>1, PTL DEF Spec

-----------------------------------------------------------------------------
(* Who has which names.                                                    *)

\* A request that has arrived keeps its names.
LEMMA NamesStay ==
    ASSUME TypeOK, [Next]_vars, NEW r \in Req, Arrived(r)
    PROVE  Arrived(r)' /\ KeyOf(r)' = KeyOf(r) /\ Source(r)' = Source(r)
<1>1. job' = job
  BY NextCases DEF vars, local, files, Tick, Refuse, SaveCode, CompileError, CompileBegin,
     LinkEnd, CompileReturn, StartRun, StartNothing, FinishRun, Compare, RecordVerdict,
     CleanUp, Kill
<1>2. second'[r] = second[r] /\ Arrived(r)'
  <2>1. CASE UNCHANGED vars \/ Tick
    BY <2>1 DEF vars, local, Tick, Arrived
  <2>2. ASSUME NEW q \in Req, SaveCode(q) \/ Refuse(q)
        PROVE  second'[r] = second[r] /\ Arrived(r)'
    BY <2>2 DEF TypeOK, SaveCode, Refuse, local, Arrived
  <2>3. ASSUME NEW q \in Req, CompileError(q) \/ CompileBegin(q) \/ CompileReturn(q)
                               \/ StartRun(q) \/ StartNothing(q)
        PROVE  second'[r] = second[r] /\ Arrived(r)'
    BY <2>3 DEF TypeOK, CompileError, CompileBegin, CompileReturn, StartRun, StartNothing,
       local, Arrived
  <2>4. ASSUME NEW q \in Req, LinkEnd(q) \/ FinishRun(q) \/ Compare(q)
                               \/ RecordVerdict(q) \/ CleanUp(q) \/ Kill(q)
        PROVE  second'[r] = second[r] /\ Arrived(r)'
    BY <2>4 DEF TypeOK, LinkEnd, FinishRun, Compare, RecordVerdict, CleanUp, Kill,
       local, Arrived
  <2>5. QED
    BY NextCases, <2>1, <2>2, <2>3, <2>4
<1>3. QED
  BY <1>1, <1>2 DEF KeyOf, Source

\* Who is alone after a step was alone before it.
LEMMA AloneBefore ==
    ASSUME TypeOK, [Next]_vars, NEW r \in Req, Arrived(r), Alone(r)'
    PROVE  Alone(r)
<1>1. ASSUME NEW q \in Req \ {r}, Arrived(q)
      PROVE  KeyOf(q) # KeyOf(r)
  BY <1>1, NamesStay DEF Alone, Arrived
<1>2. QED
  BY <1>1 DEF Alone, Arrived

\* A request, or its child, touches only the files with its own names.
LEMMA OwnFilesOnly ==
    ASSUME TypeOK, Control, [Next]_vars, NEW q \in Req,
           SaveCode(q) \/ Refuse(q) \/ Step(q) \/ Kill(q),
           NEW k \in Key, Arrived(q)' => KeyOf(q)' # k
    PROVE  /\ \A l \in Lang : src'[<<k, l>>] = src[<<k, l>>]
           /\ prog'[k] = prog[k]
           /\ \A n \in TestNo : out'[<<k, n>>] = out[<<k, n>>]
<1> USE DEF TypeOK
<1>1. CASE Refuse(q)
  BY <1>1 DEF Refuse, files
<1>2. CASE SaveCode(q)
  <2>1. Arrived(q)' /\ KeyOf(q)' = <<job[q].contest, job[q].problem, clock>>
    BY <1>2 DEF SaveCode, Arrived, KeyOf
  <2>2. QED
    BY <1>2, <2>1 DEF SaveCode
<1>3. CASE Step(q) \/ Kill(q)
  <2>1. Arrived(q)
    BY <1>3 DEF Step, CompileError, CompileBegin, LinkEnd, CompileReturn, StartRun,
       StartNothing, FinishRun, Compare, RecordVerdict, CleanUp, Kill, Arrived, Control, Working
  <2>2. KeyOf(q) # k /\ KeyOf(q) \in Key
    BY <2>1, NamesStay, NamesType
  <2>3. CASE CompileError(q)
    BY <2>2, <2>3 DEF CompileError, Source
  <2>4. CASE CompileBegin(q)
    BY <2>2, <2>4 DEF CompileBegin
  <2>5. CASE LinkEnd(q)
    BY <2>2, <2>5 DEF LinkEnd
  <2>6. CASE CompileReturn(q) \/ StartNothing(q) \/ RecordVerdict(q) \/ Kill(q)
    BY <2>6 DEF CompileReturn, StartNothing, RecordVerdict, Kill, files
  <2>7. CASE StartRun(q)
    BY <2>2, <2>7 DEF StartRun, OutFile
  <2>8. CASE FinishRun(q)
    <3>1. PICK contents : out' = [out EXCEPT ![OutFile(q)] = contents]
      BY <2>8, FinishRunOut
    <3>2. QED
      BY <2>2, <2>8, <3>1 DEF FinishRun, OutFile
  <2>9. CASE Compare(q)
    BY <2>2, <2>9 DEF Compare, OutFile
  <2>10. CASE CleanUp(q)
    BY <2>2, <2>10 DEF CleanUp, Source
  <2>11. QED
    BY <1>3, <2>3, <2>4, <2>5, <2>6, <2>7, <2>8, <2>9, <2>10 DEF Step
<1>4. QED
  BY <1>1, <1>2, <1>3

\* A step of another request leaves one that is alone, and its files, as they are.
LEMMA OthersElsewhere ==
    ASSUME TypeOK, Control, [Next]_vars, NEW r \in Req, Arrived(r), Alone(r)',
           NEW q \in Req \ {r}, SaveCode(q) \/ Refuse(q) \/ Step(q) \/ Kill(q)
    PROVE  /\ job' = job /\ pc'[r] = pc[r] /\ tc'[r] = tc[r] /\ pass'[r] = pass[r]
           /\ child'[r] = child[r]
           /\ \A l \in Lang : src'[<<KeyOf(r), l>>] = src[<<KeyOf(r), l>>]
           /\ prog'[KeyOf(r)] = prog[KeyOf(r)]
           /\ \A n \in TestNo : out'[<<KeyOf(r), n>>] = out[<<KeyOf(r), n>>]
<1>1. KeyOf(r) \in Key /\ (Arrived(q)' => KeyOf(q)' # KeyOf(r))
  BY NamesStay, NamesType DEF Alone, Arrived
<1>2. /\ \A l \in Lang : src'[<<KeyOf(r), l>>] = src[<<KeyOf(r), l>>]
      /\ prog'[KeyOf(r)] = prog[KeyOf(r)]
      /\ \A n \in TestNo : out'[<<KeyOf(r), n>>] = out[<<KeyOf(r), n>>]
  BY <1>1, OwnFilesOnly
<1>3. /\ job' = job /\ pc'[r] = pc[r] /\ tc'[r] = tc[r] /\ pass'[r] = pass[r]
      /\ child'[r] = child[r]
  BY DEF TypeOK, SaveCode, Refuse, Step, CompileError, CompileBegin, LinkEnd, CompileReturn,
     StartRun, StartNothing, FinishRun, Compare, RecordVerdict, CleanUp, Kill, local
<1>4. QED
  BY <1>2, <1>3

LEMMA FreshInit == Init => Fresh
BY DEF Init, Fresh

LEMMA FreshStep == TypeOK /\ Control /\ Fresh /\ [Next]_vars => Fresh'
<1> SUFFICES ASSUME TypeOK, Control, Fresh, [Next]_vars, NEW k \in Key,
                    \A q \in Req : Arrived(q)' => KeyOf(q)' # k
             PROVE  /\ \A l \in Lang : src'[<<k, l>>] = None
                    /\ prog'[k] = None
                    /\ \A n \in TestNo : out'[<<k, n>>] = None
  BY DEF Fresh
<1>1. \A q \in Req : Arrived(q) => KeyOf(q) # k
  BY NamesStay
<1>2. /\ \A l \in Lang : src[<<k, l>>] = None
      /\ prog[k] = None
      /\ \A n \in TestNo : out[<<k, n>>] = None
  BY <1>1 DEF Fresh
<1>3. CASE UNCHANGED vars \/ Tick
  BY <1>2, <1>3 DEF vars, Tick, files
<1>4. ASSUME NEW q \in Req, SaveCode(q) \/ Refuse(q) \/ Step(q) \/ Kill(q)
      PROVE  /\ \A l \in Lang : src'[<<k, l>>] = None
             /\ prog'[k] = None
             /\ \A n \in TestNo : out'[<<k, n>>] = None
  BY <1>2, <1>4, OwnFilesOnly
<1>5. QED
  BY <1>3, <1>4 DEF Next

-----------------------------------------------------------------------------
(* The work of a request that is alone.                                    *)

\* The test a request is at while it runs is one of those that exist or test 1.
LEMMA RunNumber ==
    ASSUME TypeOK, Control, NEW r \in Req, MoreTests(r)
    PROVE  tc[r] \in TestNo /\ OutFile(r) \in Key \X TestNo
<1>1. tc[r] \in 1 .. Total(job[r].problem) /\ Total(job[r].problem) \in 1 .. MaxTests
  BY NamesType, Counting DEF TypeOK, MoreTests, TestNo
<1>2. QED
  BY <1>1, NamesType, ProgramsAssumption DEF OutFile, TestNo

LEMMA OwnKept ==
    ASSUME TypeOK, Control, NEW r \in Req, OwnWork(r), Arrived(r), Alone(r),
           job' = job, KeyOf(r)' = KeyOf(r), pc'[r] = pc[r], tc'[r] = tc[r],
           pass'[r] = pass[r], child'[r] = child[r],
           \A l \in Lang : src'[<<KeyOf(r), l>>] = src[<<KeyOf(r), l>>],
           prog'[KeyOf(r)] = prog[KeyOf(r)],
           \A n \in TestNo : out'[<<KeyOf(r), n>>] = out[<<KeyOf(r), n>>]
    PROVE  OwnWork(r)'
<1>1. src'[Source(r)'] = src[Source(r)]
  BY NamesType DEF Source
<1>2. pc[r] = "run" => out'[OutFile(r)'] = out[OutFile(r)]
  BY RunNumber DEF OutFile, Control
<1>3. QED
  BY <1>1, <1>2 DEF OwnWork, Working, Passes

\* Nobody else has written to the files of a request that is alone.
LEMMA AloneShared ==
    ASSUME TypeOK, Control, NEW r \in Req, Alone(r)
    PROVE  ~Shared(r)
BY DEF Alone, Shared, OutFile, Control

\* A request arrives.
LEMMA OwnSaved ==
    ASSUME TypeOK, Control, Fresh, [Next]_vars, NEW r \in Req, SaveCode(r), Alone(r)'
    PROVE  OwnWork(r)'
<1> DEFINE k == KeyOf(r)'
<1>1. k = <<job[r].contest, job[r].problem, clock>> /\ k \in Key
  BY NamesType DEF SaveCode, KeyOf, TypeOK, Key, Job
<1>2. \A q \in Req : Arrived(q) => KeyOf(q) # k
  BY NamesStay DEF Arrived, Alone, SaveCode
<1>3. /\ prog[k] = None
      /\ \A n \in TestNo : out[<<k, n>>] = None
  BY <1>1, <1>2 DEF Fresh
<1>4. /\ pc[r] = "idle" /\ pc'[r] \in {"compile", "test"}
      /\ pc'[r] = "test" => ~Compiled(job[r].lang)
      /\ UNCHANGED <<prog, out, job, tc, pass, child>>
  BY DEF SaveCode, TypeOK
<1>5. tc[r] = 1 /\ pass[r] = 0 /\ child[r] = None
  BY <1>4 DEF Control
<1>6. src'[Source(r)'] = job[r].code
  <2>1. Source(r)' = <<k, job[r].lang>>
    BY <1>4 DEF Source
  <2>2. QED
    BY <1>1, <2>1, NamesType DEF SaveCode, TypeOK
<1> HIDE DEF k
<1>7. QED
  BY <1>3, <1>4, <1>5, <1>6 DEF OwnWork, Working, k

\* A test is compared: as many tests are passed as the program passes.
LEMMA OwnCompared ==
    ASSUME TypeOK, Control, [Next]_vars, NEW r \in Req, Compare(r), OwnWork(r), Alone(r)
    PROVE  OwnWork(r)'
<1> DEFINE k == KeyOf(r)
           n == tc[r]
           P == Prints[job[r].code][job[r].problem][n]
           E == Expected[job[r].problem][n]
<1> USE DEF TypeOK
<1>1. /\ pc[r] = "run" /\ child[r] = None /\ tc'[r] = n + 1 /\ pc'[r] = "test"
      /\ UNCHANGED <<src, prog, job, second, child>>
  BY DEF Compare
<1>2. Arrived(r) /\ Working(r) /\ n \in TestNo /\ n \in Nat \ {0} /\ pass[r] \in Nat
  BY <1>1, RunNumber DEF Arrived, Working, Control
<1>3. KeyOf(r)' = k /\ Source(r)' = Source(r) /\ k \in Key
  BY <1>1, NamesType DEF KeyOf, Source
<1>4. \A m \in TestNo : out'[<<k, m>>] = None
  <2>1. \A m \in TestNo : m # n => out[<<k, m>>] = None
    BY <1>1, <1>2 DEF OwnWork
  <2>2. out' = [out EXCEPT ![<<k, n>>] = None]
    BY DEF Compare, OutFile
  <2>3. QED
    BY <1>2, <1>3, <2>1, <2>2
<1>5. pass'[r] = pass[r] + (IF Passes(job[r], n) THEN 1 ELSE 0)
  <2>1. CASE n \notin Tests[job[r].problem]
    BY <1>2, <2>1 DEF Compare, Passes
  <2>2. CASE n \in Tests[job[r].problem]
    <3>1. out[OutFile(r)] = P
      BY <1>1, <1>2, <2>2 DEF OwnWork
    <3>2. P \in Output /\ P # Mixed /\ P # None
      BY <2>2, NamesType, ProgramsAssumption
    <3>3. DiffW(P, E) = {IF SameW(P, E) THEN 0 ELSE 1}
      BY <3>2 DEF DiffW
    <3>4. QED
      BY <1>2, <2>2, <3>1, <3>3 DEF Compare, Passes
  <2>3. QED
    BY <2>1, <2>2
<1>6. /\ pass'[r] < n + 1
      /\ pass'[r] = n <=> \A m \in 1 .. n : Passes(job[r], m)
  <2>1. /\ pass[r] < n
        /\ pass[r] = n - 1 <=> \A m \in 1 .. n - 1 : Passes(job[r], m)
    BY <1>2 DEF OwnWork, Working
  <2>2. (\A m \in 1 .. n : Passes(job[r], m)) <=>
            (\A m \in 1 .. n - 1 : Passes(job[r], m)) /\ Passes(job[r], n)
    <3>1. (1 .. n) = (1 .. n - 1) \cup {n}
      BY <1>2
    <3>2. QED
      BY <3>1
  <2>3. QED
    BY <1>2, <1>5, <2>1, <2>2
<1>7. QED
  <2>1. /\ src[Source(r)] = job[r].code
        /\ prog[k] = (IF Compiled(job[r].lang) THEN job[r].code ELSE None)
    BY <1>1, <1>2 DEF OwnWork
  <2>2. (n + 1) - 1 = n
    BY <1>2
  <2>3. \A m : Passes(job[r], m)' = Passes(job[r], m)
    BY <1>1 DEF Passes
  <2>4. QED
    BY <1>1, <1>3, <1>4, <1>6, <2>1, <2>2, <2>3 DEF OwnWork, Working

\* The steps with the compiler.
LEMMA OwnCompiled ==
    ASSUME TypeOK, Control, [Next]_vars, NEW r \in Req, OwnWork(r), Alone(r), pc'[r] # "dead",
           CompileError(r) \/ CompileBegin(r) \/ LinkEnd(r) \/ CompileReturn(r)
    PROVE  OwnWork(r)'
<1> USE DEF TypeOK
<1>1. Source(r) \in Key \X Lang /\ KeyOf(r) \in Key /\ job[r].code # None
  BY NamesType
<1>2. CASE CompileError(r)
  <2>1. /\ pc[r] = "compile" /\ pc'[r] = "rejected"
        /\ UNCHANGED <<prog, out, job, second, tc, pass, child>>
        /\ src'[Source(r)] = None
    BY <1>1, <1>2 DEF CompileError, local
  <2>2. KeyOf(r)' = KeyOf(r) /\ Source(r)' = Source(r)
    BY <2>1 DEF KeyOf, Source
  <2>3. QED
    BY <1>2, <2>1, <2>2 DEF OwnWork, Working, Arrived
<1>3. CASE CompileBegin(r)
  <2>1. /\ pc[r] = "compile" /\ pc'[r] = "link"
        /\ UNCHANGED <<src, out, job, second, tc, pass>>
        /\ prog'[KeyOf(r)] = None
        /\ child'[r] = [op |-> "link", code |-> src[Source(r)]] /\ child'[r] # None
    BY <1>1, <1>3, NamesType, ChildType DEF CompileBegin, local
  <2>2. KeyOf(r)' = KeyOf(r) /\ Source(r)' = Source(r)
    BY <2>1 DEF KeyOf, Source
  <2>3. src[Source(r)] = job[r].code
    BY <2>1 DEF OwnWork, Working, Arrived
  <2>4. \A m : Passes(job[r], m)' = Passes(job[r], m)
    BY <2>1 DEF Passes
  <2>5. QED
    BY <2>1, <2>2, <2>3, <2>4 DEF OwnWork, Working, Arrived
<1>4. CASE LinkEnd(r)
  <2>1. /\ pc[r] = "link" /\ pc'[r] = "link" /\ child[r] # None
        /\ UNCHANGED <<src, out, job, second, tc, pass>>
        /\ prog'[KeyOf(r)] = child[r].code
        /\ child'[r] = None
    BY <1>1, <1>4 DEF LinkEnd, local, Control
  <2>2. KeyOf(r)' = KeyOf(r) /\ Source(r)' = Source(r)
    BY <2>1 DEF KeyOf, Source
  <2>3. child[r].code = job[r].code
    BY <2>1 DEF OwnWork, Working, Arrived
  <2>4. \A m : Passes(job[r], m)' = Passes(job[r], m)
    BY <2>1 DEF Passes
  <2>5. QED
    BY <2>1, <2>2, <2>3, <2>4 DEF OwnWork, Working, Arrived
<1>5. CASE CompileReturn(r)
  <2>1. /\ pc[r] = "link" /\ pc'[r] = "test" /\ child[r] = None /\ Compiled(job[r].lang)
        /\ UNCHANGED <<files, job, second, tc, pass, child>>
    BY <1>5 DEF CompileReturn, local, Control
  <2>2. KeyOf(r)' = KeyOf(r) /\ Source(r)' = Source(r)
    BY <2>1 DEF KeyOf, Source
  <2>3. \A m : Passes(job[r], m)' = Passes(job[r], m)
    BY <2>1 DEF Passes
  <2>4. QED
    BY <2>1, <2>2, <2>3 DEF OwnWork, Working, Arrived, files
<1>6. QED
  BY <1>2, <1>3, <1>4, <1>5

\* The steps of a test run.
LEMMA OwnRun ==
    ASSUME TypeOK, Control, [Next]_vars, NEW r \in Req, OwnWork(r), Alone(r), pc'[r] # "dead",
           StartRun(r) \/ StartNothing(r) \/ FinishRun(r)
    PROVE  OwnWork(r)'
<1> USE DEF TypeOK
<1>1. MoreTests(r)
  BY DEF StartRun, StartNothing, FinishRun, Control
<1>2. KeyOf(r) \in Key /\ tc[r] \in TestNo /\ OutFile(r) = <<KeyOf(r), tc[r]>>
  BY <1>1, NamesType, RunNumber DEF OutFile
<1>3. CASE StartRun(r)
  <2>1. /\ pc[r] = "test" /\ pc'[r] = "run" /\ tc[r] \in Tests[job[r].problem]
        /\ UNCHANGED <<src, prog, job, second, tc, pass>>
        /\ out' = [out EXCEPT ![OutFile(r)] = Empty]
        /\ child'[r] # None
        /\ child'[r].code = IF Compiled(job[r].lang) THEN prog[KeyOf(r)] ELSE src[Source(r)]
    BY <1>3, NamesType, ChildType DEF StartRun, local
  <2>2. KeyOf(r)' = KeyOf(r) /\ Source(r)' = Source(r) /\ OutFile(r)' = OutFile(r)
    BY <2>1 DEF KeyOf, Source, OutFile
  <2>3. child'[r].code = job[r].code
    BY <2>1 DEF OwnWork, Working, Arrived
  <2>4. /\ out'[OutFile(r)] = Empty
        /\ \A n \in TestNo : n # tc[r] => out'[<<KeyOf(r), n>>] = None
    BY <1>2, <2>1 DEF OwnWork, Arrived
  <2>5. \A m : Passes(job[r], m)' = Passes(job[r], m)
    BY <2>1 DEF Passes
  <2>6. QED
    BY <2>1, <2>2, <2>3, <2>4, <2>5 DEF OwnWork, Working, Arrived
<1>4. CASE StartNothing(r)
  <2>1. /\ pc[r] = "test" /\ pc'[r] = "run" /\ tc[r] \notin Tests[job[r].problem]
        /\ UNCHANGED <<src, prog, out, job, second, tc, pass, child>>
    BY <1>4 DEF StartNothing, local, files
  <2>2. KeyOf(r)' = KeyOf(r) /\ Source(r)' = Source(r) /\ OutFile(r)' = OutFile(r)
    BY <2>1 DEF KeyOf, Source, OutFile
  <2>3. \A n \in TestNo : out[<<KeyOf(r), n>>] = None
    BY <2>1 DEF OwnWork, Arrived
  <2>4. \A m : Passes(job[r], m)' = Passes(job[r], m)
    BY <2>1 DEF Passes
  <2>5. QED
    BY <1>2, <2>1, <2>2, <2>3, <2>4 DEF OwnWork, Working, Arrived
<1>5. CASE FinishRun(r)
  <2> DEFINE P == Prints[job[r].code][job[r].problem][tc[r]]
  <2>1. /\ pc[r] = "run" /\ pc'[r] = "run" /\ tc[r] \in Tests[job[r].problem] /\ child[r] # None
        /\ UNCHANGED <<src, prog, job, second, tc, pass>>
        /\ child'[r] = None
    BY <1>5 DEF FinishRun, local, Control
  <2>2. KeyOf(r)' = KeyOf(r) /\ Source(r)' = Source(r) /\ OutFile(r)' = OutFile(r)
    BY <2>1 DEF KeyOf, Source, OutFile
  <2>3. child[r].code = job[r].code /\ out[OutFile(r)] = Empty
    BY <2>1 DEF OwnWork, Working, Arrived
  <2>4. Ran(child[r].code, job[r].problem, tc[r]) = P
    BY <2>3, NamesType DEF Ran
  <2>5. out' = [out EXCEPT ![OutFile(r)] = P]
    BY <1>5, <2>3, <2>4, FinishRunOut, AloneShared
  <2>6. /\ out'[OutFile(r)] = P
        /\ \A n \in TestNo : n # tc[r] => out'[<<KeyOf(r), n>>] = None
    BY <1>2, <2>1, <2>5 DEF OwnWork, Arrived
  <2>7. \A m : Passes(job[r], m)' = Passes(job[r], m)
    BY <2>1 DEF Passes
  <2>8. QED
    BY <2>1, <2>2, <2>6, <2>7 DEF OwnWork, Working, Arrived
<1>6. QED
  BY <1>3, <1>4, <1>5

LEMMA OwnInit == Init => Own
BY DEF Init, Own, OwnWork, Arrived

LEMMA OwnStep == TypeOK /\ Control /\ Fresh /\ Own /\ [Next]_vars => Own'
<1> SUFFICES ASSUME TypeOK, Control, Fresh, Own, [Next]_vars, NEW r \in Req,
                    Arrived(r)', Alone(r)', pc'[r] # "dead"
             PROVE  OwnWork(r)'
  BY DEF Own, OwnWork
<1>1. CASE ~Arrived(r)
  <2>1. SaveCode(r)
    <3>1. pc'[r] # pc[r]
      BY <1>1 DEF Arrived
    <3>2. PICK q \in Req : SaveCode(q) \/ Refuse(q) \/ Step(q) \/ Kill(q)
      BY <3>1 DEF Next, vars, Tick
    <3>3. q = r
      BY <3>1, <3>2 DEF TypeOK, SaveCode, Refuse, Step, CompileError, CompileBegin, LinkEnd,
         CompileReturn, StartRun, StartNothing, FinishRun, Compare, RecordVerdict, CleanUp, Kill
    <3>4. ~Refuse(r) /\ ~Kill(r)
      BY <1>1 DEF TypeOK, Arrived, Refuse, Kill, Working
    <3>5. ~Step(r)
      BY <1>1, <3>1 DEF Arrived, Step, CompileError, CompileBegin, LinkEnd, CompileReturn,
         StartRun, StartNothing, FinishRun, Compare, RecordVerdict, CleanUp
    <3>6. QED
      BY <3>2, <3>3, <3>4, <3>5
  <2>2. QED
    BY <2>1, OwnSaved
<1>2. CASE Arrived(r)
  <2>1. OwnWork(r) /\ Alone(r) /\ KeyOf(r)' = KeyOf(r)
    BY <1>2, AloneBefore, NamesStay DEF Own
  <2>2. CASE UNCHANGED vars \/ Tick
    BY <1>2, <2>1, <2>2, OwnKept DEF vars, Tick, files, local
  <2>3. ASSUME NEW q \in Req \ {r}, SaveCode(q) \/ Refuse(q) \/ Step(q) \/ Kill(q)
        PROVE  OwnWork(r)'
    BY <1>2, <2>1, <2>3, OthersElsewhere, OwnKept
  <2>4. ASSUME SaveCode(r) \/ Refuse(r) \/ Step(r) \/ Kill(r)
        PROVE  OwnWork(r)'
    <3>1. ~SaveCode(r) /\ ~Refuse(r) /\ ~Kill(r)
      BY <1>2 DEF SaveCode, Refuse, Kill, Arrived, TypeOK
    <3>2. CASE CompileError(r) \/ CompileBegin(r) \/ LinkEnd(r) \/ CompileReturn(r)
      BY <2>1, <3>2, OwnCompiled
    <3>3. CASE StartRun(r) \/ StartNothing(r) \/ FinishRun(r)
      BY <2>1, <3>3, OwnRun
    <3>4. CASE Compare(r)
      BY <2>1, <3>4, OwnCompared
    <3>5. CASE RecordVerdict(r)
      <4>1. /\ pc[r] = "test" /\ pc'[r] = "clean"
            /\ UNCHANGED <<files, job, second, tc, pass, child>>
        BY <3>5 DEF RecordVerdict, local, TypeOK
      <4>2. Source(r)' = Source(r)
        BY <2>1, <4>1 DEF Source
      <4>3. \A m : Passes(job[r], m)' = Passes(job[r], m)
        BY <4>1 DEF Passes
      <4>4. QED
        BY <1>2, <2>1, <4>1, <4>2, <4>3 DEF OwnWork, Working, files
    <3>6. CASE CleanUp(r)
      <4>1. /\ pc[r] = "clean" /\ pc'[r] = "done"
            /\ UNCHANGED <<out, job, second, tc, pass, child>>
            /\ src'[Source(r)] = None
            /\ prog'[KeyOf(r)] = IF job[r].lang = "cpp" THEN None ELSE prog[KeyOf(r)]
        BY <3>6, NamesType DEF CleanUp, local, TypeOK
      <4>2. Source(r)' = Source(r)
        BY <2>1, <4>1 DEF Source
      <4>3. job[r].lang \in {"c", "cpp", "py"}
        BY NamesType, ProgramsAssumption
      <4>4. QED
        BY <1>2, <2>1, <4>1, <4>2, <4>3 DEF OwnWork, Working, Compiled
    <3>7. QED
      BY <2>4, <3>1, <3>2, <3>3, <3>4, <3>5, <3>6 DEF Step
  <2>5. QED
    BY <2>2, <2>3, <2>4 DEF Next
<1>3. QED
  BY <1>1, <1>2

-----------------------------------------------------------------------------
(* The submissions file.                                                   *)

LEMMA LogGrows ==
    ASSUME TypeOK, NEW r \in Req, RecordVerdict(r)
    PROVE  /\ Len(submissions) \in Nat /\ Len(submissions') = Len(submissions) + 1
           /\ \A k \in 1 .. Len(submissions) : submissions'[k] = submissions[k]
           /\ LET line == submissions'[Len(submissions) + 1] IN
              /\ line.req = r
              /\ line.verdict = IF pass[r] = Total(job[r].problem) THEN "AC" ELSE "WA"
BY DEF TypeOK, RecordVerdict

\* No other step writes the file.
LEMMA LogKept ==
    ASSUME [Next]_vars, \A r \in Req : ~RecordVerdict(r)
    PROVE  UNCHANGED submissions
BY NextCases DEF vars, local, files, Tick, Refuse, SaveCode, CompileError, CompileBegin,
   LinkEnd, CompileReturn, StartRun, StartNothing, FinishRun, Compare, CleanUp, Kill

\* The lines of the file, before and after a step.
LEMMA LineReq ==
    ASSUME TypeOK, NEW k \in 1 .. Len(submissions)
    PROVE  submissions[k] \in Record /\ submissions[k].req \in Req
<1>1. submissions[k] \in Record
  BY DEF TypeOK
<1>2. QED
  BY <1>1 DEF Record

LEMMA LoggedStays ==
    ASSUME TypeOK, [Next]_vars, NEW r \in Req, pc[r] \in {"clean", "done", "dead"}
    PROVE  pc'[r] \in {"clean", "done", "dead"}
<1>1. CASE UNCHANGED pc
  BY <1>1
<1>2. ASSUME NEW q \in Req, SaveCode(q) \/ Refuse(q) \/ Step(q) \/ Kill(q)
      PROVE  pc'[r] \in {"clean", "done", "dead"}
  BY <1>2 DEF TypeOK, local, SaveCode, Refuse, Step, CompileError, CompileBegin, LinkEnd,
     CompileReturn, StartRun, StartNothing, FinishRun, Compare, RecordVerdict, CleanUp, Kill
<1>3. QED
  BY <1>1, <1>2 DEF Next, vars, Tick

\* Only a request at the end of its loop gets into the clean-up.
LEMMA CleanFrom ==
    ASSUME TypeOK, [Next]_vars, NEW r \in Req, pc'[r] \in {"clean", "done"}, ~RecordVerdict(r)
    PROVE  pc[r] \in {"clean", "done"}
<1>1. CASE UNCHANGED pc
  BY <1>1
<1>2. ASSUME NEW q \in Req, SaveCode(q) \/ Refuse(q) \/ Step(q) \/ Kill(q)
      PROVE  pc[r] \in {"clean", "done"}
  BY <1>2 DEF TypeOK, local, SaveCode, Refuse, Step, CompileError, CompileBegin, LinkEnd,
     CompileReturn, StartRun, StartNothing, FinishRun, Compare, RecordVerdict, CleanUp, Kill
<1>3. QED
  BY <1>1, <1>2 DEF Next, vars, Tick

LEMMA LoggedInit == Init => Logged
BY DEF Init, Logged

LEMMA LoggedStep == TypeOK /\ Logged /\ [Next]_vars => Logged'
<1> SUFFICES ASSUME TypeOK, Logged, [Next]_vars PROVE Logged'
  OBVIOUS
<1>1. CASE \A r \in Req : ~RecordVerdict(r)
  <2>1. submissions' = submissions
    BY <1>1, LogKept
  <2>2. \A k \in 1 .. Len(submissions) : pc'[submissions[k].req] \in {"clean", "done", "dead"}
    BY LineReq, LoggedStays DEF Logged
  <2>3. \A r \in Req : pc'[r] \in {"clean", "done"} => pc[r] \in {"clean", "done"}
    BY <1>1, CleanFrom
  <2>4. QED
    BY <2>1, <2>2, <2>3 DEF Logged
<1>2. ASSUME NEW r \in Req, RecordVerdict(r) PROVE Logged'
  <2> DEFINE last == Len(submissions) + 1
  <2>1. /\ Len(submissions) \in Nat /\ Len(submissions') = last
        /\ \A k \in 1 .. Len(submissions) : submissions'[k] = submissions[k]
        /\ submissions'[last].req = r
    BY <1>2, LogGrows
  <2>2. pc'[r] = "clean" /\ \A q \in Req \ {r} : pc'[q] = pc[q]
    BY <1>2 DEF RecordVerdict, TypeOK
  <2>3. ASSUME NEW k \in 1 .. Len(submissions')
        PROVE  pc'[submissions'[k].req] \in {"clean", "done", "dead"}
    <3>1. CASE k = last
      BY <2>1, <2>2, <3>1
    <3>2. CASE k \in 1 .. Len(submissions)
      BY <2>1, <3>2, LineReq, LoggedStays DEF Logged
    <3>3. QED
      BY <2>1, <3>1, <3>2
  <2>4. ASSUME NEW q \in Req, pc'[q] \in {"clean", "done"}
        PROVE  \E k \in 1 .. Len(submissions') : submissions'[k].req = q
    <3>1. CASE q = r
      <4>1. last \in 1 .. Len(submissions')
        BY <2>1
      <4>2. QED
        BY <2>1, <3>1, <4>1
    <3>2. CASE q # r
      <4>1. PICK k \in 1 .. Len(submissions) : submissions[k].req = q
        BY <2>2, <2>4, <3>2 DEF Logged
      <4>2. k \in 1 .. Len(submissions') /\ submissions'[k] = submissions[k]
        BY <2>1
      <4>3. QED
        BY <4>1, <4>2
    <3>3. QED
      BY <3>1, <3>2
  <2>5. QED
    BY <2>3, <2>4 DEF Logged
<1>3. QED
  BY <1>1, <1>2

\* At the end of the loop the number of tests passed says what is deserved.
LEMMA VerdictAtEnd ==
    ASSUME TypeOK, Control, NEW r \in Req, OwnWork(r), Alone(r), RecordVerdict(r)
    PROVE  (IF pass[r] = Total(job[r].problem) THEN "AC" ELSE "WA") = Deserves(job[r])
<1> DEFINE total == Total(job[r].problem)
<1>1. pc[r] = "test" /\ ~MoreTests(r)
  BY DEF RecordVerdict
<1>2. total \in Nat \ {0} /\ job[r] \in Job
  BY NamesType, Counting, ProgramsAssumption DEF TestNo
<1>3. tc[r] = total + 1
  BY <1>1, <1>2 DEF Control, Working, MoreTests, TypeOK
<1>4. pass[r] = tc[r] - 1 <=> \A n \in 1 .. tc[r] - 1 : Passes(job[r], n)
  BY <1>1 DEF OwnWork, Arrived, Working
<1>5. tc[r] - 1 = total
  BY <1>2, <1>3
<1>6. pass[r] = total <=> Deserves(job[r]) = "AC"
  BY <1>2, <1>4, <1>5, DeservesIs
<1>7. QED
  BY <1>6, DeservesType

LEMMA VerdictStep ==
    TypeOK /\ Control /\ Own /\ Logged /\ VerdictIsOwn /\ [Next]_vars => VerdictIsOwn'
<1> SUFFICES ASSUME TypeOK, Control, Own, Logged, VerdictIsOwn, [Next]_vars
             PROVE  VerdictIsOwn'
  OBVIOUS
<1>a. \A k \in 1 .. Len(submissions') : submissions'[k].req \in Req
  <2>1. TypeOK'
    BY TypeStep
  <2>2. ASSUME NEW k \in 1 .. Len(submissions')
        PROVE  submissions'[k].req \in Req
    <3>1. submissions'[k] \in Record
      BY <2>1 DEF TypeOK
    <3>2. QED
      BY <3>1 DEF Record
  <2>3. QED
    BY <2>2
<1> SUFFICES ASSUME NEW k \in 1 .. Len(submissions'), NEW s \in Req,
                    s = submissions'[k].req, Alone(s)'
             PROVE  submissions'[k].verdict = Deserves(job'[s])
  BY <1>a DEF VerdictIsOwn, Deserves, Alone, KeyOf
<1>1. job' = job
  BY NextCases DEF vars, local, files, Tick, Refuse, SaveCode, CompileError, CompileBegin,
     LinkEnd, CompileReturn, StartRun, StartNothing, FinishRun, Compare, RecordVerdict,
     CleanUp, Kill
<1>2. ASSUME k \in 1 .. Len(submissions), submissions'[k] = submissions[k]
      PROVE  submissions'[k].verdict = Deserves(job[s])
  <2>1. s = submissions[k].req /\ Arrived(s)
    BY <1>2, LineReq DEF Logged, Arrived
  <2>2. Alone(s)
    BY <1>2, <2>1, AloneBefore
  <2>3. QED
    BY <1>2, <2>1, <2>2 DEF VerdictIsOwn
<1>3. CASE \A r \in Req : ~RecordVerdict(r)
  BY <1>1, <1>2, <1>3, LogKept
<1>4. ASSUME NEW r \in Req, RecordVerdict(r)
      PROVE  submissions'[k].verdict = Deserves(job[s])
  <2>1. /\ Len(submissions) \in Nat /\ Len(submissions') = Len(submissions) + 1
        /\ \A l \in 1 .. Len(submissions) : submissions'[l] = submissions[l]
    BY <1>4, LogGrows
  <2>2. CASE k \in 1 .. Len(submissions)
    BY <1>2, <2>1, <2>2
  <2>3. CASE k = Len(submissions) + 1
    <3>1. /\ s = r
          /\ submissions'[k].verdict = IF pass[r] = Total(job[r].problem) THEN "AC" ELSE "WA"
      BY <1>4, <2>3, LogGrows
    <3>2. Arrived(r) /\ Alone(r)'
      BY <1>4, <3>1 DEF RecordVerdict, Arrived
    <3>3. Alone(r) /\ OwnWork(r)
      BY <3>2, AloneBefore DEF Own
    <3>4. QED
      BY <1>4, <3>1, <3>3, VerdictAtEnd
  <2>4. QED
    BY <2>1, <2>2, <2>3
<1>5. QED
  BY <1>1, <1>3, <1>4

-----------------------------------------------------------------------------

\* IInv is an inductive invariant of contest_submit.c.
THEOREM ContestInvariance == Spec => []IInv
<1>1. Init => IInv
  BY TypeInit, FreshInit, OwnInit, LoggedInit DEF IInv, Init, VerdictIsOwn
<1>2. IInv /\ [Next]_vars => IInv'
  BY TypeStep, ControlStep, FreshStep, OwnStep, LoggedStep, VerdictStep DEF IInv
<1>3. QED
  BY <1>1, <1>2, PTL DEF Spec

\* contest_submit.c records for a submission that is alone in its second the verdict
\* that its own program deserves, whatever else runs or is killed.
THEOREM VerdictTheorem == Spec => []VerdictIsOwn
<1>1. IInv => VerdictIsOwn
  BY DEF IInv
<1>2. QED
  BY <1>1, ContestInvariance, PTL

\* A request that is alone in its second leaves no file behind when it replies, except
\* the executable of a C program.
THEOREM FilesTheorem == Spec => []FilesRemoved
<1>1. ASSUME IInv, NEW r \in Req, pc[r] \in {"rejected", "done"}, Alone(r)
      PROVE  /\ src[Source(r)] = None
             /\ \A n \in TestNo : out[<<KeyOf(r), n>>] = None
             /\ job[r].lang = "c" \/ prog[KeyOf(r)] = None
  BY <1>1 DEF IInv, Own, OwnWork, Arrived, Working
<1>2. IInv => FilesRemoved
  BY <1>1 DEF FilesRemoved
<1>3. QED
  BY <1>2, ContestInvariance, PTL

-----------------------------------------------------------------------------
(* The refinement.                                                         *)

HasLine(r) == \E k \in 1 .. Len(submissions) : submissions[k].req = r

\* The status of a request, written without CASE.
StatusTable(r) ==
    /\ pc[r] = "idle" => Status(r) = "idle"
    /\ pc[r] \in {"compile", "link", "test", "run"} => Status(r) = "taken"
    /\ pc[r] \in {"refused", "rejected"} => Status(r) = "closed"
    /\ pc[r] = "dead" /\ ~HasLine(r) => Status(r) = "lost"
    /\ pc[r] = "dead" /\ HasLine(r) => Status(r) = "graded"
    /\ pc[r] \in {"clean", "done"} => Status(r) = "graded"

LEMMA StatusIs == ASSUME NEW r PROVE StatusTable(r) /\ StatusTable(r)'
<1>1. StatusTable(r)
  <2>1. pc[r] = "idle" => Status(r) = "idle"
    BY DEF Status
  <2>2. pc[r] \in {"compile", "link", "test", "run"} => Status(r) = "taken"
    BY Zenon DEF Status
  <2>3. pc[r] \in {"refused", "rejected"} => Status(r) = "closed"
    BY Zenon DEF Status
  <2>4. pc[r] = "dead" /\ ~HasLine(r) => Status(r) = "lost"
    BY Zenon DEF Status, HasLine
  <2>5. pc[r] = "dead" /\ HasLine(r) => Status(r) = "graded"
    BY Zenon DEF Status, HasLine
  <2>6. pc[r] \in {"clean", "done"} => Status(r) = "graded"
    BY Zenon DEF Status
  <2>7. QED
    BY <2>1, <2>2, <2>3, <2>4, <2>5, <2>6 DEF StatusTable
<1>2. StatusTable(r)'
  <2>1. (pc[r] = "idle" => Status(r) = "idle")'
    BY DEF Status
  <2>2. (pc[r] \in {"compile", "link", "test", "run"} => Status(r) = "taken")'
    BY Zenon DEF Status
  <2>3. (pc[r] \in {"refused", "rejected"} => Status(r) = "closed")'
    BY Zenon DEF Status
  <2>4. (pc[r] = "dead" /\ ~HasLine(r) => Status(r) = "lost")'
    BY Zenon DEF Status, HasLine
  <2>5. (pc[r] = "dead" /\ HasLine(r) => Status(r) = "graded")'
    BY Zenon DEF Status, HasLine
  <2>6. (pc[r] \in {"clean", "done"} => Status(r) = "graded")'
    BY Zenon DEF Status
  <2>7. QED
    BY <2>1, <2>2, <2>3, <2>4, <2>5, <2>6 DEF StatusTable
<1>3. QED
  BY <1>1, <1>2

LEMMA AppendIs ==
    ASSUME NEW S, NEW n \in Nat, NEW f \in [1 .. n -> S], NEW g \in [1 .. n + 1 -> S],
           \A k \in 1 .. n : g[k] = f[k]
    PROVE  g = Append(f, g[n + 1])
<1>1. f \in Seq(S) /\ g \in Seq(S) /\ Len(f) = n /\ Len(g) = n + 1
  BY SeqDef
<1>2. g[n + 1] \in S
  BY n + 1 \in 1 .. n + 1
<1>3. /\ Append(f, g[n + 1]) \in Seq(S) /\ Len(Append(f, g[n + 1])) = n + 1
      /\ \A k \in 1 .. n + 1 : Append(f, g[n + 1])[k] = g[k]
  BY <1>1, <1>2, AppendProperties
<1>4. QED
  BY <1>1, <1>3, SeqEqual

\* What the abstract variables stand for.
StatusMap == [r \in Req |-> Status(r)]
LogMap == [k \in 1 .. Len(submissions) |->
              [req |-> submissions[k].req, verdict |-> submissions[k].verdict]]
Disturbed == {r \in Req : pc[r] \notin {"idle", "refused"} /\ ~Alone(r)}

LEMMA DisturbedGrows ==
    ASSUME TypeOK, [Next]_vars
    PROVE  Disturbed \subseteq Disturbed'
<1>1. ASSUME NEW r \in Req, Arrived(r), ~Alone(r)
      PROVE  Arrived(r)' /\ ~Alone(r)'
  BY <1>1, NamesStay, AloneBefore
<1>2. QED
  BY <1>1 DEF Disturbed, Arrived

\* The status of a request changes with its place, or with a line about it.
LEMMA StatusKept ==
    ASSUME TypeOK, NEW r \in Req, pc'[r] = pc[r], HasLine(r)' <=> HasLine(r)
    PROVE  Status(r)' = Status(r)
<1>1. StatusTable(r) /\ StatusTable(r)'
  BY StatusIs
<1>2. pc[r] \in {"idle", "refused", "compile", "rejected", "link", "test", "run", "clean",
                 "done", "dead"}
  BY DEF TypeOK
<1>3. QED
  BY <1>1, <1>2 DEF StatusTable

\* One request moves from one status to the next.
LEMMA MoveMaps ==
    ASSUME TypeOK, NEW r \in Req, NEW from, NEW to, Status(r) = from, Status(r)' = to,
           \A q \in Req \ {r} : pc'[q] = pc[q] /\ (HasLine(q)' <=> HasLine(q))
    PROVE  Abstract!Move(r, from, to)
<1>1. \A q \in Req \ {r} : Status(q)' = Status(q)
  BY StatusKept
<1>2. \A q \in Req : Status(q)' = IF q = r THEN to ELSE Status(q)
  BY <1>1
<1>3. [q \in Req |-> Status(q)]' = [[q \in Req |-> Status(q)] EXCEPT ![r] = to]
  BY <1>2
<1>4. QED
  BY <1>3 DEF Abstract!Move

\* The steps of the loop that enter nothing: the request moves, or nothing is seen.
LEMMA QuietMaps ==
    ASSUME IInv, [Next]_vars, \A r \in Req : ~RecordVerdict(r)
    PROVE  /\ UNCHANGED LogMap
           /\ \/ UNCHANGED StatusMap
              \/ \E r \in Req : \/ Abstract!Move(r, "idle", "taken")
                                \/ Abstract!Move(r, "idle", "closed")
                                \/ /\ Abstract!Move(r, "taken", "closed")
                                   /\ \/ Compiled(job[r].lang) /\ job[r].code \in Broken
                                      \/ r \in Disturbed
                                \/ Abstract!Move(r, "taken", "lost")
<1>1. TypeOK /\ submissions' = submissions
  BY LogKept DEF IInv
<1>2. \A r : HasLine(r)' <=> HasLine(r)
  BY <1>1 DEF HasLine
<1>3. \A r \in Req : StatusTable(r) /\ StatusTable(r)'
  BY StatusIs
<1>4. \A r \in Req : HasLine(r) => pc[r] \in {"clean", "done", "dead"}
  BY DEF HasLine, IInv, Logged
<1>5. \A r \in Req : pc[r] \in {"clean", "done"} => HasLine(r)
  BY DEF HasLine, IInv, Logged
<1>6. UNCHANGED LogMap
  BY <1>1 DEF LogMap
<1>7. CASE UNCHANGED pc
  <2>1. \A r \in Req : Status(r)' = Status(r)
    BY <1>1, <1>2, <1>7, StatusKept
  <2>2. UNCHANGED StatusMap
    BY <2>1 DEF StatusMap
  <2>3. QED
    BY <1>6, <2>2
<1>8. ASSUME NEW r \in Req, SaveCode(r) \/ Refuse(r) \/ Step(r) \/ Kill(r), ~UNCHANGED pc
      PROVE  \/ UNCHANGED StatusMap
             \/ Abstract!Move(r, "idle", "taken")
             \/ Abstract!Move(r, "idle", "closed")
             \/ /\ Abstract!Move(r, "taken", "closed")
                /\ \/ Compiled(job[r].lang) /\ job[r].code \in Broken
                   \/ r \in Disturbed
             \/ Abstract!Move(r, "taken", "lost")
  <2>1. /\ \A q \in Req \ {r} : pc'[q] = pc[q] /\ (HasLine(q)' <=> HasLine(q))
        /\ pc'[r] # pc[r]
    <3>1. \A q \in Req \ {r} : pc'[q] = pc[q]
      BY <1>1, <1>8 DEF TypeOK, local, SaveCode, Refuse, Step, CompileError, CompileBegin,
         LinkEnd, CompileReturn, StartRun, StartNothing, FinishRun, Compare, RecordVerdict,
         CleanUp, Kill
    <3>2. TypeOK'
      BY TypeStep DEF IInv
    <3>3. QED
      BY <1>1, <1>2, <1>8, <3>1, <3>2 DEF TypeOK
  <2>2. CASE Status(r)' = Status(r)
    <3>1. \A q \in Req : Status(q)' = Status(q)
      BY <1>1, <2>1, <2>2, StatusKept
    <3>2. QED
      BY <3>1 DEF StatusMap
  <2>3. CASE SaveCode(r)
    <3>1. pc[r] = "idle" /\ pc'[r] \in {"compile", "test"}
      BY <1>1, <2>3 DEF SaveCode, TypeOK
    <3>2. Status(r) = "idle" /\ Status(r)' = "taken"
      BY <1>3, <3>1 DEF StatusTable
    <3>3. QED
      BY <1>1, <2>1, <3>2, MoveMaps
  <2>4. CASE Refuse(r)
    <3>1. pc[r] = "idle" /\ pc'[r] = "refused"
      BY <1>1, <2>4 DEF Refuse, TypeOK
    <3>2. Status(r) = "idle" /\ Status(r)' = "closed"
      BY <1>3, <3>1 DEF StatusTable
    <3>3. QED
      BY <1>1, <2>1, <3>2, MoveMaps
  <2>5. CASE CompileError(r)
    <3>1. /\ pc[r] = "compile" /\ pc'[r] = "rejected" /\ Compiled(job[r].lang)
          /\ src[Source(r)] \in Broken \cup {None}
      BY <1>1, <2>5 DEF CompileError, TypeOK, IInv, Control
    <3>2. Status(r) = "taken" /\ Status(r)' = "closed"
      BY <1>3, <3>1 DEF StatusTable
    <3>3. Alone(r) => job[r].code \in Broken
      <4>1. Alone(r) => src[Source(r)] = job[r].code
        BY <3>1 DEF IInv, Own, OwnWork, Arrived, Working
      <4>2. QED
        BY <1>1, <3>1, <4>1, NamesType
    <3>4. r \in Disturbed \/ job[r].code \in Broken
      BY <3>1, <3>3 DEF Disturbed
    <3>5. Abstract!Move(r, "taken", "closed")
      BY <1>1, <2>1, <3>2, MoveMaps
    <3>6. QED
      BY <3>1, <3>4, <3>5
  <2>6. CASE Kill(r)
    <3>1. pc[r] \in {"compile", "link", "test", "run", "clean"} /\ pc'[r] = "dead"
      BY <1>1, <2>6 DEF Kill, Working, TypeOK
    <3>2. CASE pc[r] = "clean"
      <4>1. Status(r) = "graded" /\ Status(r)' = "graded"
        BY <1>2, <1>3, <1>5, <3>1, <3>2 DEF StatusTable
      <4>2. QED
        BY <2>2, <4>1
    <3>3. CASE pc[r] # "clean"
      <4>1. Status(r) = "taken" /\ Status(r)' = "lost"
        BY <1>2, <1>3, <1>4, <3>1, <3>3 DEF StatusTable
      <4>2. QED
        BY <1>1, <2>1, <4>1, MoveMaps
    <3>4. QED
      BY <3>2, <3>3
  <2>7. CASE CompileBegin(r) \/ CompileReturn(r) \/ StartRun(r) \/ StartNothing(r) \/ Compare(r)
    <3>1. /\ pc[r] \in {"compile", "link", "test", "run"}
          /\ pc'[r] \in {"compile", "link", "test", "run"}
      BY <1>1, <2>7 DEF CompileBegin, CompileReturn, StartRun, StartNothing, Compare, TypeOK
    <3>2. Status(r) = "taken" /\ Status(r)' = "taken"
      BY <1>3, <3>1 DEF StatusTable
    <3>3. QED
      BY <2>2, <3>2
  <2>8. CASE CleanUp(r)
    <3>1. pc[r] = "clean" /\ pc'[r] = "done"
      BY <1>1, <2>8 DEF CleanUp, TypeOK
    <3>2. Status(r) = "graded" /\ Status(r)' = "graded"
      BY <1>3, <3>1 DEF StatusTable
    <3>3. QED
      BY <2>2, <3>2
  <2>9. ~LinkEnd(r) /\ ~FinishRun(r)
    BY <1>8 DEF LinkEnd, FinishRun
  <2>10. QED
    BY <1>8, <2>3, <2>4, <2>5, <2>6, <2>7, <2>8, <2>9 DEF Step
<1>9. QED
  BY <1>6, <1>7, <1>8 DEF Next, vars, Tick

\* The end of the loop enters the verdict that is deserved, or one of a disturbed request.
LEMMA RecordMaps ==
    ASSUME IInv, [Next]_vars, NEW r \in Req, RecordVerdict(r)
    PROVE  /\ Abstract!Move(r, "taken", "graded")
           /\ \E v \in {"AC", "WA"} :
                 /\ r \notin Disturbed => v = Deserves(job[r])
                 /\ LogMap' = Append(LogMap, [req |-> r, verdict |-> v])
<1> DEFINE n == Len(submissions)
           v == IF pass[r] = Total(job[r].problem) THEN "AC" ELSE "WA"
           L == [req : Req, verdict : {"AC", "WA"}]
<1>1. TypeOK /\ TypeOK'
  BY TypeStep DEF IInv
<1>2. /\ n \in Nat /\ Len(submissions') = n + 1
      /\ \A k \in 1 .. n : submissions'[k] = submissions[k]
      /\ submissions'[n + 1].req = r /\ submissions'[n + 1].verdict = v
  BY <1>1, LogGrows
<1>3. pc[r] = "test" /\ pc'[r] = "clean" /\ \A q \in Req \ {r} : pc'[q] = pc[q]
  BY <1>1 DEF RecordVerdict, TypeOK
<1>4. ASSUME NEW q \in Req \ {r}
      PROVE  HasLine(q)' <=> HasLine(q)
  BY <1>2 DEF HasLine
<1>5. Status(r) = "taken" /\ Status(r)' = "graded"
  BY <1>3, StatusIs DEF StatusTable
<1>6. Abstract!Move(r, "taken", "graded")
  BY <1>1, <1>3, <1>4, <1>5, MoveMaps
<1>7. r \notin Disturbed => v = Deserves(job[r])
  BY <1>1, <1>3, VerdictAtEnd DEF IInv, Own, Disturbed
<1>8. LogMap' = Append(LogMap, [req |-> r, verdict |-> v])
  <2>1. LogMap \in [1 .. n -> L]
    <3>1. \A k \in 1 .. n : submissions[k] \in Record
      BY <1>1, ElementOfSeq DEF TypeOK
    <3>2. QED
      BY <3>1 DEF LogMap, Record
  <2>2. LogMap' \in [1 .. n + 1 -> L]
    <3>1. \A k \in 1 .. n + 1 : submissions'[k] \in Record
      BY <1>1, <1>2, ElementOfSeq DEF TypeOK
    <3>2. QED
      BY <1>2, <3>1 DEF LogMap, Record
  <2>3. \A k \in 1 .. n : LogMap'[k] = LogMap[k]
    BY <1>2 DEF LogMap
  <2>4. LogMap'[n + 1] = [req |-> r, verdict |-> v]
    BY <1>2 DEF LogMap
  <2>5. QED
    BY <1>2, <2>1, <2>2, <2>3, <2>4, AppendIs
<1>9. QED
  BY <1>6, <1>7, <1>8

LEMMA InitMaps == Init => Abstract!Init
BY DEF Init, Abstract!Init, Status, Alone

LEMMA StepMaps == IInv /\ [Next]_vars => [Abstract!Next]_(Abstract!vars)
<1> SUFFICES ASSUME IInv, [Next]_vars PROVE Abstract!Next
  OBVIOUS
<1>1. job' = job
  BY NextCases DEF vars, local, files, Tick, Refuse, SaveCode, CompileError, CompileBegin,
     LinkEnd, CompileReturn, StartRun, StartNothing, FinishRun, Compare, RecordVerdict,
     CleanUp, Kill
<1>2. Disturbed \subseteq Disturbed'
  BY DisturbedGrows DEF IInv
<1>3. CASE \A r \in Req : ~RecordVerdict(r)
  BY <1>1, <1>2, <1>3, QuietMaps
     DEF Abstract!Next, Abstract!Take, Abstract!TurnAway, Abstract!Reject, Abstract!Lose,
         StatusMap, LogMap, Disturbed
<1>4. ASSUME NEW r \in Req, RecordVerdict(r) PROVE Abstract!Next
  BY <1>1, <1>2, <1>4, RecordMaps DEF Abstract!Next, Abstract!Grade, LogMap, Disturbed
<1>5. QED
  BY <1>3, <1>4

\* contest_submit.c keeps the promise of Grading: a submission gets at most one line, with
\* the verdict it deserves, and only what does not compile is turned down; where requests
\* share second, contest and problem nothing is promised.
THEOREM ContestRefinement == Spec => ImplementsGrading
<1>1. Init => Abstract!Init
  BY InitMaps
<1>2. IInv /\ [Next]_vars => [Abstract!Next]_(Abstract!vars)
  BY StepMaps
<1>3. QED
  BY <1>1, <1>2, ContestInvariance, PTL DEF Spec, Abstract!Spec, ImplementsGrading
=============================================================================
