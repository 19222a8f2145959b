---------------------------- MODULE ProblemsProofs ----------------------------
(***************************************************************************)
(* Proofs about the problem set: that numbers are unique (NumbersTheorem), *)
(* that what an administrator was told lasts (ProblemsTheorem), and that   *)
(* a mark has been earned (MarkTheorem).                                   *)
(***************************************************************************)
EXTENDS Problems, ListsProofs

---------------------------------------------------------------------------
\* Directories and lists

LEMMA DirIs ==
    ASSUME NEW dir \in Dir
    PROVE  dir # None /\ DOMAIN dir \in SUBSET TestFile /\ dir \in [DOMAIN dir -> Author]
BY DirAssumption DEF Dir

LEMMA DirMade ==
    ASSUME NEW F \in SUBSET TestFile, NEW dir \in [F -> Author]
    PROVE  dir \in Dir
BY DEF Dir

LEMMA TestFileFinite == IsFiniteSet(TestFile)
<1>1. IsFiniteSet(1 .. MaxCases)
  BY FS_Interval, ProblemsAssumption
<1>2. IsFiniteSet({"in", "out"})
  <2>1. IsFiniteSet({"in"} \cup {"out"})
    BY FS_AddElement, FS_Singleton
  <2>2. {"in"} \cup {"out"} = {"in", "out"}
    OBVIOUS
  <2>3. QED
    BY <2>1, <2>2
<1>3. QED
  BY <1>1, <1>2, FS_Product DEF TestFile

LEMMA WithFileIs ==
    ASSUME NEW dir \in Dir \cup {None}, NEW f \in TestFile, NEW a \in Author
    PROVE  /\ WithFile(dir, f, a) \in Dir \cup {None}
           /\ WithFile(dir, f, a) = None <=> dir = None
<1>1. CASE dir = None
  BY <1>1 DEF WithFile
<1>2. CASE dir # None
  <2>1. DOMAIN dir \in SUBSET TestFile /\ dir \in [DOMAIN dir -> Author]
    BY <1>2, DirIs
  <2>2. WithFile(dir, f, a) \in [DOMAIN dir \cup {f} -> Author]
    BY <1>2, <2>1 DEF WithFile
  <2>3. WithFile(dir, f, a) \in Dir
    BY <2>1, <2>2, DirMade
  <2>4. QED
    BY <1>2, <2>3, DirIs
<1>3. QED
  BY <1>1, <1>2

LEMMA WithoutIs ==
    ASSUME NEW lines \in Seq(Line), NEW i
    PROVE  /\ Without(lines, i) \in Seq(Line)
           /\ \A k \in DOMAIN Without(lines, i) :
                 Without(lines, i)[k].id # i
                 /\ \E h \in DOMAIN lines : Without(lines, i)[k] = lines[h]
           /\ \A h \in DOMAIN lines : lines[h].id # i =>
                 \E k \in DOMAIN Without(lines, i) : Without(lines, i)[k] = lines[h]
<1> DEFINE K == {k \in DOMAIN lines : lines[k].id # i}
<1>1. K \in SUBSET DOMAIN lines
  OBVIOUS
<1> HIDE DEF K
<1>2. Without(lines, i) = Keep(lines, K)
  BY DEF Without, K
<1> DEFINE less == Keep(lines, K)
<1>3. /\ less \in Seq(Line)
      /\ \A k \in K : Rank(K, k) \in DOMAIN less /\ less[Rank(K, k)] = lines[k]
      /\ \A k \in DOMAIN less : \E h \in K : less[k] = lines[h]
  BY <1>1, KeepIs
<1> HIDE DEF less
<1>4. /\ \A k \in DOMAIN less : less[k].id # i /\ \E h \in DOMAIN lines : less[k] = lines[h]
      /\ \A h \in DOMAIN lines : lines[h].id # i => \E k \in DOMAIN less : less[k] = lines[h]
  BY <1>3 DEF K
<1>5. Without(lines, i) = less
  BY <1>2 DEF less
<1>6. QED
  BY <1>3, <1>4, <1>5

LEMMA WithoutKeeps ==
    ASSUME NEW lines \in Seq(Line), NEW i, NEW h \in DOMAIN lines, lines[h].id # i
    PROVE  \E k \in DOMAIN Without(lines, i) : Without(lines, i)[k] = lines[h]
<1> DEFINE K == {k \in DOMAIN lines : lines[k].id # i}
<1>1. K \in SUBSET DOMAIN lines /\ h \in K
  OBVIOUS
<1> HIDE DEF K
<1>2. Without(lines, i) = Keep(lines, K)
  BY DEF Without, K
<1> DEFINE less == Keep(lines, K)
<1>3. Rank(K, h) \in DOMAIN less /\ less[Rank(K, h)] = lines[h]
  BY <1>1, KeepIs
<1> HIDE DEF less
<1>4. Without(lines, i) = less
  BY <1>2 DEF less
<1>5. QED
  BY <1>3, <1>4

\* The order of the lines.
LEMMA WithoutAscends ==
    ASSUME NEW lines \in Seq(Line), NEW i,
           \A k \in DOMAIN lines : lines[k].id \in Nat,
           \A j, k \in DOMAIN lines : j < k => lines[j].id < lines[k].id
    PROVE  LET less == Without(lines, i) IN
           \A j, k \in DOMAIN less : j < k => less[j].id < less[k].id
<1> DEFINE K == {k \in DOMAIN lines : lines[k].id # i}
           less == Without(lines, i)
<1>1. K \in SUBSET DOMAIN lines /\ K \in SUBSET Int
  OBVIOUS
<1> HIDE DEF K
<1>2. less = Keep(lines, K)
  BY DEF Without, K
<1> HIDE DEF less
<1>3. IsFiniteSet(K) /\ Cardinality(K) \in Nat /\ DOMAIN less = 1 .. Cardinality(K)
  BY <1>1, <1>2, KeepIs
<1> SUFFICES ASSUME NEW j \in DOMAIN less, NEW k \in DOMAIN less, j < k
             PROVE  less[j].id < less[k].id
  BY DEF less
<1>4. PICK g \in K : Rank(K, g) = j /\ less[j] = lines[g]
  BY <1>1, <1>2, KeepIs
<1>5. PICK h \in K : Rank(K, h) = k /\ less[k] = lines[h]
  BY <1>1, <1>2, KeepIs
<1>6. ~(h <= g)
  <2>1. CASE h = g
    BY <2>1, <1>3, <1>4, <1>5
  <2>2. CASE h < g
    <3>1. Rank(K, h) < Rank(K, g)
      BY <2>2, <1>1, <1>3, RankAscends
    <3>2. QED
      BY <3>1, <1>3, <1>4, <1>5
  <2>3. QED
    BY <2>1, <2>2, <1>1
<1>7. QED
  BY <1>1, <1>4, <1>5, <1>6

FromBoth(u, s, t) ==
    \A j \in DOMAIN u : (\E h \in DOMAIN s : u[j] = s[h]) \/ \E h \in DOMAIN t : u[j] = t[h]

LEMMA Parts ==
    ASSUME NEW s \in Seq(Line), NEW t \in Seq(Line), NEW u, u = s \o t
    PROVE  u \in Seq(Line) /\ FromBoth(u, s, t)
<1>1. u \in Seq(Line) /\ DOMAIN u = 1 .. Len(s) + Len(t)
      /\ \A j \in 1 .. Len(s) + Len(t) : u[j] = IF j <= Len(s) THEN s[j] ELSE t[j - Len(s)]
  OBVIOUS
<1>2. ASSUME NEW j \in DOMAIN u
      PROVE  (\E h \in DOMAIN s : u[j] = s[h]) \/ \E h \in DOMAIN t : u[j] = t[h]
  <2>1. CASE j <= Len(s)
    BY <1>1, <2>1
  <2>2. CASE ~(j <= Len(s))
    <3>1. j - Len(s) \in DOMAIN t /\ u[j] = t[j - Len(s)]
      BY <1>1, <2>2
    <3>2. QED
      BY <3>1
  <2>3. QED
    BY <2>1, <2>2
<1>3. QED
  BY <1>1, <1>2 DEF FromBoth

LEMMA OverwrittenIs ==
    ASSUME TypeOK, NEW f \in File, NEW lines \in Seq(Line), NEW new \in Overwritten(f, lines)
    PROVE  /\ new \in Seq(Line)
           /\ content[f] = <<>> => new = lines
           /\ \A k \in DOMAIN new :
                 \/ \E h \in DOMAIN lines : new[k] = lines[h]
                 \/ \E h \in DOMAIN content[f] :
                       new[k] = content[f][h] \/ new[k] = [content[f][h] EXCEPT !.id = None]
<1> DEFINE was == content[f]
           torn(k) == [was[k] EXCEPT !.id = None]
<1>1. was \in Seq(Line)
  BY DEF TypeOK
<1>2. ASSUME NEW k \in DOMAIN was
      PROVE  was[k] \in Line /\ torn(k) \in Line
  <2>1. was[k] \in Line
    BY <1>1
  <2>2. QED
    BY <2>1 DEF Line
<1> HIDE DEF torn
<1>3. CASE new = lines
  BY <1>3
<1>4. ASSUME NEW k \in DOMAIN was, new = lines \o SubSeq(was, k, Len(was))
      PROVE  /\ new \in Seq(Line) /\ was # <<>>
             /\ \A j \in DOMAIN new : (\E h \in DOMAIN lines : new[j] = lines[h])
                                      \/ \E h \in DOMAIN was : new[j] = was[h]
  <2> DEFINE rest == SubSeq(was, k, Len(was))
  <2>1. rest \in Seq(Line) /\ \A j \in DOMAIN rest : \E h \in DOMAIN was : rest[j] = was[h]
    BY <1>1
  <2> HIDE DEF rest
  <2>2. new = lines \o rest
    BY <1>4 DEF rest
  <2>3. new \in Seq(Line) /\ FromBoth(new, lines, rest)
    BY <2>1, <2>2, Parts, Zenon
  <2>4. was # <<>>
    BY <1>1
  <2>5. QED
    BY <2>1, <2>3, <2>4 DEF FromBoth
<1>5. ASSUME NEW k \in DOMAIN was, new = lines \o <<torn(k)>> \o SubSeq(was, k + 1, Len(was))
      PROVE  /\ new \in Seq(Line) /\ was # <<>>
             /\ \A j \in DOMAIN new : (\E h \in DOMAIN lines : new[j] = lines[h])
                                      \/ \E h \in DOMAIN was : new[j] = was[h] \/ new[j] = torn(h)
  <2> DEFINE rest == SubSeq(was, k + 1, Len(was))
             head == lines \o <<torn(k)>>
  <2>1. rest \in Seq(Line) /\ \A j \in DOMAIN rest : \E h \in DOMAIN was : rest[j] = was[h]
    BY <1>1
  <2>2. head \in Seq(Line) /\ \A j \in DOMAIN head : (\E h \in DOMAIN lines : head[j] = lines[h])
                                                      \/ head[j] = torn(k)
    BY <1>2
  <2> HIDE DEF rest, head
  <2>3. new = head \o rest
    BY <1>5 DEF rest, head
  <2>4. new \in Seq(Line) /\ FromBoth(new, head, rest)
    BY <2>1, <2>2, <2>3, Parts, Zenon
  <2>5. was # <<>>
    BY <1>1
  <2>6. QED
    BY <2>1, <2>2, <2>4, <2>5 DEF FromBoth
<1>6. \/ new = lines
      \/ \E k \in DOMAIN was : new = lines \o SubSeq(was, k, Len(was))
      \/ \E k \in DOMAIN was : new = lines \o <<torn(k)>> \o SubSeq(was, k + 1, Len(was))
  BY DEF Overwritten, torn
<1>7. QED
  BY <1>3, <1>4, <1>5, <1>6 DEF torn

---------------------------------------------------------------------------
\* What a step of one request leaves alone

Frame(r) ==
    /\ query' = query
    /\ \A q \in Req \ {r} :
          /\ pc'[q] = pc[q] /\ before'[q] = before[q] /\ number'[q] = number[q]
          /\ n'[q] = n[q] /\ got'[q] = got[q] /\ total'[q] = total[q] /\ pass'[q] = pass[q]
          /\ fd'[q] = fd[q] /\ text'[q] = text[q] /\ todo'[q] = todo[q]
    /\ pc[r] \notin Ended /\ pc'[r] # "idle"
    /\ pc'[r] = "refused" => pc[r] \in {"idle", "unfound"}
    /\ pc'[r] = "numbered" => pc[r] = "idle"
    /\ before'[r] = IF pc[r] = "idle" THEN {q \in Req : pc[q] \in Ended} ELSE before[r]
    /\ pc[r] # "idle" => number'[r] = number[r]

Queries ==
    \A r \in Req :
        /\ query[r].op \in {"upload", "delete", "submit"} /\ query[r].user \in User
        /\ query[r].op = "upload" => query[r].cases \in Nat
        /\ query[r].op # "upload" => query[r].number \in Nat

LEMMA QueriesAre ==
    ASSUME TypeOK
    PROVE  Queries
<1> SUFFICES ASSUME NEW r \in Req
             PROVE  query[r] \in Upload \cup Removal \cup Submission
  BY DEF Queries, Upload, Removal, Submission
<1>1. QED
  BY ProblemsAssumption DEF TypeOK

\* The types of those variables that most steps treat alike.
RequestTypes ==
    /\ query \in [Req -> Query]
    /\ pc \in [Req -> {"idle", "numbered", "listed", "made", "input", "output", "copying",
                       "vain", "moving", "unfound", "moved", "removing", "emptied",
                       "compiling", "judging", "comparing", "showing"} \cup Ended]
    /\ before \in [Req -> SUBSET Req]

LocalTypes ==
    /\ number \in [Req -> Number \cup {0}]
    /\ n \in [Req -> 0 .. MaxCases + 1]
    /\ got \in [Req -> Author]
    /\ total \in [Req -> Nat \ {0}]
    /\ pass \in [Req -> Nat]
    /\ fd \in [Req -> File]
    /\ text \in [Req -> Seq(Line)]
    /\ todo \in [Req -> SUBSET TestFile]

FileTypes ==
    /\ content \in [File -> Seq(Line)]
    /\ list \in File
    /\ copy \in File \cup {None}
    /\ testdata \in [Number -> Dir \cup {None}]
    /\ statement \in [Number -> Author \cup {"empty", None}]
    /\ submissions \in Seq(Result)

LEMMA TypesAre == TypeOK <=> RequestTypes /\ LocalTypes /\ FileTypes
BY DEF TypeOK, RequestTypes, LocalTypes, FileTypes

LEMMA FrameOf ==
    ASSUME RequestTypes, LocalTypes, NEW r \in Req, Step(r)
    PROVE  Frame(r)
<1> USE DEF RequestTypes, LocalTypes, Frame, Arrive, Go, Ended, local, score
<1>1. CASE Refuse(r) \/ ReadLast(r) \/ AppendLine(r) \/ MakeDirs(r)
  BY <1>1 DEF Refuse, ReadLast, AppendLine, MakeDirs
<1>2. CASE WriteStatement(r) \/ WriteInput(r) \/ WriteOutput(r) \/ UploadEnd(r)
  BY <1>2 DEF WriteStatement, WriteInput, WriteOutput, UploadEnd
<1>3. CASE ReadList(r) \/ WriteCopy(r) \/ RemoveCopy(r) \/ MoveCopy(r)
  BY <1>3 DEF ReadList, WriteCopy, RemoveCopy, MoveCopy
<1>4. CASE OpenDir(r) \/ RemoveTest(r) \/ RemoveDir(r) \/ RemoveStatement(r)
  BY <1>4 DEF OpenDir, RemoveTest, RemoveDir, RemoveStatement
<1>5. CASE Count(r)
  <2>1. PICK t : total' = [total EXCEPT ![r] = t]
    BY <1>5 DEF Count
  <2>2. /\ pc[r] = "compiling" /\ pc' = [pc EXCEPT ![r] = "judging"]
        /\ n' = [n EXCEPT ![r] = 1]
        /\ UNCHANGED <<query, number, got, pass, fd, text, todo, before>>
    BY <1>5 DEF Count
  <2>3. QED
    BY <2>1, <2>2
<1>6. CASE ReadInput(r) \/ ReadOutput(r)
  <2>1. ReadOutput(r) => \E k : pass' = [pass EXCEPT ![r] = k]
    BY DEF ReadOutput
  <2>2. QED
    BY <1>6, <2>1 DEF ReadInput, ReadOutput
<1>7. CASE Score(r) \/ Kill(r)
  BY <1>7 DEF Score, Kill
<1>8. CASE Compile(r) \/ CompileError(r) \/ ShowTable(r)
  BY <1>8 DEF Compile, CompileError, ShowTable
<1>9. QED
  BY <1>1, <1>2, <1>3, <1>4, <1>5, <1>6, <1>7, <1>8 DEF Step

---------------------------------------------------------------------------
\* Numbers and types

LEMMA NumberIsNat ==
    ASSUME NEW i \in Number \cup {0}
    PROVE  i \in Nat
BY ProblemsAssumption, FS_CardinalityType DEF Number

\* The number of a new problem is at most one more than all those that others have.
LEMMA NumberIs ==
    ASSUME TypeOK, Control, Dense, LinesOwn, NEW r \in Req, ReadLast(r)
    PROVE  /\ number'[r] \in Number
           /\ \A m \in 1001 + Shipped .. number'[r] - 1 :
                 \E q \in Req : query[q].op = "upload" /\ number[q] = m
<1> DEFINE lines == content[list]
           size == Cardinality(Req)
           i == number'[r]
           f == [q \in Req |-> IF query[q].op = "upload" /\ number[q] > 1000 + Shipped
                               THEN number[q] - 1000 - Shipped ELSE 0]
<1>1. size \in Nat /\ size >= 1
  <2>1. size \in Nat /\ size # 0
    BY ProblemsAssumption, FS_CardinalityType, FS_EmptySet
  <2>2. QED
    BY <2>1
<1>2. Shipped \in Nat /\ Number = 1001 .. 1000 + Shipped + size
  BY ProblemsAssumption DEF Number
<1> HIDE DEF size
<1>3. f \in [Req -> Nat] /\ f[r] = 0
  <2>1. \A q \in Req : number[q] \in Int
    BY <1>2 DEF TypeOK
  <2>2. number[r] = 0
    BY DEF ReadLast, Arrive, Control
  <2>3. QED
    BY <1>2, <2>1, <2>2
<1>4. i = (IF lines = <<>> \/ Last(lines).id = None THEN 1000 ELSE Last(lines).id) + 1
  BY DEF ReadLast, TypeOK
<1>5. CASE lines = <<>> \/ Last(lines).id = None
  BY <1>1, <1>2, <1>4, <1>5
<1>6. CASE lines # <<>> /\ Last(lines).id # None
  <2> DEFINE l == lines[Len(lines)]
  <2>1. lines \in Seq(Line) /\ Len(lines) \in DOMAIN lines
    BY <1>6 DEF TypeOK
  <2>2. l \in Line /\ IsLine(l) /\ Last(lines) = l
    BY <2>1 DEF LinesOwn, TypeOK, Last
  <2> HIDE DEF l
  <2>3. i = l.id + 1 /\ l.id # None
    BY <1>4, <1>6, <2>2
  <2>4. CASE l.by = "shipped"
    <3>1. l.id \in 1001 .. 1000 + Shipped
      BY <2>2, <2>3, <2>4 DEF IsLine, ShippedNumber
    <3>2. QED
      BY <1>1, <1>2, <2>3, <3>1
  <2>5. CASE l.by # "shipped"
    <3> DEFINE p == l.by
    <3>1. p \in Req
      BY <2>2, <2>5 DEF Line, Author
    <3>2. query[p].op = "upload" /\ l.id = number[p] /\ number[p] \in Number
      BY <2>2, <2>3, <2>5, <3>1 DEF IsLine, Control
    <3>3. \A m \in 1001 + Shipped .. number[p] :
             \E q \in Req : query[q].op = "upload" /\ number[q] = m
      BY <3>1, <3>2 DEF Dense
    <3>4. i \in Number
      <4>1. CASE number[p] <= 1000 + Shipped
        BY <1>1, <1>2, <2>3, <3>2, <4>1
      <4>2. CASE number[p] > 1000 + Shipped
        <5>1. f[p] = number[p] - 1000 - Shipped
          BY <3>1, <3>2, <4>2
        <5>2. ASSUME NEW m \in 1 .. f[p]
              PROVE  \E q \in Req : f[q] = m
          <6>1. m + 1000 + Shipped \in 1001 + Shipped .. number[p]
            BY <1>2, <3>2, <5>1
          <6>2. PICK q \in Req : query[q].op = "upload" /\ number[q] = m + 1000 + Shipped
            BY <3>3, <6>1
          <6>3. f[q] = m
            BY <1>2, <6>1, <6>2
          <6>4. QED
            BY <6>3
        <5> HIDE DEF f
        <5>3. f[p] < size
          BY <1>3, <3>1, <5>2, ProblemsAssumption, DenseIsBounded DEF size
        <5>4. QED
          BY <1>1, <1>2, <2>3, <3>2, <5>1, <5>3
      <4>3. QED
        BY <1>2, <3>2, <4>1, <4>2
    <3>5. QED
      BY <1>2, <2>3, <3>2, <3>3, <3>4
  <2>6. QED
    BY <2>4, <2>5
<1>7. QED
  BY <1>5, <1>6

\* Which tests an upload writes and a submission reads.
LEMMA TestIs ==
    ASSUME TypeOK, NEW r \in Req, n[r] \in 1 .. MaxCases
    PROVE  <<n[r], "in">> \in TestFile /\ <<n[r], "out">> \in TestFile
BY DEF TestFile

LEMMA CountIs ==
    ASSUME TypeOK, NEW dir \in Dir
    PROVE  Cardinality({f \in DOMAIN dir : f[2] = "in"}) \in Nat
<1>1. IsFiniteSet({f \in DOMAIN dir : f[2] = "in"})
  BY DirIs, TestFileFinite, FS_Subset
<1>2. QED
  BY <1>1, FS_CardinalityType

LEMMA RequestTypesKept ==
    ASSUME RequestTypes, NEW r \in Req, Step(r)
    PROVE  RequestTypes'
<1> USE DEF RequestTypes, Arrive, Go, Ended, local
<1>1. CASE Refuse(r) \/ ReadLast(r) \/ AppendLine(r) \/ MakeDirs(r)
  BY <1>1 DEF Refuse, ReadLast, AppendLine, MakeDirs
<1>2. CASE WriteStatement(r) \/ WriteInput(r) \/ WriteOutput(r) \/ UploadEnd(r)
  BY <1>2 DEF WriteStatement, WriteInput, WriteOutput, UploadEnd
<1>3. CASE ReadList(r) \/ WriteCopy(r) \/ RemoveCopy(r) \/ MoveCopy(r)
  BY <1>3 DEF ReadList, WriteCopy, RemoveCopy, MoveCopy
<1>4. CASE OpenDir(r) \/ RemoveTest(r) \/ RemoveDir(r) \/ RemoveStatement(r)
  BY <1>4 DEF OpenDir, RemoveTest, RemoveDir, RemoveStatement
<1>5. CASE \/ Count(r) \/ ReadInput(r) \/ ReadOutput(r) \/ Score(r) \/ Kill(r)
           \/ Compile(r) \/ CompileError(r) \/ ShowTable(r)
  BY <1>5 DEF Count, ReadInput, ReadOutput, Score, Kill, Compile, CompileError, ShowTable
<1>6. QED
  BY <1>1, <1>2, <1>3, <1>4, <1>5 DEF Step

LEMMA LocalTypesKept ==
    ASSUME TypeOK, Control, Dense, LinesOwn, NEW r \in Req, Step(r)
    PROVE  LocalTypes'
<1> USE DEF LocalTypes, local, score
<1>0. LocalTypes /\ FileTypes
  BY TypesAre
<1> USE <1>0
<1>1. CASE Refuse(r)
  BY <1>1 DEF Refuse
<1>2. CASE ReadLast(r)
  <2>1. number'[r] \in Number
    BY <1>2, NumberIs
  <2>2. QED
    BY <1>2, <2>1 DEF ReadLast
<1>3. CASE AppendLine(r) \/ MakeDirs(r) \/ WriteInput(r) \/ UploadEnd(r)
  BY <1>3 DEF AppendLine, MakeDirs, WriteInput, UploadEnd
<1>4. CASE WriteStatement(r)
  BY <1>4, ProblemsAssumption DEF WriteStatement
<1>5. CASE WriteOutput(r) \/ ReadOutput(r)
  <2>1. n[r] \in 1 .. MaxCases /\ MaxCases \in Nat
    BY <1>5, ProblemsAssumption DEF WriteOutput, ReadOutput, Control
  <2>2. n[r] + 1 \in 0 .. MaxCases + 1 /\ pass[r] + 1 \in Nat
    BY <2>1
  <2>3. n' = [n EXCEPT ![r] = n[r] + 1]
    BY <1>5 DEF WriteOutput, ReadOutput
  <2>4. n' \in [Req -> 0 .. MaxCases + 1]
    BY <2>2, <2>3
  <2>5. pass' \in [Req -> Nat]
    BY <1>5, <2>2 DEF WriteOutput, ReadOutput
  <2>6. QED
    BY <1>5, <2>4, <2>5 DEF WriteOutput, ReadOutput
<1>6. CASE ReadList(r)
  <2>1. content[list] \in Seq(Line)
    BY DEF FileTypes
  <2>2. Without(content[list], query[r].number) \in Seq(Line)
    BY <2>1, WithoutIs
  <2>3. (IF copy = None THEN r ELSE copy) \in File
    BY DEF FileTypes, File, Author
  <2>4. fd' \in [Req -> File] /\ text' \in [Req -> Seq(Line)]
    BY <1>6, <2>2, <2>3 DEF ReadList
  <2>5. QED
    BY <1>6, <2>4 DEF ReadList
<1>7. CASE WriteCopy(r) \/ RemoveCopy(r) \/ MoveCopy(r) \/ RemoveDir(r) \/ RemoveStatement(r)
  BY <1>7 DEF WriteCopy, RemoveCopy, MoveCopy, RemoveDir, RemoveStatement
<1>8. CASE OpenDir(r) \/ RemoveTest(r)
  <2>1. pc[r] \notin {"idle", "refused"}
    BY <1>8 DEF OpenDir, RemoveTest
  <2>2. number[r] \in Number
    BY <2>1 DEF Control
  <2>3. testdata[number[r]] \in Dir \cup {None}
    BY <2>2 DEF FileTypes
  <2>4. testdata[number[r]] = None \/ DOMAIN testdata[number[r]] \in SUBSET TestFile
    BY <2>3, DirIs
  <2>5. todo' \in [Req -> SUBSET TestFile]
    <3>1. CASE OpenDir(r)
      <4>1. (IF testdata[number[r]] = None THEN {} ELSE DOMAIN testdata[number[r]])
              \in SUBSET TestFile
        BY <2>4
      <4>2. QED
        BY <3>1, <4>1 DEF OpenDir
    <3>2. CASE RemoveTest(r)
      <4>1. todo[r] \in SUBSET TestFile
        OBVIOUS
      <4>2. PICK f : todo' = [todo EXCEPT ![r] = todo[r] \ {f}]
        BY <3>2 DEF RemoveTest
      <4>3. QED
        BY <4>1, <4>2
    <3>3. QED
      BY <1>8, <3>1, <3>2
  <2>6. QED
    BY <1>8, <2>5 DEF OpenDir, RemoveTest
<1>9. CASE Count(r)
  <2> DEFINE i == number[r]
             inputs == IF testdata[i] = None THEN {} ELSE {f \in DOMAIN testdata[i] : f[2] = "in"}
  <2>1. /\ i \in Number
        /\ total' = [total EXCEPT ![r] = IF inputs = {} THEN 1 ELSE Cardinality(inputs)]
    BY <1>9 DEF Count, Control
  <2>2. inputs # {} => IsFiniteSet(inputs)
    BY <2>1, DirIs, TestFileFinite, FS_Subset DEF FileTypes
  <2>3. inputs # {} => Cardinality(inputs) \in Nat /\ Cardinality(inputs) # 0
    BY <2>2, FS_CardinalityType, FS_EmptySet
  <2> HIDE DEF inputs
  <2>4. (IF inputs = {} THEN 1 ELSE Cardinality(inputs)) \in Nat \ {0}
    BY <2>3
  <2>5. total' \in [Req -> Nat \ {0}]
    BY <2>1, <2>4
  <2>6. n' \in [Req -> 0 .. MaxCases + 1]
    BY <1>9, ProblemsAssumption DEF Count
  <2>7. QED
    BY <1>9, <2>1, <2>5, <2>6 DEF Count
<1>10. CASE ReadInput(r)
  <2>1. number[r] \in Number
    BY <1>10 DEF ReadInput, Control
  <2>2. testdata[number[r]][<<n[r], "in">>] \in Author
    BY <1>10, <2>1, DirIs DEF ReadInput, HasFile, FileTypes
  <2>3. got' \in [Req -> Author]
    BY <1>10, <2>2 DEF ReadInput
  <2>4. QED
    BY <1>10, <2>3 DEF ReadInput
<1>11. CASE Score(r) \/ Kill(r) \/ Compile(r) \/ CompileError(r) \/ ShowTable(r)
  BY <1>11 DEF Score, Kill, Compile, CompileError, ShowTable
<1>12. QED
  BY <1>1, <1>2, <1>3, <1>4, <1>5, <1>6, <1>7, <1>8, <1>9, <1>10, <1>11 DEF Step

LEMMA ResultReq ==
    ASSUME NEW q \in Seq(Result)
    PROVE  \A s \in DOMAIN q : q[s].req \in Req
<1>1. \A s \in DOMAIN q : q[s] \in Result
  OBVIOUS
<1>2. ASSUME NEW x \in Result PROVE x.req \in Req
  BY <1>2 DEF Result
<1>3. QED
  BY <1>1, <1>2

LEMMA FileTypesKept ==
    ASSUME TypeOK, Control, NEW r \in Req, Step(r)
    PROVE  FileTypes'
<1> USE DEF FileTypes, files, dirs
<1>0. LocalTypes /\ FileTypes
  BY TypesAre
<1>1. CASE \/ Refuse(r) \/ ReadLast(r) \/ UploadEnd(r) \/ OpenDir(r)
           \/ Count(r) \/ ReadInput(r) \/ ReadOutput(r) \/ Kill(r)
           \/ Compile(r) \/ CompileError(r) \/ ShowTable(r)
  BY <1>0, <1>1
     DEF Refuse, ReadLast, UploadEnd, OpenDir, Count, ReadInput, ReadOutput, Kill, Compile,
         CompileError, ShowTable
<1>2. CASE AppendLine(r)
  <2>1. number[r] \in Number
    BY <1>2 DEF AppendLine, Control
  <2>2. number[r] \in Nat
    BY <2>1, NumberIsNat
  <2>3. [id |-> number[r], by |-> r] \in Line
    BY <2>2 DEF Line, Author
  <2>4. content[list] \in Seq(Line)
    BY <1>0
  <2>5. Append(content[list], [id |-> number[r], by |-> r]) \in Seq(Line)
    BY <2>3, <2>4
  <2>6. content' \in [File -> Seq(Line)]
    BY <1>0, <1>2, <2>5 DEF AppendLine
  <2>7. QED
    BY <1>0, <1>2, <2>6 DEF AppendLine
<1>3. CASE MakeDirs(r)
  <2>1. [f \in {} |-> r] \in Dir
    <3>1. [f \in {} |-> r] \in [{} -> Author] /\ {} \in SUBSET TestFile
      OBVIOUS
    <3>2. QED
      BY <3>1, DirMade
  <2> DEFINE new == [f \in {} |-> r]
  <2> HIDE DEF new
  <2>2. testdata' \in [Number -> Dir \cup {None}]
    BY <1>0, <1>3, <2>1 DEF MakeDirs, new
  <2>3. statement' \in [Number -> Author \cup {"empty", None}]
    BY <1>0, <1>3 DEF MakeDirs
  <2>4. QED
    BY <1>0, <1>3, <2>2, <2>3 DEF MakeDirs
<1>4. CASE WriteStatement(r) \/ RemoveStatement(r)
  <2>1. statement' \in [Number -> Author \cup {"empty", None}]
    BY <1>0, <1>4 DEF WriteStatement, RemoveStatement, Author
  <2>2. QED
    BY <1>0, <1>4, <2>1 DEF WriteStatement, RemoveStatement
<1>5. CASE WriteInput(r) \/ WriteOutput(r)
  <2>1. n[r] \in 1 .. MaxCases
    BY <1>0, <1>5, ProblemsAssumption
       DEF WriteInput, WriteOutput, MoreCases, Control, LocalTypes
  <2>2. number[r] \in Number /\ r \in Author
    BY <1>5 DEF WriteInput, WriteOutput, Control, Author
  <2>3. /\ WithFile(testdata[number[r]], <<n[r], "in">>, r) \in Dir \cup {None}
        /\ WithFile(testdata[number[r]], <<n[r], "out">>, r) \in Dir \cup {None}
    BY <1>0, <2>1, <2>2, TestIs, WithFileIs
  <2>4. testdata' \in [Number -> Dir \cup {None}]
    BY <1>0, <1>5, <2>3 DEF WriteInput, WriteOutput
  <2>5. QED
    BY <1>0, <1>5, <2>4 DEF WriteInput, WriteOutput
<1>6. CASE ReadList(r)
  <2>1. (IF copy = None THEN r ELSE copy) \in File
    BY <1>0 DEF File, Author
  <2>2. content' \in [File -> Seq(Line)] /\ copy' \in File
    BY <1>0, <1>6, <2>1 DEF ReadList
  <2>3. QED
    BY <1>0, <1>6, <2>2 DEF ReadList
<1>7. CASE WriteCopy(r)
  <2>1. PICK lines \in Overwritten(fd[r], text[r]) : content' = [content EXCEPT ![fd[r]] = lines]
    BY <1>7 DEF WriteCopy
  <2>2. lines \in Seq(Line)
    BY <1>0, <2>1, OverwrittenIs DEF LocalTypes
  <2>3. content' \in [File -> Seq(Line)]
    BY <1>0, <2>1, <2>2
  <2>4. QED
    BY <1>0, <1>7, <2>3 DEF WriteCopy
<1>8. CASE RemoveCopy(r) \/ MoveCopy(r)
  BY <1>0, <1>8 DEF RemoveCopy, MoveCopy
<1>9. CASE RemoveTest(r) \/ RemoveDir(r)
  <2> DEFINE dir == testdata[number[r]]
  <2>1. number[r] \in Number
    BY <1>9 DEF RemoveTest, RemoveDir, Control
  <2>2. dir \in Dir \cup {None}
    BY <1>0, <2>1
  <2>3. ASSUME NEW f, dir # None
        PROVE  [g \in DOMAIN dir \ {f} |-> dir[g]] \in Dir
    <3>1. DOMAIN dir \in SUBSET TestFile /\ dir \in [DOMAIN dir -> Author]
      BY <2>2, <2>3, DirIs
    <3> HIDE DEF dir
    <3>2. [g \in DOMAIN dir \ {f} |-> dir[g]] \in [DOMAIN dir \ {f} -> Author]
      BY <3>1
    <3>3. DOMAIN dir \ {f} \in SUBSET TestFile
      BY <3>1
    <3>4. QED
      BY <3>2, <3>3, DirMade
  <2>4. testdata' \in [Number -> Dir \cup {None}]
    <3>1. CASE RemoveTest(r)
      <4>1. PICK f \in todo[r] : testdata' = [testdata EXCEPT ![number[r]] =
                 IF dir = None THEN None ELSE [g \in DOMAIN dir \ {f} |-> dir[g]]]
        BY <3>1 DEF RemoveTest
      <4>2. (IF dir = None THEN None ELSE [g \in DOMAIN dir \ {f} |-> dir[g]]) \in Dir \cup {None}
        BY <2>3
      <4>3. QED
        BY <1>0, <4>1, <4>2
    <3>2. CASE RemoveDir(r)
      BY <1>0, <2>2, <3>2 DEF RemoveDir
    <3>3. QED
      BY <1>9, <3>1, <3>2
  <2>5. QED
    BY <1>0, <1>9, <2>4 DEF RemoveTest, RemoveDir
<1>10. CASE Score(r)
  <2> DEFINE result == [user |-> query[r].user, number |-> number[r],
                        pass |-> pass[r], total |-> total[r], req |-> r]
  <2>1. query[r].user \in User
    BY QueriesAre DEF Queries
  <2>2. number[r] \in Nat /\ pass[r] \in Nat /\ total[r] \in Nat
    <3>1. number[r] \in Number \cup {0} /\ pass[r] \in Nat /\ total[r] \in Nat
      BY <1>0 DEF LocalTypes
    <3>2. QED
      BY <3>1, NumberIsNat
  <2>3. result \in Result
    BY <2>1, <2>2 DEF Result
  <2> HIDE DEF result
  <2>4. submissions' = Append(submissions, result)
    BY <1>10 DEF Score, result
  <2>5. submissions' \in Seq(Result)
    BY <1>0, <2>3, <2>4
  <2>6. QED
    BY <1>0, <1>10, <2>5 DEF Score
<1>11. QED
  BY <1>1, <1>2, <1>3, <1>4, <1>5, <1>6, <1>7, <1>8, <1>9, <1>10 DEF Step

---------------------------------------------------------------------------
\* Where requests are, and the lines of files

LEMMA PastKept ==
    ASSUME RequestTypes, Past, NEW r \in Req, Frame(r)
    PROVE  Past'
BY DEF RequestTypes, Past, Frame

Controlled(q) ==
    /\ pc[q] \in Making => query[q].op = "upload"
    /\ pc[q] \in Copying \cup Removing => query[q].op = "delete"
    /\ pc[q] \in Judging \cup {"compiling", "showing"} => query[q].op = "submit"
    /\ pc[q] = "idle" => number[q] = 0
    /\ pc[q] \notin {"idle", "refused"} => number[q] \in Number
    /\ pc[q] \notin {"idle", "refused"} /\ query[q].op # "upload" =>
          number[q] = query[q].number
    /\ pc[q] \in {"idle", "compiling"} => pass[q] = 0
    /\ pc[q] \in {"input", "judging"} => n[q] # 0
    /\ pc[q] \in {"output", "comparing"} => n[q] \in 1 .. MaxCases

\* From one step of a request to its next one.
Flow(r) ==
    \/ pc[r] = "idle" /\ pc'[r] = "refused"
    \/ pc[r] = "idle" /\ pc'[r] = "numbered" /\ query[r].op = "upload" /\ number'[r] \in Number
    \/ /\ pc[r] = "idle" /\ pc'[r] \in {"copying", "vain"} /\ query[r].op = "delete"
       /\ number'[r] = query[r].number /\ number'[r] \in Number
    \/ /\ pc[r] = "idle" /\ pc'[r] = "compiling" /\ query[r].op = "submit"
       /\ number'[r] = query[r].number /\ number'[r] \in Number /\ pass'[r] = pass[r]
    \/ pc[r] = "compiling" /\ pc'[r] = "judging" /\ n'[r] = 1
    \/ <<pc[r], pc'[r]>> \in {<<"numbered", "listed">>, <<"listed", "made">>, <<"input", "done">>,
           <<"copying", "moving">>, <<"vain", "unfound">>, <<"unfound", "refused">>,
           <<"moving", "moved">>, <<"moved", "removing">>, <<"removing", "removing">>,
           <<"removing", "emptied">>, <<"emptied", "done">>, <<"compiling", "done">>,
           <<"judging", "showing">>, <<"showing", "done">>}
    \/ pc[r] = "made" /\ pc'[r] = "input" /\ n'[r] = 1
    \/ /\ <<pc[r], pc'[r]>> \in {<<"input", "output">>, <<"judging", "comparing">>}
       /\ n'[r] = n[r] /\ n'[r] \in 1 .. MaxCases
    \/ /\ <<pc[r], pc'[r]>> \in {<<"output", "input">>, <<"comparing", "judging">>}
       /\ n'[r] = n[r] + 1
    \/ pc[r] \notin Ended \cup {"idle"} /\ pc'[r] = "dead"

LEMMA FlowIs ==
    ASSUME TypeOK, Control, Dense, LinesOwn, NEW r \in Req, Step(r)
    PROVE  Flow(r)
<1>0. RequestTypes /\ LocalTypes /\ FileTypes
  BY TypesAre
<1> USE <1>0 DEF Flow, RequestTypes, LocalTypes, Arrive, Go
<1>1. CASE Refuse(r) \/ Kill(r)
  BY <1>1 DEF Refuse, Kill
<1>2. CASE ReadLast(r)
  <2>1. number'[r] \in Number
    BY <1>2, NumberIs
  <2>2. QED
    BY <1>2, <2>1 DEF ReadLast
<1>3. CASE AppendLine(r) \/ MakeDirs(r) \/ WriteStatement(r) \/ UploadEnd(r)
  BY <1>3 DEF AppendLine, MakeDirs, WriteStatement, UploadEnd
<1>4. CASE WriteInput(r)
  <2>1. n[r] \in 1 .. MaxCases
    BY <1>4, ProblemsAssumption DEF WriteInput, MoreCases, Control
  <2>2. QED
    BY <1>4, <2>1 DEF WriteInput, local
<1>5. CASE WriteOutput(r)
  BY <1>5 DEF WriteOutput
<1>6. CASE ReadList(r)
  BY <1>6 DEF ReadList
<1>7. CASE WriteCopy(r) \/ RemoveCopy(r) \/ MoveCopy(r)
  BY <1>7 DEF WriteCopy, RemoveCopy, MoveCopy
<1>8. CASE OpenDir(r) \/ RemoveTest(r) \/ RemoveDir(r) \/ RemoveStatement(r)
  BY <1>8 DEF OpenDir, RemoveTest, RemoveDir, RemoveStatement
<1>9. CASE Count(r) \/ Compile(r) \/ CompileError(r) \/ ShowTable(r)
  BY <1>9 DEF Count, Compile, CompileError, ShowTable, score
<1>10. CASE ReadInput(r)
  <2>1. <<n[r], "in">> \in TestFile
    <3>1. number[r] \in Number
      BY <1>10 DEF ReadInput, Control
    <3>2. QED
      BY <1>10, <3>1, DirIs DEF ReadInput, HasFile, FileTypes
  <2>2. n[r] \in 1 .. MaxCases
    BY <2>1 DEF TestFile
  <2>3. QED
    BY <1>10, <2>2 DEF ReadInput
<1>11. CASE ReadOutput(r) \/ Score(r)
  BY <1>11 DEF ReadOutput, Score
<1>12. QED
  BY <1>1, <1>2, <1>3, <1>4, <1>5, <1>6, <1>7, <1>8, <1>9, <1>10, <1>11 DEF Step

LEMMA ControlKept ==
    ASSUME TypeOK, Control, Dense, LinesOwn, NEW r \in Req, Step(r)
    PROVE  Control'
<1>0. RequestTypes /\ LocalTypes /\ Frame(r) /\ Flow(r)
  BY TypesAre, FrameOf, FlowIs
<1>1. \A q \in Req : Controlled(q)
  BY DEF Control, Controlled
<1>2. \A q \in Req \ {r} : Controlled(q)'
  BY <1>0, <1>1 DEF Frame, Controlled
<1>3. Controlled(r)'
  <2>1. Controlled(r) /\ n[r] \in Nat
    BY <1>0, <1>1, ProblemsAssumption DEF LocalTypes
  <2>2. query' = query /\ pc'[r] # "idle" /\ (pc[r] # "idle" => number'[r] = number[r])
    BY <1>0 DEF Frame
  <2> USE DEF Making, Copying, Removing, Judging, Ended
  <2>3. CASE pc[r] = "idle"
    BY <1>0, <2>1, <2>2, <2>3, ProblemsAssumption DEF Controlled, Flow
  <2>4. CASE pc[r] # "idle"
    <3>1. number'[r] = number[r] /\ (pc'[r] \notin {"idle", "refused"} => number[r] \in Number)
      BY <1>0, <2>1, <2>2, <2>4 DEF Controlled, Flow
    <3>2. /\ pc'[r] \in {"input", "judging"} => n'[r] # 0
          /\ pc'[r] \in {"output", "comparing"} => n'[r] \in 1 .. MaxCases
      BY <1>0, <2>1, <2>4 DEF Flow
    <3>3. /\ pc'[r] \in Making => query[r].op = "upload"
          /\ pc'[r] \in Copying \cup Removing => query[r].op = "delete"
          /\ pc'[r] \in Judging \cup {"compiling", "showing"} => query[r].op = "submit"
          /\ pc'[r] \notin {"idle", "refused"} /\ query[r].op # "upload" =>
                number[r] = query[r].number
          /\ pc'[r] # "compiling"
      BY <1>0, <2>1, <2>4 DEF Controlled, Flow
    <3>4. QED
      BY <2>2, <3>1, <3>2, <3>3 DEF Controlled
  <2>5. QED
    BY <2>3, <2>4
<1>4. QED
  BY <1>2, <1>3 DEF Control, Controlled

LEMMA DenseKept ==
    ASSUME TypeOK, Control, Dense, LinesOwn, NEW r \in Req, Step(r)
    PROVE  Dense'
<1>0. RequestTypes /\ LocalTypes /\ Frame(r) /\ Shipped \in Nat
  BY TypesAre, FrameOf, ProblemsAssumption
<1>1. pc[r] = "idle" => number[r] = 0
  BY DEF Control
<1>2. \A q \in Req : query[q].op = "upload" /\ number[q] # 0 => number'[q] = number[q]
  BY <1>0, <1>1 DEF Frame
<1> SUFFICES ASSUME NEW p \in Req, query'[p].op = "upload",
                    NEW m \in 1001 + Shipped .. number'[p]
             PROVE  \E q \in Req : query'[q].op = "upload" /\ number'[q] = m
  BY DEF Dense
<1>3. query' = query /\ m # 0
  BY <1>0 DEF Frame
<1>4. CASE number'[p] = number[p]
  <2>1. PICK q \in Req : query[q].op = "upload" /\ number[q] = m
    BY <1>3, <1>4 DEF Dense
  <2>2. QED
    BY <1>2, <1>3, <2>1
<1>5. CASE number'[p] # number[p]
  <2>0. p = r /\ pc[r] = "idle" /\ query[r].op = "upload"
    BY <1>0, <1>3, <1>5 DEF Frame
  <2>1. p = r /\ ReadLast(r)
    BY <1>0, <1>3, <1>5, <2>0
       DEF Step, Frame, Refuse, AppendLine, MakeDirs, WriteStatement, WriteInput, WriteOutput,
           UploadEnd, ReadList, WriteCopy, RemoveCopy, MoveCopy, OpenDir, RemoveTest, RemoveDir,
           RemoveStatement, Count, ReadInput, ReadOutput, Score, Kill, Compile,
           CompileError, ShowTable, local
  <2>2. number'[r] \in Nat /\ \A k \in 1001 + Shipped .. number'[r] - 1 :
                 \E q \in Req : query[q].op = "upload" /\ number[q] = k
    BY <2>1, NumberIs, NumberIsNat
  <2>3. CASE m = number'[r]
    BY <1>3, <2>1, <2>3
  <2>4. CASE m # number'[r]
    <3>1. m \in 1001 + Shipped .. number'[r] - 1
      BY <1>0, <2>1, <2>2, <2>4
    <3>2. QED
      BY <1>2, <1>3, <2>2, <3>1
  <2>5. QED
    BY <2>3, <2>4
<1>6. QED
  BY <1>4, <1>5

Torn(l) == [l EXCEPT !.id = None]

\* Where the lines of a file, and those that a deletion is about to write, come from.
LinesCome(r) ==
    /\ \A f \in File : \A k \in DOMAIN content'[f] :
          LET l == content'[f][k] IN
          \/ \E h \in DOMAIN content[f] : l = content[f][h] \/ l = Torn(content[f][h])
          \/ /\ pc[r] \in {"copying", "vain"} /\ f = fd[r]
             /\ \E h \in DOMAIN text[r] : l = text[r][h]
          \/ /\ pc[r] = "numbered" /\ pc'[r] = "listed" /\ f = list
             /\ l = [id |-> number[r], by |-> r]
    /\ \A k \in DOMAIN text'[r] :
          \/ \E h \in DOMAIN text[r] : text'[r][k] = text[r][h]
          \/ /\ pc[r] = "idle" /\ pc'[r] \in Copying /\ text'[r][k].id # number'[r]
             /\ \E h \in DOMAIN content[list] : text'[r][k] = content[list][h]

LEMMA LinesComeFrom ==
    ASSUME TypeOK, NEW r \in Req, Step(r)
    PROVE  LinesCome(r)
<1>0. RequestTypes /\ LocalTypes /\ FileTypes /\ Frame(r)
  BY TypesAre, FrameOf
<1> USE DEF LinesCome
<1>1. CASE content' = content /\ text' = text
  BY <1>1
<1>2. CASE AppendLine(r)
  <2> DEFINE new == [id |-> number[r], by |-> r]
  <2>1. content' = [content EXCEPT ![list] = Append(content[list], new)] /\ text' = text
    BY <1>2 DEF AppendLine, local
  <2>2. pc[r] = "numbered" /\ pc'[r] = "listed"
    BY <1>0, <1>2 DEF AppendLine, Go, RequestTypes
  <2>3. content[list] \in Seq(Line) /\ list \in File
    BY <1>0 DEF FileTypes
  <2> HIDE DEF new
  <2>4. \A k \in DOMAIN Append(content[list], new) :
           (\E h \in DOMAIN content[list] : Append(content[list], new)[k] = content[list][h])
           \/ Append(content[list], new)[k] = new
    BY <2>3
  <2>5. content'[list] = Append(content[list], new)
        /\ \A f \in File \ {list} : content'[f] = content[f]
    BY <1>0, <2>1, <2>3 DEF FileTypes
  <2>6. QED
    BY <2>1, <2>2, <2>4, <2>5 DEF new
<1>3. CASE ReadList(r)
  <2> DEFINE f == IF copy = None THEN r ELSE copy
  <2>1. /\ content' = [content EXCEPT ![f] = <<>>]
        /\ text' = [text EXCEPT ![r] = Without(content[list], query[r].number)]
        /\ number' = [number EXCEPT ![r] = query[r].number]
    BY <1>3 DEF ReadList
  <2>2. pc[r] = "idle" /\ pc'[r] \in Copying
    BY <1>0, <1>3 DEF ReadList, Arrive, Go, Copying, RequestTypes
  <2> HIDE DEF f
  <2>3. \A g \in File : content'[g] = content[g] \/ content'[g] = <<>>
    BY <1>0, <2>1 DEF FileTypes
  <2>4. content[list] \in Seq(Line)
    BY <1>0 DEF FileTypes
  <2>5. text'[r] = Without(content[list], query[r].number) /\ number'[r] = query[r].number
    BY <1>0, <2>1 DEF LocalTypes
  <2>6. QED
    BY <2>2, <2>3, <2>4, <2>5, WithoutIs
<1>4. CASE WriteCopy(r)
  <2>1. PICK lines \in Overwritten(fd[r], text[r]) : content' = [content EXCEPT ![fd[r]] = lines]
    BY <1>4 DEF WriteCopy
  <2>2. fd[r] \in File /\ text[r] \in Seq(Line)
    BY <1>0 DEF LocalTypes
  <2>3. /\ pc[r] \in {"copying", "vain"} /\ text' = text
        /\ content'[fd[r]] = lines /\ \A f \in File \ {fd[r]} : content'[f] = content[f]
    BY <1>0, <1>4, <2>1, <2>2 DEF WriteCopy, FileTypes, local
  <2>4. \A k \in DOMAIN lines :
           \/ \E h \in DOMAIN text[r] : lines[k] = text[r][h]
           \/ \E h \in DOMAIN content[fd[r]] :
                 lines[k] = content[fd[r]][h] \/ lines[k] = Torn(content[fd[r]][h])
    BY <2>1, <2>2, OverwrittenIs DEF Torn
  <2>5. QED
    BY <2>3, <2>4
<1>5. QED
  BY <1>1, <1>2, <1>3, <1>4
     DEF Step, Refuse, ReadLast, MakeDirs, WriteStatement, WriteInput, WriteOutput,
         UploadEnd, RemoveCopy, MoveCopy, OpenDir, RemoveTest, RemoveDir,
         RemoveStatement, Count, ReadInput, ReadOutput, Score, Kill, Compile,
           CompileError, ShowTable, local, files

\* IsLine of the next state.
IsLineNext(l) ==
    /\ l.by = "shipped" => l.id \in ShippedNumber \cup {None}
    /\ l.by # "shipped" =>
          /\ query'[l.by].op = "upload" /\ pc'[l.by] \notin {"idle", "refused", "numbered"}
          /\ l.id \in {number'[l.by], None}

LEMMA LineStays ==
    ASSUME TypeOK, Control, NEW r \in Req, Frame(r), NEW l \in Line, IsLine(l)
    PROVE  IsLineNext(l) /\ IsLineNext(Torn(l)) /\ Torn(l) \in Line
<1>1. Torn(l) \in Line /\ Torn(l).by = l.by /\ Torn(l).id = None
  BY DEF Torn, Line
<1>2. IsLineNext(l)
  <2>1. CASE l.by = "shipped"
    BY <2>1 DEF IsLine, IsLineNext
  <2>2. CASE l.by # "shipped"
    <3> DEFINE p == l.by
    <3>1. p \in Req
      BY <2>2 DEF Line, Author
    <3>2. /\ query[p].op = "upload" /\ pc[p] \notin {"idle", "refused", "numbered"}
          /\ l.id \in {number[p], None}
      BY <2>2 DEF IsLine
    <3> HIDE DEF p
    <3>3. pc[p] # "unfound"
      BY <3>1, <3>2 DEF Control, Copying
    <3>4. query'[p].op = "upload" /\ pc'[p] \notin {"idle", "refused", "numbered"}
          /\ number'[p] = number[p]
      BY <3>1, <3>2, <3>3 DEF Frame
    <3>5. QED
      BY <2>2, <3>2, <3>4 DEF IsLineNext, p
  <2>3. QED
    BY <2>1, <2>2
<1>3. QED
  BY <1>1, <1>2 DEF IsLineNext

LEMMA LinesOwnKept ==
    ASSUME TypeOK, Control, LinesOwn, NEW r \in Req, Step(r)
    PROVE  LinesOwn'
<1>0. RequestTypes /\ LocalTypes /\ FileTypes /\ Frame(r) /\ LinesCome(r)
  BY TypesAre, FrameOf, LinesComeFrom
<1>1. ASSUME NEW l \in Line, IsLine(l)
      PROVE  IsLineNext(l) /\ IsLineNext(Torn(l))
  BY <1>0, <1>1, LineStays
<1>2. \A f \in File : \A h \in DOMAIN content[f] :
         content[f][h] \in Line /\ IsLine(content[f][h])
  BY <1>0 DEF FileTypes, LinesOwn
<1>3. \A q \in Req : \A h \in DOMAIN text[q] : text[q][h] \in Line /\ IsLine(text[q][h])
  BY <1>0 DEF LocalTypes, LinesOwn
<1>4. ASSUME NEW f \in File, NEW k \in DOMAIN content'[f]
      PROVE  IsLineNext(content'[f][k])
  <2>1. CASE \E h \in DOMAIN content[f] :
                content'[f][k] = content[f][h] \/ content'[f][k] = Torn(content[f][h])
    BY <1>1, <1>2, <2>1
  <2>2. CASE \E h \in DOMAIN text[r] : content'[f][k] = text[r][h]
    BY <1>1, <1>3, <2>2
  <2>3. CASE /\ pc[r] = "numbered" /\ pc'[r] = "listed"
             /\ content'[f][k] = [id |-> number[r], by |-> r]
    <3>1. query'[r].op = "upload" /\ number'[r] = number[r]
      BY <1>0, <2>3 DEF Control, Making, Frame
    <3>2. r # "shipped"
      BY ProblemsAssumption
    <3>3. QED
      BY <2>3, <3>1, <3>2 DEF IsLineNext
  <2>4. QED
    BY <1>0, <2>1, <2>2, <2>3 DEF LinesCome
<1>5. ASSUME NEW q \in Req, NEW k \in DOMAIN text'[q]
      PROVE  IsLineNext(text'[q][k])
  <2>1. CASE q # r
    BY <1>0, <1>1, <1>3, <2>1 DEF Frame
  <2>2. CASE q = r
    <3>1. list \in File
      BY <1>0 DEF FileTypes
    <3>2. QED
      BY <1>0, <1>1, <1>2, <1>3, <2>2, <3>1 DEF LinesCome
  <2>3. QED
    BY <2>1, <2>2
<1>6. QED
  BY <1>4, <1>5 DEF LinesOwn, IsLine, IsLineNext

\* Which file problems.txt refers to, and which its copy.
Renames(r) ==
    \/ list' = list /\ copy' = copy /\ fd' = fd
    \/ /\ ReadList(r) /\ list' = list /\ copy' = (IF copy = None THEN r ELSE copy)
       /\ fd' = [fd EXCEPT ![r] = copy'] /\ content' = [content EXCEPT ![copy'] = <<>>]
    \/ RemoveCopy(r) /\ list' = list /\ copy' = None /\ fd' = fd
    \/ MoveCopy(r) /\ copy # None /\ list' = copy /\ copy' = None /\ fd' = fd

LEMMA RenamesIs ==
    ASSUME TypeOK, NEW r \in Req, Step(r)
    PROVE  Renames(r)
<1>1. CASE ReadList(r)
  BY <1>1 DEF Renames, ReadList
<1>2. CASE RemoveCopy(r)
  BY <1>2 DEF Renames, RemoveCopy, local
<1>3. CASE MoveCopy(r)
  BY <1>3 DEF Renames, MoveCopy, local
<1>4. QED
  BY <1>1, <1>2, <1>3
     DEF Renames, Step, Refuse, ReadLast, AppendLine, MakeDirs, WriteStatement, WriteInput,
         WriteOutput, UploadEnd, WriteCopy, OpenDir, RemoveTest, RemoveDir,
         RemoveStatement, Count, ReadInput, ReadOutput, Score, Kill, Compile,
           CompileError, ShowTable, local, files

LEMMA FilesNewKept ==
    ASSUME TypeOK, FilesNew, NEW r \in Req, Step(r)
    PROVE  FilesNew'
<1>0. RequestTypes /\ LocalTypes /\ FileTypes /\ Frame(r) /\ Renames(r)
  BY TypesAre, FrameOf, RenamesIs
<1>1. None \notin File
  BY ProblemsAssumption DEF File
<1>2. ReadList(r) => pc[r] = "idle"
  BY DEF ReadList, Arrive
<1>3. copy' # list'
  BY <1>0, <1>1, <1>2 DEF Renames, FilesNew, FileTypes
<1>4. ASSUME NEW p \in Req, pc'[p] = "idle"
      PROVE  p # list' /\ p # copy' /\ \A q \in Req : fd'[q] # p
  <2>1. p # r /\ pc[p] = "idle"
    BY <1>0, <1>4 DEF Frame
  <2>2. p # list /\ p # copy /\ (\A q \in Req : fd[q] # p) /\ p # None
    BY <1>1, <2>1 DEF FilesNew, File, Author
  <2>3. QED
    BY <1>0, <2>1, <2>2 DEF Renames, LocalTypes
<1>5. QED
  BY <1>3, <1>4 DEF FilesNew

---------------------------------------------------------------------------
\* Who overlaps with whom

LEMMA NotApart ==
    ASSUME RequestTypes, Past, NEW r \in Req, Frame(r), NEW q \in Req \ {r},
           pc[q] \notin Ended \cup {"idle"}
    PROVE  ~Apart(q, r)' /\ ~Apart(r, q)'
<1>1. q \notin before'[r]
  BY DEF Past, Frame
<1>2. r \notin before'[q]
  BY DEF Past, Frame
<1>3. QED
  BY <1>1, <1>2 DEF Apart

LEMMA Alone ==
    ASSUME RequestTypes, Past, NEW r \in Req, Frame(r), NEW q \in Req \ {r},
           pc[q] \notin Ended \cup {"idle"}
    PROVE  /\ ApartFrom(q, Changing)' => r \notin Changing
           /\ ApartFrom(r, Changing)' => q \notin Changing
           /\ InTurn' => r \notin Changing \/ q \notin Changing
           /\ Undisturbed' => r \notin Changing /\ q \notin Changing
<1>1. ~Apart(q, r)' /\ ~Apart(r, q)'
  BY NotApart
<1>2. pc'[r] # "idle" /\ pc'[q] # "idle" /\ query' = query
  BY DEF Frame
<1>3. ApartFrom(q, Changing)' => r \notin Changing
  BY <1>1, <1>2 DEF ApartFrom, Changing, Arrived
<1>4. ApartFrom(r, Changing)' => q \notin Changing
  BY <1>1, <1>2 DEF ApartFrom, Changing, Arrived
<1>5. InTurn' => r \notin Changing \/ q \notin Changing
  BY <1>2, <1>3 DEF InTurn, Changing, Arrived
<1>6. Undisturbed' => r \notin Changing /\ q \notin Changing
  BY <1>2, <1>3, <1>4 DEF Undisturbed, Arrived
<1>7. QED
  BY <1>3, <1>4, <1>5, <1>6

LEMMA ApartBefore ==
    ASSUME RequestTypes, NEW r \in Req, Frame(r), NEW q \in Req, pc[q] # "idle",
           ApartFrom(q, Changing)'
    PROVE  ApartFrom(q, Changing)
<1>1. query' = query
  BY DEF Frame
<1> SUFFICES ASSUME NEW p \in Changing \ {q}, pc[p] # "idle"
             PROVE  Apart(p, q)
  BY DEF ApartFrom, Arrived
<1>2. p \in Req /\ p \in Changing' /\ pc'[p] # "idle"
  BY <1>1 DEF Frame, Changing
<1>3. Apart(p, q)'
  BY <1>2 DEF ApartFrom, Arrived
<1>4. before'[p] = before[p] /\ before'[q] = before[q]
  BY <1>2 DEF Frame
<1>5. QED
  BY <1>3, <1>4 DEF Apart

LEMMA TurnBefore ==
    ASSUME RequestTypes, NEW r \in Req, Frame(r)
    PROVE  InTurn' => InTurn
<1> SUFFICES ASSUME InTurn', NEW q \in Changing, pc[q] # "idle"
             PROVE  ApartFrom(q, Changing)
  BY DEF InTurn, Arrived
<1>1. q \in Changing' /\ q \in Req /\ pc'[q] # "idle"
  BY DEF Frame, Changing
<1>2. ApartFrom(q, Changing)'
  BY <1>1 DEF InTurn, Arrived
<1>3. QED
  BY <1>1, <1>2, ApartBefore

LEMMA OrderlyBefore ==
    ASSUME RequestTypes, NEW r \in Req, Frame(r)
    PROVE  Orderly' => Orderly /\ InTurn'
<1> SUFFICES ASSUME Orderly'
             PROVE  Orderly /\ InTurn'
  OBVIOUS
<1>1. InTurn' /\ \A q \in Changing' : pc'[q] # "dead"
  BY DEF Orderly, InTurn, Arrived
<1>2. Changing' = Changing
  BY DEF Frame, Changing
<1>3. InTurn
  BY <1>1, TurnBefore
<1>4. \A q \in Changing : pc[q] # "dead"
  BY <1>1, <1>2 DEF Frame, Changing, Ended
<1>5. QED
  BY <1>1, <1>3, <1>4 DEF Orderly, InTurn

LEMMA UndisturbedBefore ==
    ASSUME RequestTypes, NEW r \in Req, Frame(r)
    PROVE  Undisturbed' => Undisturbed
<1> SUFFICES ASSUME Undisturbed', NEW q \in Req, pc[q] # "idle"
             PROVE  ApartFrom(q, Changing)
  BY OrderlyBefore DEF Undisturbed, Arrived
<1>1. pc'[q] # "idle"
  BY DEF Frame
<1>2. ApartFrom(q, Changing)'
  BY <1>1 DEF Undisturbed, Arrived
<1>3. QED
  BY <1>2, ApartBefore

\* The state of the files is not changed by submissions, by those who are turned down, and
\* by httpd.
Looks(r) == UNCHANGED <<files, dirs, fd, text, todo>>

LEMMA LooksOnly ==
    ASSUME TypeOK, Control, NEW r \in Req, Step(r), r \notin Changing \/ Kill(r) \/ Refuse(r)
    PROVE  Looks(r)
<1>1. Queries
  BY QueriesAre
<1>2. CASE Kill(r) \/ Refuse(r)
  BY <1>2 DEF Kill, Refuse, Looks, local, files, dirs
<1>3. CASE \/ Count(r) \/ ReadInput(r) \/ ReadOutput(r) \/ Score(r)
           \/ Compile(r) \/ CompileError(r) \/ ShowTable(r)
  BY <1>3 DEF Count, ReadInput, ReadOutput, Score, Compile, CompileError, ShowTable, Looks, local,
     files, dirs
<1>4. CASE r \notin Changing
  <2>1. query[r].op = "submit"
    BY <1>1, <1>4 DEF Queries, Changing
  <2>2. pc[r] \notin Making \cup Copying \cup Removing
    BY <2>1 DEF Control
  <2>3. QED
    BY <1>2, <1>3, <2>1, <2>2
       DEF Step, ReadLast, AppendLine, MakeDirs, WriteStatement, WriteInput, WriteOutput,
           UploadEnd, ReadList, WriteCopy, RemoveCopy, MoveCopy, OpenDir, RemoveTest, RemoveDir,
           RemoveStatement, Making, Copying, Removing
<1>5. QED
  BY <1>2, <1>4

---------------------------------------------------------------------------
\* The list and its copy, while changes come one by one

\* What the steps of a request do to the list and its copy.
LEMMA Appends ==
    ASSUME TypeOK, NEW r \in Req, AppendLine(r)
    PROVE  LET new == [id |-> number[r], by |-> r] IN
           /\ pc[r] = "numbered" /\ pc'[r] = "listed" /\ UNCHANGED <<list, copy, dirs, local>>
           /\ content'[list] = Append(content[list], new)
           /\ \A f \in File \ {list} : content'[f] = content[f]
           /\ DOMAIN content'[list] = 1 .. Len(content[list]) + 1
           /\ DOMAIN content[list] = 1 .. Len(content[list]) /\ Len(content[list]) \in Nat
           /\ \A k \in DOMAIN content[list] : content'[list][k] = content[list][k]
           /\ content'[list][Len(content[list]) + 1] = new
<1> DEFINE new == [id |-> number[r], by |-> r]
<1>1. /\ content' = [content EXCEPT ![list] = Append(content[list], new)]
      /\ pc[r] = "numbered" /\ pc' = [pc EXCEPT ![r] = "listed"]
      /\ UNCHANGED <<list, copy, dirs, local>>
  BY DEF AppendLine, Go, local
<1>2. content \in [File -> Seq(Line)] /\ list \in File /\ DOMAIN pc = Req
  BY DEF TypeOK
<1>3. content[list] \in Seq(Line)
  BY <1>2
<1> HIDE DEF new
<1>4. /\ content'[list] = Append(content[list], new)
      /\ \A f \in File \ {list} : content'[f] = content[f]
      /\ pc'[r] = "listed"
  BY <1>1, <1>2
<1>5. QED
  BY <1>1, <1>3, <1>4 DEF new

LEMMA ReadsList ==
    ASSUME TypeOK, FilesNew, NEW r \in Req, ReadList(r)
    PROVE  /\ pc[r] = "idle" /\ pc'[r] \in {"copying", "vain"}
           /\ list' = list /\ copy' \in File /\ copy' # list /\ fd'[r] = copy'
           /\ content'[copy'] = <<>> /\ \A f \in File \ {copy'} : content'[f] = content[f]
           /\ number'[r] = query[r].number /\ number'[r] \in Number
           /\ text'[r] = Without(content[list], number'[r])
           /\ UNCHANGED dirs
<1>1. /\ pc[r] = "idle" /\ list' = list /\ copy' = (IF copy = None THEN r ELSE copy)
      /\ fd' = [fd EXCEPT ![r] = copy'] /\ content' = [content EXCEPT ![copy'] = <<>>]
      /\ number' = [number EXCEPT ![r] = query[r].number] /\ query[r].number \in Number
      /\ text' = [text EXCEPT ![r] = Without(content[list], query[r].number)]
      /\ UNCHANGED dirs
  BY DEF ReadList, Arrive
<1>2. pc'[r] \in {"copying", "vain"}
  BY DEF ReadList, Go, TypeOK
<1>3. copy' \in File /\ copy' # list
  BY <1>1 DEF TypeOK, FilesNew, File, Author
<1>4. /\ content \in [File -> Seq(Line)] /\ DOMAIN fd = Req /\ DOMAIN number = Req
      /\ DOMAIN text = Req
  BY DEF TypeOK
<1>5. QED
  BY <1>1, <1>2, <1>3, <1>4

LEMMA WritesCopy ==
    ASSUME TypeOK, CopyAtWork, NEW r \in Req, WriteCopy(r), ApartFrom(r, Changing)
    PROVE  /\ pc[r] \in {"copying", "vain"} /\ pc'[r] \in {"moving", "unfound"}
           /\ UNCHANGED <<list, copy, dirs, local>>
           /\ copy = fd[r] /\ copy \in File
           /\ content'[copy] = text[r] /\ \A f \in File \ {copy} : content'[f] = content[f]
<1>1. /\ pc[r] \in {"copying", "vain"} /\ UNCHANGED <<list, copy, dirs, local>>
      /\ pc'[r] \in {"moving", "unfound"}
  BY DEF WriteCopy, Go, TypeOK
<1>2. fd[r] \in File /\ text[r] \in Seq(Line) /\ content \in [File -> Seq(Line)]
  BY DEF TypeOK
<1>3. copy = fd[r] /\ content[copy] = <<>>
  BY <1>1 DEF CopyAtWork, Copying
<1>4. PICK lines \in Overwritten(fd[r], text[r]) : content' = [content EXCEPT ![fd[r]] = lines]
  BY DEF WriteCopy
<1>5. lines = text[r]
  BY <1>2, <1>3, <1>4, OverwrittenIs
<1>6. QED
  BY <1>1, <1>2, <1>3, <1>4, <1>5

LEMMA Moves ==
    ASSUME TypeOK, CopyAtWork, NEW r \in Req, MoveCopy(r), ApartFrom(r, Changing)
    PROVE  /\ pc[r] = "moving" /\ pc'[r] = "moved"
           /\ list' = copy /\ copy' = None /\ UNCHANGED <<content, dirs, local>>
           /\ content'[list'] = Without(content[list], number[r])
<1>1. /\ pc[r] = "moving" /\ pc'[r] = "moved" /\ UNCHANGED <<content, dirs, local>>
  BY DEF MoveCopy, Go, TypeOK
<1>2. copy = fd[r] /\ text[r] = Without(content[list], number[r]) /\ content[copy] = text[r]
  BY <1>1 DEF CopyAtWork, Copying
<1>3. copy # None
  BY <1>2, ProblemsAssumption DEF TypeOK, File
<1>4. list' = copy /\ copy' = None
  BY <1>3 DEF MoveCopy
<1>5. QED
  BY <1>1, <1>2, <1>4

\* All other steps leave the list alone.
Elsewhere(r) ==
    /\ UNCHANGED <<content, list, text, fd>>
    /\ copy' = copy \/ RemoveCopy(r)

LEMMA ListSteps ==
    ASSUME TypeOK, NEW r \in Req, Step(r)
    PROVE  AppendLine(r) \/ ReadList(r) \/ WriteCopy(r) \/ MoveCopy(r) \/ Elsewhere(r)
BY DEF Elsewhere, Step, Refuse, ReadLast, MakeDirs, WriteStatement, WriteInput,
       WriteOutput, UploadEnd, RemoveCopy, OpenDir, RemoveTest, RemoveDir,
       RemoveStatement, Count, ReadInput, ReadOutput, Score, Kill, Compile,
           CompileError, ShowTable, local, files

LEMMA CopyAtWorkKept ==
    ASSUME TypeOK, Past, Control, Dense, LinesOwn, FilesNew, CopyAtWork, NEW r \in Req, Step(r)
    PROVE  CopyAtWork'
<1>0. RequestTypes /\ LocalTypes /\ FileTypes /\ Frame(r) /\ Flow(r)
  BY TypesAre, FrameOf, FlowIs
<1> SUFFICES ASSUME NEW q \in Req, pc'[q] \in Copying, ApartFrom(q, Changing)'
             PROVE  /\ copy' = fd'[q]
                    /\ text'[q] = Without(content'[list'], number'[q])
                    /\ pc'[q] \in {"copying", "vain"} => content'[copy'] = <<>>
                    /\ pc'[q] = "moving" => content'[copy'] = text'[q]
  BY DEF CopyAtWork
<1>1. CASE q # r
  <2>1. pc[q] \in Copying /\ pc'[q] = pc[q] /\ number'[q] = number[q]
    BY <1>0, <1>1 DEF Frame
  <2>2. pc[q] \notin Ended \cup {"idle"}
    BY <2>1 DEF Copying, Ended
  <2>3. r \notin Changing /\ ApartFrom(q, Changing)
    BY <1>0, <1>1, <2>2, Alone, ApartBefore
  <2>4. Looks(r)
    BY <2>3, LooksOnly
  <2>5. QED
    BY <2>1, <2>3, <2>4 DEF CopyAtWork, Looks, files
<1>2. CASE q = r
  <2>1. CASE pc[r] = "idle"
    <3>1. ReadList(r)
      BY <1>0, <1>2, <2>1 DEF Step, RequestTypes, Refuse, ReadLast, AppendLine, MakeDirs,
           WriteStatement, WriteInput, WriteOutput, UploadEnd, WriteCopy, RemoveCopy, MoveCopy,
           OpenDir, RemoveTest, RemoveDir, RemoveStatement, Count, ReadInput, ReadOutput, Score,
           Kill, Compile,
           CompileError, ShowTable, Go, Copying, Ended
    <3>2. QED
      BY <1>0, <1>2, <3>1, ReadsList DEF FileTypes
  <2>2. CASE pc[r] # "idle"
    <3>1. ApartFrom(r, Changing)
      BY <1>0, <1>2, <2>2, ApartBefore
    <3>2. WriteCopy(r)
      BY <1>0, <1>2, <2>2 DEF Step, RequestTypes, Refuse, ReadLast, ReadList, AppendLine, MakeDirs,
           WriteStatement, WriteInput, WriteOutput, UploadEnd, RemoveCopy, MoveCopy,
           OpenDir, RemoveTest, RemoveDir, RemoveStatement, Count, ReadInput, ReadOutput, Score,
           Kill, Compile,
           CompileError, ShowTable, Go, Copying, Arrive
    <3>3. copy # list /\ list \in File
      BY <1>0 DEF FilesNew, FileTypes
    <3>4. /\ UNCHANGED <<list, copy, fd, text, number>>
          /\ copy = fd[r] /\ content'[copy] = text[r] /\ content'[list] = content[list]
          /\ pc'[r] \notin {"copying", "vain"}
      BY <3>1, <3>2, <3>3, WritesCopy DEF local
    <3>5. text[r] = Without(content[list], number[r])
      BY <3>1, <3>2 DEF CopyAtWork, WriteCopy, Copying
    <3>6. QED
      BY <1>2, <3>4, <3>5
  <2>3. QED
    BY <2>1, <2>2
<1>3. QED
  BY <1>1, <1>2

\* The lines, as Ascending has them.
Sorted(lines) ==
    /\ \A k \in DOMAIN lines : lines[k].id # None
    /\ \A j, k \in DOMAIN lines : j < k => lines[j].id < lines[k].id

LEMMA SortedIds ==
    ASSUME NEW lines \in Seq(Line), Sorted(lines), NEW k \in DOMAIN lines
    PROVE  lines[k].id \in Nat
<1>1. lines[k] \in Line
  OBVIOUS
<1>2. QED
  BY <1>1 DEF Line, Sorted

LEMMA SortedWithout ==
    ASSUME NEW lines \in Seq(Line), Sorted(lines), NEW i
    PROVE  Sorted(Without(lines, i))
<1>1. \A k \in DOMAIN lines : lines[k].id \in Nat
  BY SortedIds
<1>2. \A k \in DOMAIN Without(lines, i) : Without(lines, i)[k].id # None
  BY WithoutIs DEF Sorted
<1>3. \A j, k \in DOMAIN lines : j < k => lines[j].id < lines[k].id
  BY DEF Sorted
<1> DEFINE less == Without(lines, i)
<1>4. \A j, k \in DOMAIN less : j < k => less[j].id < less[k].id
  BY <1>1, <1>3, WithoutAscends
<1>5. QED
  BY <1>2, <1>4 DEF Sorted

\* A new number is larger than all of them.
LEMMA ReadsLast ==
    ASSUME TypeOK, NEW r \in Req, ReadLast(r), Sorted(content[list]),
           NEW k \in DOMAIN content[list]
    PROVE  content[list][k].id < number'[r]
<1> DEFINE lines == content[list]
           last == Len(lines)
<1>1. lines \in Seq(Line) /\ k \in 1 .. last /\ last \in Nat /\ last \in DOMAIN lines
  BY DEF TypeOK
<1>2. lines[k].id \in Nat /\ lines[last].id \in Nat /\ lines[last].id # None
  BY <1>1, SortedIds DEF Sorted
<1>3. lines # <<>> /\ Last(lines) = lines[last]
  BY <1>1 DEF Last
<1>4. number'[r] = lines[last].id + 1
  BY <1>2, <1>3 DEF ReadLast, TypeOK
<1>5. k < last => lines[k].id < lines[last].id
  BY <1>1 DEF Sorted
<1> HIDE DEF lines, last
<1>6. QED
  BY <1>1, <1>2, <1>4, <1>5 DEF lines, last

LEMMA SortedKept ==
    ASSUME TypeOK, Past, Control, Dense, LinesOwn, FilesNew, CopyAtWork, Ascending,
           NEW r \in Req, Step(r), InTurn'
    PROVE  Sorted(content'[list'])
<1>0. RequestTypes /\ LocalTypes /\ FileTypes /\ Frame(r) /\ InTurn
  BY TypesAre, FrameOf, TurnBefore
<1>1. content[list] \in Seq(Line) /\ list \in File
  BY <1>0 DEF FileTypes
<1>2. Sorted(content[list])
  BY <1>0 DEF Ascending, Sorted
<1>3. r \in Changing /\ pc[r] # "idle" => ApartFrom(r, Changing)
  BY <1>0 DEF InTurn, Arrived
<1>4. CASE AppendLine(r)
  <2> DEFINE last == Len(content[list]) + 1
             new == [id |-> number[r], by |-> r]
  <2>1. /\ pc[r] = "numbered" /\ list' = list
        /\ DOMAIN content'[list] = 1 .. last /\ DOMAIN content[list] = 1 .. last - 1
        /\ last \in Nat
        /\ \A k \in DOMAIN content[list] : content'[list][k] = content[list][k]
        /\ content'[list][last] = new
    BY <1>4, Appends
  <2>2. \A k \in DOMAIN content[list] : content[list][k].id < number[r]
    BY <1>0, <2>1 DEF Ascending
  <2>3. number[r] # None
    <3>1. number[r] \in Nat
      BY <1>0, NumberIsNat DEF LocalTypes
    <3>2. QED
      BY <3>1, ProblemsAssumption
  <2>4. new.id = number[r]
    OBVIOUS
  <2> HIDE DEF last, new
  <2>5. \A k \in DOMAIN content'[list] : content'[list][k].id # None
    BY <1>2, <2>1, <2>3, <2>4 DEF Sorted
  <2>6. ASSUME NEW j \in DOMAIN content'[list], NEW k \in DOMAIN content'[list], j < k
        PROVE  content'[list][j].id < content'[list][k].id
    <3>1. j \in DOMAIN content[list]
      BY <2>1, <2>6
    <3>2. CASE k = last
      BY <2>1, <2>2, <2>4, <3>1, <3>2
    <3>3. CASE k # last
      <4>1. k \in DOMAIN content[list]
        BY <2>1, <3>3
      <4>2. QED
        BY <1>2, <2>1, <2>6, <3>1, <4>1 DEF Sorted
    <3>4. QED
      BY <3>2, <3>3
  <2>7. QED
    BY <2>1, <2>5, <2>6 DEF Sorted
<1>5. CASE ReadList(r)
  <2>1. list' = list /\ content'[list] = content[list]
    BY <1>1, <1>5, ReadsList
  <2>2. QED
    BY <1>2, <2>1
<1>6. CASE WriteCopy(r)
  <2>1. r \in Changing /\ pc[r] # "idle"
    BY <1>6 DEF WriteCopy, Control, Copying, Changing
  <2>2. list' = list /\ content'[list] = content[list]
    BY <1>1, <1>3, <1>6, <2>1, WritesCopy DEF FilesNew
  <2>3. QED
    BY <1>2, <2>2
<1>7. CASE MoveCopy(r)
  <2>1. r \in Changing /\ pc[r] # "idle"
    BY <1>7 DEF MoveCopy, Control, Copying, Changing
  <2>2. content'[list'] = Without(content[list], number[r])
    BY <1>3, <1>7, <2>1, Moves
  <2>3. QED
    BY <1>1, <1>2, <2>2, SortedWithout
<1>8. CASE Elsewhere(r)
  BY <1>2, <1>8 DEF Elsewhere
<1>9. QED
  BY <1>4, <1>5, <1>6, <1>7, <1>8, ListSteps

LEMMA AscendingKept ==
    ASSUME TypeOK, Past, Control, Dense, LinesOwn, FilesNew, CopyAtWork, Ascending,
           NEW r \in Req, Step(r)
    PROVE  Ascending'
<1>0. RequestTypes /\ LocalTypes /\ FileTypes /\ Frame(r) /\ Control'
  BY TypesAre, FrameOf, ControlKept
<1> SUFFICES ASSUME InTurn'
             PROVE  /\ Sorted(content'[list'])
                    /\ \A q \in Req : pc'[q] = "numbered" =>
                          \A k \in DOMAIN content'[list'] : content'[list'][k].id < number'[q]
  BY DEF Ascending, Sorted
<1>1. Sorted(content'[list'])
  BY SortedKept
<1>2. ASSUME NEW q \in Req, pc'[q] = "numbered", NEW k \in DOMAIN content'[list']
      PROVE  content'[list'][k].id < number'[q]
  <2>1. InTurn /\ q \in Changing
    BY <1>0, <1>2, TurnBefore DEF Control, Making, Changing, Frame
  <2>2. CASE q # r
    <3>1. pc[q] = "numbered" /\ number'[q] = number[q]
      BY <1>0, <1>2, <2>2 DEF Frame
    <3>2. r \notin Changing
      BY <1>0, <2>1, <2>2, <3>1, Alone DEF Ended
    <3>3. Looks(r)
      BY <3>2, LooksOnly
    <3>4. QED
      BY <1>2, <2>1, <3>1, <3>3 DEF Ascending, Looks, files
  <2>3. CASE q = r
    <3>1. pc[r] = "idle"
      BY <1>0, <1>2, <2>3 DEF Frame
    <3>2. ReadLast(r)
      BY <1>0, <1>2, <2>3, <3>1 DEF Step, RequestTypes, Refuse, ReadList, AppendLine, MakeDirs,
           WriteStatement, WriteInput, WriteOutput, UploadEnd, WriteCopy, RemoveCopy, MoveCopy,
           OpenDir, RemoveTest, RemoveDir, RemoveStatement, Count, ReadInput, ReadOutput, Score,
           Kill, Compile,
           CompileError, ShowTable, Go, Ended
    <3>3. content' = content /\ list' = list
      BY <3>2 DEF ReadLast, files
    <3>4. Sorted(content[list])
      BY <2>1 DEF Ascending, Sorted
    <3>5. QED
      BY <1>2, <2>3, <3>2, <3>3, <3>4, ReadsLast
  <2>4. QED
    BY <2>2, <2>3
<1>3. QED
  BY <1>1, <1>2

LEMMA UniqueIs == TypeOK /\ Ascending => NumbersUnique
<1> SUFFICES ASSUME TypeOK, Ascending, InTurn,
                    NEW j \in DOMAIN content[list], NEW k \in DOMAIN content[list], j # k
             PROVE  content[list][j].id # content[list][k].id
  BY DEF NumbersUnique, InTurn
<1>1. content[list] \in Seq(Line) /\ Sorted(content[list])
  BY DEF TypeOK, Ascending, Sorted
<1>2. content[list][j].id \in Nat /\ content[list][k].id \in Nat /\ j \in Nat /\ k \in Nat
  BY <1>1, SortedIds
<1>3. QED
  BY <1>1, <1>2 DEF Sorted

---------------------------------------------------------------------------
\* What is gone stays away

LEMMA ComesToDelete ==
    ASSUME RequestTypes, NEW r \in Req, Step(r), pc[r] = "idle", pc'[r] \in Copying
    PROVE  ReadList(r)
BY DEF Step, RequestTypes, Refuse, ReadLast, AppendLine, MakeDirs,
       WriteStatement, WriteInput, WriteOutput, UploadEnd, WriteCopy, RemoveCopy, MoveCopy,
       OpenDir, RemoveTest, RemoveDir, RemoveStatement, Count, ReadInput, ReadOutput, Score,
       Kill, Compile,
           CompileError, ShowTable, Go, Copying, Ended

\* The files that may become problems.txt have been such files before, or are new.
LEMMA LiveFrom ==
    ASSUME TypeOK, FilesNew, Control, NEW r \in Req, Step(r), Flow(r), NEW f \in Live'
    PROVE  f \in File /\ (f \in Live \/ content'[f] = <<>>)
<1>0. RequestTypes /\ LocalTypes /\ FileTypes /\ Frame(r) /\ Renames(r)
  BY TypesAre, FrameOf, RenamesIs
<1>1. FileTypes' /\ None \notin File
  BY FileTypesKept, ProblemsAssumption DEF File
<1>2. CASE ReadList(r)
  <2>1. list' = list /\ fd'[r] = copy' /\ copy' \in File /\ content'[copy'] = <<>>
    BY <1>2, ReadsList
  <2>2. \A q \in Req \ {r} : fd'[q] = fd[q] /\ pc'[q] = pc[q]
    BY <1>0 DEF Frame
  <2>3. \A q \in Req : fd[q] \in File
    BY <1>0 DEF LocalTypes
  <2>4. f = list \/ f = copy' \/ \E q \in Req \ {r} : f = fd[q] /\ pc[q] \in Copying
    BY <2>1, <2>2 DEF Live
  <2>5. QED
    BY <1>0, <1>1, <2>1, <2>3, <2>4 DEF Live, FileTypes
<1>3. CASE ~ReadList(r)
  <2>1. fd' = fd /\ list' \in {list, copy} /\ copy' \in {copy, None}
    BY <1>0, <1>3 DEF Renames
  <2>2. \A q \in Req : pc'[q] \in Copying => pc[q] \in Copying
    <3>1. pc[r] = "idle" => pc'[r] \notin Copying
      BY <1>0, <1>3, ComesToDelete
    <3>2. pc[r] # "idle" /\ pc'[r] \in Copying => pc[r] \in Copying
      BY DEF Flow, Copying
    <3>3. QED
      BY <1>0, <3>1, <3>2 DEF Frame
  <2>3. list' \in File /\ \A q \in Req : fd[q] \in File
    BY <1>0, <1>1 DEF LocalTypes, FileTypes
  <2>4. \/ f = list'
        \/ f = copy' /\ f # None
        \/ \E q \in Req : f = fd[q] /\ pc[q] \in Copying
    BY <2>1, <2>2 DEF Live
  <2>5. QED
    BY <1>0, <1>1, <2>1, <2>3, <2>4 DEF Live, FileTypes
<1>4. QED
  BY <1>2, <1>3

LEMMA StaysGone ==
    ASSUME TypeOK, Past, Control, Dense, LinesOwn, FilesNew, NEW r \in Req, Step(r),
           NEW d \in Req, pc[d] \in Removing \cup {"done"}, NoOldLine(d)
    PROVE  NoOldLine(d)'
<1>0. RequestTypes /\ LocalTypes /\ FileTypes /\ Frame(r) /\ Flow(r) /\ LinesCome(r)
  BY TypesAre, FrameOf, FlowIs, LinesComeFrom
<1> USE DEF NoOldLine
<1>1. number[d] # None
  <2>1. number[d] \in Nat
    BY <1>0, NumberIsNat DEF LocalTypes
  <2>2. QED
    BY <2>1, ProblemsAssumption
<1>2. \A l \in Line : ~IsOld(Torn(l), d)
  BY <1>1 DEF IsOld, Torn, Line
<1>3. ASSUME NEW f \in Live', NEW k \in DOMAIN content'[f]
      PROVE  ~IsOld(content'[f][k], d)
  <2>1. f \in File /\ f \in Live
    BY <1>0, <1>3, LiveFrom
  <2>2. CASE \E h \in DOMAIN content[f] :
                content'[f][k] = content[f][h] \/ content'[f][k] = Torn(content[f][h])
    <3>1. \A h \in DOMAIN content[f] : content[f][h] \in Line
      BY <1>0, <2>1 DEF FileTypes
    <3>2. QED
      BY <1>2, <2>1, <2>2, <3>1
  <2>3. CASE pc[r] \in {"copying", "vain"} /\ \E h \in DOMAIN text[r] : content'[f][k] = text[r][h]
    BY <2>3 DEF Copying
  <2>4. CASE pc[r] = "numbered" /\ content'[f][k] = [id |-> number[r], by |-> r]
    <3>1. r \notin before[d] /\ r # "shipped"
      BY <2>4, ProblemsAssumption DEF Past, Ended
    <3>2. QED
      BY <2>4, <3>1 DEF IsOld
  <2>5. QED
    BY <1>0, <2>1, <2>2, <2>3, <2>4 DEF LinesCome
<1>4. ASSUME NEW q \in Req, pc'[q] \in Copying, NEW k \in DOMAIN text'[q]
      PROVE  ~IsOld(text'[q][k], d)
  <2>1. CASE q # r
    BY <1>0, <1>4, <2>1 DEF Frame
  <2>2. CASE q = r /\ pc[r] = "idle"
    <3>1. ReadList(r)
      BY <1>0, <1>4, <2>2, ComesToDelete
    <3>2. text'[r] = Without(content[list], number'[r]) /\ content[list] \in Seq(Line)
      BY <1>0, <3>1, ReadsList DEF FileTypes
    <3>3. \E h \in DOMAIN content[list] : text'[r][k] = content[list][h]
      BY <1>4, <2>2, <3>2, WithoutIs
    <3>4. list \in Live
      BY <1>0, ProblemsAssumption DEF Live, FileTypes, File
    <3>5. QED
      BY <2>2, <3>3, <3>4
  <2>3. CASE q = r /\ pc[r] # "idle"
    <3>1. pc[r] \in Copying
      BY <1>0, <1>4, <2>3 DEF Flow, Copying
    <3>2. QED
      BY <1>0, <1>4, <2>3, <3>1 DEF LinesCome
  <2>4. QED
    BY <2>1, <2>2, <2>3
<1>5. number'[d] = number[d] /\ before'[d] = before[d]
  BY <1>0 DEF Frame, Removing
<1>6. QED
  BY <1>3, <1>4, <1>5 DEF IsOld

LEMMA LinesGoneKept ==
    ASSUME TypeOK, Past, Control, Dense, LinesOwn, FilesNew, CopyAtWork, LinesGone,
           NEW r \in Req, Step(r)
    PROVE  LinesGone'
<1>0. RequestTypes /\ LocalTypes /\ FileTypes /\ Frame(r) /\ Flow(r)
  BY TypesAre, FrameOf, FlowIs
<1> SUFFICES ASSUME NEW d \in Req, query'[d].op = "delete", pc'[d] \in Removing \cup {"done"},
                    ApartFrom(d, Changing)'
             PROVE  NoOldLine(d)'
  BY DEF LinesGone
<1>1. query[d].op = "delete" /\ d \in Changing
  BY <1>0 DEF Frame, Changing
<1>2. CASE pc[d] \in Removing \cup {"done"}
  <2>1. ApartFrom(d, Changing)
    BY <1>0, <1>2, ApartBefore DEF Removing
  <2>2. NoOldLine(d)
    BY <1>1, <1>2, <2>1 DEF LinesGone
  <2>3. QED
    BY <1>2, <2>2, StaysGone
<1>3. CASE pc[d] \notin Removing \cup {"done"}
  <2>1. d = r /\ pc[r] = "moving"
    <3>1. d = r
      BY <1>0, <1>3 DEF Frame
    <3>2. pc[r] \notin Making \cup Judging \cup {"compiling", "showing"}
      BY <1>1, <3>1 DEF Control
    <3>3. QED
      BY <1>0, <1>3, <3>1, <3>2 DEF Flow, Removing, Making, Judging
  <2>2. pc'[r] \notin Copying /\ ApartFrom(r, Changing) /\ MoveCopy(r)
    <3>1. ApartFrom(r, Changing)
      BY <1>0, <2>1, ApartBefore
    <3>2. pc'[r] \notin Copying
      BY <2>1 DEF Copying, Removing
    <3>3. MoveCopy(r)
      BY <1>0, <2>1 DEF Step, RequestTypes, Refuse, ReadLast, ReadList, AppendLine, MakeDirs,
           WriteStatement, WriteInput, WriteOutput, UploadEnd, WriteCopy, RemoveCopy, Arrive,
           OpenDir, RemoveTest, RemoveDir, RemoveStatement, Count, ReadInput, ReadOutput, Score,
           Kill, Compile,
           CompileError, ShowTable, Go, Removing, Ended
    <3>4. QED
      BY <3>1, <3>2, <3>3
  <2>3. \A q \in Req : pc'[q] \notin Copying
    <3>1. ASSUME NEW q \in Req \ {r}, pc[q] \in Copying
          PROVE  FALSE
      <4>1. q \in Changing /\ pc[q] \notin Ended \cup {"idle"}
        BY <3>1 DEF Control, Changing, Copying, Ended
      <4>2. QED
        BY <1>0, <2>1, <4>1, Alone
    <3>2. QED
      BY <1>0, <2>2, <3>1 DEF Frame
  <2>4. /\ copy' = None /\ content'[list'] = Without(content[list], number[r])
        /\ number'[r] = number[r] /\ content[list] \in Seq(Line)
    BY <1>0, <2>2, Moves DEF local, FileTypes
  <2>5. Live' \subseteq {list'}
    BY <2>3, <2>4 DEF Live
  <2>6. \A k \in DOMAIN content'[list'] : content'[list'][k].id # number'[r]
    BY <2>4, WithoutIs
  <2>7. QED
    BY <2>1, <2>3, <2>5, <2>6 DEF NoOldLine, IsOld
<1>4. QED
  BY <1>2, <1>3

---------------------------------------------------------------------------
\* Tests and statements

\* A step changes the files of one problem: it adds files of its own, or removes some.
DirsFrom(r) ==
    \A i \in Number :
        /\ i # number[r] \/ pc[r] = "idle" =>
              testdata'[i] = testdata[i] /\ statement'[i] = statement[i]
        /\ testdata'[i] # None => \A f \in DOMAIN testdata'[i] :
              \/ testdata'[i][f] = r
              \/ testdata[i] # None /\ f \in DOMAIN testdata[i] /\ testdata'[i][f] = testdata[i][f]
        /\ statement'[i] \in {statement[i], "empty", None, r}

LEMMA DirsComeFrom ==
    ASSUME TypeOK, Control, NEW r \in Req, Step(r)
    PROVE  DirsFrom(r)
<1>0. RequestTypes /\ LocalTypes /\ FileTypes
  BY TypesAre
<1>1. CASE UNCHANGED dirs
  BY <1>1 DEF DirsFrom, dirs
<1> DEFINE i == number[r]
<1>2. CASE MakeDirs(r)
  <2>1. /\ testdata' = [testdata EXCEPT ![i] = IF @ = None THEN [f \in {} |-> r] ELSE @]
        /\ statement' = [statement EXCEPT ![i] = IF @ = None THEN "empty" ELSE @]
        /\ pc[r] = "listed"
    BY <1>2 DEF MakeDirs
  <2>2. QED
    BY <1>0, <2>1 DEF DirsFrom, FileTypes
<1>3. CASE WriteStatement(r) \/ RemoveStatement(r)
  <2>1. /\ testdata' = testdata /\ pc[r] # "idle"
        /\ statement' = [statement EXCEPT ![i] = None] \/ statement' = [statement EXCEPT ![i] = r]
           \/ statement' = statement
    BY <1>0, <1>3 DEF WriteStatement, RemoveStatement, FileTypes
  <2>2. QED
    BY <1>0, <2>1 DEF DirsFrom, FileTypes
<1>4. ASSUME pc[r] # "idle", UNCHANGED statement,
             NEW f, testdata' = [testdata EXCEPT ![i] = WithFile(testdata[i], f, r)]
      PROVE  DirsFrom(r)
  <2>1. WithFile(testdata[i], f, r) # None => testdata[i] # None
    BY DEF WithFile
  <2>2. testdata[i] # None => WithFile(testdata[i], f, r) =
           [g \in DOMAIN testdata[i] \cup {f} |-> IF g = f THEN r ELSE testdata[i][g]]
    BY DEF WithFile
  <2> DEFINE new == WithFile(testdata[i], f, r)
  <2>3. new # None => \A g \in DOMAIN new :
           new[g] = r \/ (testdata[i] # None /\ g \in DOMAIN testdata[i] /\ new[g] = testdata[i][g])
    BY <2>1, <2>2
  <2> HIDE DEF new
  <2>4. \A j \in Number : testdata'[j] = IF j = i THEN new ELSE testdata[j]
    BY <1>0, <1>4 DEF FileTypes, new
  <2>5. QED
    BY <1>4, <2>3, <2>4 DEF DirsFrom
<1>5. CASE WriteInput(r) \/ WriteOutput(r)
  BY <1>4, <1>5 DEF WriteInput, WriteOutput
<1>6. CASE RemoveTest(r)
  <2>1. PICK f : testdata' = [testdata EXCEPT ![i] =
                    IF testdata[i] = None THEN None
                    ELSE [g \in DOMAIN testdata[i] \ {f} |-> testdata[i][g]]]
    BY <1>6 DEF RemoveTest
  <2> DEFINE new == [g \in DOMAIN testdata[i] \ {f} |-> testdata[i][g]]
  <2>2. \A g \in DOMAIN new : g \in DOMAIN testdata[i] /\ new[g] = testdata[i][g]
    OBVIOUS
  <2> HIDE DEF new
  <2>3. \A j \in Number : testdata'[j] =
           IF j = i THEN IF testdata[i] = None THEN None ELSE new ELSE testdata[j]
    BY <1>0, <2>1 DEF FileTypes, new
  <2>4. pc[r] # "idle" /\ statement' = statement
    BY <1>6 DEF RemoveTest
  <2>5. QED
    BY <2>2, <2>3, <2>4 DEF DirsFrom
<1>7. CASE RemoveDir(r)
  <2>1. \A j \in Number : testdata'[j] = testdata[j] \/ (j = i /\ testdata'[j] = None)
    BY <1>0, <1>7 DEF RemoveDir, FileTypes
  <2>2. pc[r] # "idle" /\ statement' = statement
    BY <1>7 DEF RemoveDir
  <2>3. QED
    BY <2>1, <2>2 DEF DirsFrom
<1>8. QED
  BY <1>1, <1>2, <1>3, <1>5, <1>6, <1>7
     DEF Step, Refuse, ReadLast, ReadList, AppendLine, UploadEnd, WriteCopy, RemoveCopy, MoveCopy,
         OpenDir, Count, ReadInput, ReadOutput, Score, Kill, Compile,
           CompileError, ShowTable, dirs

\* Which step it is, from where the request was and is.
LEMMA StepIs ==
    ASSUME RequestTypes, NEW r \in Req, Step(r)
    PROVE  /\ pc[r] = "idle" => Refuse(r) \/ ReadLast(r) \/ ReadList(r) \/ Compile(r)
           /\ pc[r] = "compiling" => CompileError(r) \/ Count(r) \/ Kill(r)
           /\ pc[r] = "showing" => ShowTable(r) \/ Kill(r)
           /\ pc[r] = "numbered" => AppendLine(r) \/ Kill(r)
           /\ pc[r] = "listed" => MakeDirs(r) \/ Kill(r)
           /\ pc[r] = "made" => WriteStatement(r) \/ Kill(r)
           /\ pc[r] = "input" => WriteInput(r) \/ UploadEnd(r) \/ Kill(r)
           /\ pc[r] = "output" => WriteOutput(r) \/ Kill(r)
           /\ pc[r] \in {"copying", "vain"} => WriteCopy(r) \/ Kill(r)
           /\ pc[r] = "unfound" => RemoveCopy(r) \/ Kill(r)
           /\ pc[r] = "moving" => MoveCopy(r) \/ Kill(r)
           /\ pc[r] = "moved" => OpenDir(r) \/ Kill(r)
           /\ pc[r] = "removing" => RemoveTest(r) \/ RemoveDir(r) \/ Kill(r)
           /\ pc[r] = "emptied" => RemoveStatement(r) \/ Kill(r)
           /\ pc[r] = "judging" => ReadInput(r) \/ Score(r) \/ Kill(r)
           /\ pc[r] = "comparing" => ReadOutput(r) \/ Kill(r)
           /\ Kill(r) => pc'[r] = "dead"
BY DEF Step, RequestTypes, Refuse, ReadLast, AppendLine, MakeDirs, WriteStatement, WriteInput,
       WriteOutput, UploadEnd, ReadList, WriteCopy, RemoveCopy, MoveCopy, OpenDir, RemoveTest,
       RemoveDir, RemoveStatement, Count, ReadInput, ReadOutput, Score, Kill, Compile,
           CompileError, ShowTable, Arrive, Go

\* TestsGone for one deletion.
NoOldTest(d) ==
    LET i == number[d]
        old == before[d] \cup {"shipped"}
    IN /\ pc[d] = "removing" /\ testdata[i] # None => DOMAIN testdata[i] \subseteq todo[d]
       /\ pc[d] = "emptied" => testdata[i] = None
       /\ pc[d] = "done" =>
             /\ testdata[i] # None => \A f \in DOMAIN testdata[i] : testdata[i][f] \notin old
             /\ statement[i] \notin old

LEMMA TestsGoneKept ==
    ASSUME TypeOK, Past, Control, Dense, LinesOwn, TestsGone, NEW r \in Req, Step(r)
    PROVE  TestsGone'
<1>0. RequestTypes /\ LocalTypes /\ FileTypes /\ Frame(r) /\ Flow(r)
  BY TypesAre, FrameOf, FlowIs
<1> SUFFICES ASSUME NEW d \in Req, query'[d].op = "delete", ApartFrom(d, Changing)'
             PROVE  NoOldTest(d)'
  BY DEF TestsGone, NoOldTest
<1>1. query[d].op = "delete" /\ d \in Changing
  BY <1>0 DEF Frame, Changing
<1>2. CASE pc'[d] \notin {"removing", "emptied", "done"}
  BY <1>2 DEF NoOldTest
<1>3. CASE pc'[d] \in {"removing", "emptied", "done"}
  <2>1. pc[d] # "idle"
    BY <1>0, <1>1, <1>3 DEF Frame, Flow
  <2>2. /\ ApartFrom(d, Changing) /\ number'[d] = number[d] /\ before'[d] = before[d]
        /\ number[d] \in Number
    <3>1. pc[d] # "refused"
      BY <1>0, <1>3 DEF Frame, Ended
    <3>2. QED
      BY <1>0, <2>1, <3>1, ApartBefore DEF Frame, Control
  <2>3. NoOldTest(d)
    BY <1>1, <2>2 DEF TestsGone, NoOldTest
  <2>4. before[d] \subseteq Req
    BY <1>0 DEF RequestTypes
  <2> DEFINE i == number[d]
             old == before[d] \cup {"shipped"}
  <2>5. "empty" \notin old /\ None \notin old /\ None \notin Author
    BY <2>4, ProblemsAssumption DEF Author
  <2>6. CASE d # r /\ pc[d] \in {"removing", "emptied"}
    <3>1. r \notin Changing
      BY <1>0, <2>6, <1>1, Alone DEF Ended
    <3>2. Looks(r)
      BY <3>1, LooksOnly
    <3>3. pc'[d] = pc[d]
      BY <1>0, <2>6 DEF Frame
    <3>4. QED
      BY <2>2, <2>3, <2>6, <3>2, <3>3 DEF NoOldTest, Looks, dirs
  <2>7. CASE d # r /\ pc[d] \notin {"removing", "emptied"}
    <3>1. pc'[d] = "done" /\ pc[d] = "done"
      BY <1>0, <1>3, <2>7 DEF Frame
    <3>2. r \notin old
      BY <1>0, ProblemsAssumption DEF Past, Frame
    <3>3. DirsFrom(r)
      BY DirsComeFrom
    <3>4. statement'[i] \notin old
      BY <2>2, <2>3, <2>5, <3>1, <3>2, <3>3 DEF DirsFrom, NoOldTest
    <3>5. ASSUME testdata'[i] # None, NEW f \in DOMAIN testdata'[i]
          PROVE  testdata'[i][f] \notin old
      BY <2>2, <2>3, <3>1, <3>2, <3>3, <3>5 DEF DirsFrom, NoOldTest
    <3>6. QED
      BY <2>2, <3>1, <3>4, <3>5 DEF NoOldTest
  <2>8. CASE d = r
    <3>1. CASE pc[r] = "moved"
      <4>1. OpenDir(r) /\ pc'[r] = "removing"
        BY <1>0, <1>3, <2>8, <3>1, StepIs DEF OpenDir, Go, RequestTypes
      <4>2. UNCHANGED dirs /\ todo'[r] = IF testdata[i] = None THEN {} ELSE DOMAIN testdata[i]
        BY <1>0, <2>8, <4>1 DEF OpenDir, LocalTypes
      <4>3. QED
        BY <2>2, <2>8, <4>1, <4>2 DEF NoOldTest, dirs
    <3>2. CASE pc[r] = "removing"
      <4>1. CASE RemoveTest(r)
        <5>1. PICK f \in todo[r] :
                 /\ todo' = [todo EXCEPT ![r] = todo[r] \ {f}]
                 /\ testdata' = [testdata EXCEPT ![number[r]] =
                        IF testdata[number[r]] = None THEN None
                        ELSE [g \in DOMAIN testdata[number[r]] \ {f} |-> testdata[number[r]][g]]]
          BY <4>1 DEF RemoveTest
        <5>2. pc'[r] = "removing" /\ todo'[r] = todo[r] \ {f}
          BY <1>0, <3>2, <4>1, <5>1 DEF RemoveTest, LocalTypes
        <5>3. testdata'[i] = IF testdata[i] = None THEN None
                             ELSE [g \in DOMAIN testdata[i] \ {f} |-> testdata[i][g]]
          BY <1>0, <2>2, <2>8, <5>1 DEF FileTypes
        <5>4. testdata'[i] # None => DOMAIN testdata'[i] \subseteq todo'[r]
          BY <2>3, <2>8, <3>2, <5>2, <5>3 DEF NoOldTest
        <5>5. QED
          BY <2>2, <2>8, <5>2, <5>4 DEF NoOldTest
      <4>2. CASE RemoveDir(r)
        <5>1. pc'[r] = "emptied" /\ todo[r] = {}
          BY <1>0, <4>2 DEF RemoveDir, Go, RequestTypes
        <5>2. testdata' = [testdata EXCEPT ![i] = IF testdata[i] = None \/ DOMAIN testdata[i] = {}
                                                  THEN None ELSE testdata[i]]
          BY <2>8, <4>2 DEF RemoveDir
        <5>3. testdata[i] = None \/ DOMAIN testdata[i] = {}
          BY <2>3, <2>8, <3>2, <5>1 DEF NoOldTest
        <5>4. testdata'[i] = None
          BY <1>0, <2>2, <5>2, <5>3 DEF FileTypes
        <5>5. QED
          BY <2>2, <2>8, <5>1, <5>4 DEF NoOldTest
      <4>3. QED
        BY <1>0, <1>3, <2>8, <3>2, <4>1, <4>2, StepIs
    <3>3. CASE pc[r] = "emptied"
      <4>1. RemoveStatement(r) /\ pc'[r] = "done"
        BY <1>0, <1>3, <2>8, <3>3, StepIs DEF RemoveStatement, Go, RequestTypes
      <4>2. testdata' = testdata /\ statement'[i] = None
        BY <1>0, <2>2, <2>8, <4>1 DEF RemoveStatement, FileTypes
      <4>3. testdata[i] = None
        BY <2>3, <2>8, <3>3 DEF NoOldTest
      <4>4. QED
        BY <2>2, <2>5, <2>8, <4>1, <4>2, <4>3 DEF NoOldTest
    <3>4. pc[r] \in {"moved", "removing", "emptied"}
      <4>1. pc[r] \notin Making \cup Judging \cup {"compiling", "showing"}
        BY <1>1, <2>8 DEF Control
      <4>2. QED
        BY <1>0, <1>3, <2>1, <2>8, <4>1 DEF Flow, Making, Judging
    <3>5. QED
      BY <3>1, <3>2, <3>3, <3>4
  <2>9. QED
    BY <2>6, <2>7, <2>8
<1>4. QED
  BY <1>2, <1>3

---------------------------------------------------------------------------
\* Whole problems, while changes come one by one and are not killed

Placed ==
    \A i \in Number : testdata[i] # None \/ statement[i] # None =>
        \/ \E k \in DOMAIN content[list] : content[list][k].id = i
        \/ \E d \in Req : pc[d] \in Removing /\ number[d] = i

Made(r) ==
    LET i == number[r]
        dir == testdata[i]
    IN /\ pc[r] \in {"numbered", "listed"} => dir = None /\ statement[i] = None
       /\ pc[r] = "made" => dir = [f \in {} |-> r] /\ statement[i] = "empty"
       /\ pc[r] \in {"input", "output"} => 1 .. n[r] - 1 \subseteq TestsOf(r) /\ statement[i] = r
       /\ pc[r] = "input" => dir = [f \in (1 .. n[r] - 1) \X {"in", "out"} |-> r]
       /\ pc[r] = "output" =>
             /\ n[r] \in TestsOf(r)
             /\ dir = [f \in ((1 .. n[r] - 1) \X {"in", "out"}) \cup {<<n[r], "in">>} |-> r]

AllMade == \A r \in Req : Made(r)

Listed == {"listed", "made", "input", "output", "done"}

Stays ==
    \A r \in Req :
        /\ query[r].op = "upload" /\ pc[r] \in Listed
        /\ \A q \in Deletions(number[r]) : q \in before[r]
        => \E k \in DOMAIN content[list] : content[list][k] = [id |-> number[r], by |-> r]

Wholes ==
    \A k \in DOMAIN content[list] :
        LET l == content[list][k] IN
        l.by = "shipped" \/ pc[l.by] = "done" => Whole(l.id, l.by)

Good == Placed /\ AllMade /\ Stays /\ Wholes

LEMMA GoodIs ==
    (Orderly => Good) <=> PlacesFree /\ BeingMade /\ UploadLines /\ WholeLines
<1>1. (Orderly => Placed) <=> PlacesFree
  BY DEF Placed, PlacesFree
<1>2. (Orderly => AllMade) <=> BeingMade
  BY DEF AllMade, Made, BeingMade
<1>3. (Orderly => Stays) <=> UploadLines
  BY DEF Stays, Listed, UploadLines
<1>4. (Orderly => Wholes) <=> WholeLines
  BY DEF Wholes, WholeLines
<1>5. QED
  BY <1>1, <1>2, <1>3, <1>4 DEF Good

\* While a change is under way, all others that have come are over, and it knows them.
LEMMA LastChange ==
    ASSUME Past, InTurn, NEW r \in Changing, pc[r] \notin Ended \cup {"idle"},
           NEW q \in Changing \ {r}, pc[q] # "idle"
    PROVE  q \in before[r] /\ pc[q] \in Ended
<1>1. Apart(q, r) /\ q \in Req /\ r \in Req
  BY DEF InTurn, Arrived, ApartFrom, Changing
<1>2. r \notin before[q]
  BY <1>1 DEF Past
<1>3. q \in before[r]
  BY <1>1, <1>2 DEF Apart
<1>4. QED
  BY <1>1, <1>3 DEF Past

LEMMA LineId ==
    ASSUME TypeOK, Control, LinesOwn, Sorted(content[list]), NEW k \in DOMAIN content[list]
    PROVE  LET l == content[list][k] IN
           /\ l \in Line /\ l.id \in Number /\ l.by \in Author
           /\ l.by # "shipped" =>
                 /\ l.by \in Changing /\ query[l.by].op = "upload"
                 /\ pc[l.by] \notin {"idle", "refused", "numbered"}
                 /\ l.id = number[l.by]
<1> DEFINE l == content[list][k]
<1>1. l \in Line /\ IsLine(l) /\ l.id # None
  BY DEF TypeOK, LinesOwn, Sorted
<1> HIDE DEF l
<1>2. l.by \in Author
  BY <1>1 DEF Line
<1>3. CASE l.by = "shipped"
  <2>1. l.id \in ShippedNumber
    BY <1>1, <1>3 DEF IsLine
  <2>2. Shipped \in Nat /\ Cardinality(Req) \in Nat
    BY ProblemsAssumption, FS_CardinalityType
  <2>3. l.id \in Number
    BY <2>1, <2>2 DEF ShippedNumber, Number
  <2>4. QED
    BY <1>1, <1>2, <1>3, <2>3 DEF l
<1>4. CASE l.by # "shipped"
  <2>1. /\ l.by \in Req /\ query[l.by].op = "upload"
        /\ pc[l.by] \notin {"idle", "refused", "numbered"} /\ l.id = number[l.by]
    BY <1>1, <1>2, <1>4 DEF IsLine, Author
  <2>2. l.by \in Changing /\ l.id \in Number
    BY <2>1 DEF Control, Changing
  <2>3. QED
    BY <1>1, <1>2, <2>1, <2>2 DEF l
<1>5. QED
  BY <1>3, <1>4

\* The line of an upload that is under way is there, and no other one with its number.
LEMMA OwnLine ==
    ASSUME TypeOK, Past, Control, Ascending, InTurn, Stays,
           NEW r \in Req, pc[r] \in {"listed", "made", "input", "output"}
    PROVE  /\ \E k \in DOMAIN content[list] : content[list][k] = [id |-> number[r], by |-> r]
           /\ \A k \in DOMAIN content[list] : content[list][k].id = number[r] =>
                 content[list][k].by = r
<1>1. query[r].op = "upload" /\ r \in Changing /\ pc[r] \notin Ended \cup {"idle"}
  BY DEF Control, Making, Changing, Ended
<1>2. ASSUME NEW q \in Deletions(number[r])
      PROVE  q \in before[r]
  <2>1. q \in Changing \ {r} /\ pc[q] # "idle"
    BY <1>1, <1>2 DEF Deletions, Changing, Arrived
  <2>2. QED
    BY <1>1, <2>1, LastChange
<1>3. PICK k \in DOMAIN content[list] : content[list][k] = [id |-> number[r], by |-> r]
  BY <1>1, <1>2 DEF Stays, Listed
<1>4. \A j \in DOMAIN content[list] : j # k => content[list][j].id # content[list][k].id
  BY UniqueIs DEF NumbersUnique, InTurn
<1>5. content[list][k].id = number[r] /\ content[list][k].by = r
  BY <1>3
<1>6. QED
  BY <1>3, <1>4, <1>5

\* A problem whose directories are being removed has no line.
LEMMA NoLine ==
    ASSUME TypeOK, Past, Control, LinesOwn, Ascending, LinesGone, InTurn,
           NEW r \in Req, pc[r] \in Removing, NEW k \in DOMAIN content[list]
    PROVE  content[list][k].id # number[r]
<1>1. query[r].op = "delete" /\ r \in Changing /\ pc[r] \notin Ended \cup {"idle"}
  BY DEF Control, Removing, Changing, Ended
<1>2. ApartFrom(r, Changing)
  BY <1>1 DEF InTurn, Arrived
<1>3. NoOldLine(r)
  BY <1>1, <1>2 DEF LinesGone
<1>4. list \in Live
  BY ProblemsAssumption DEF Live, TypeOK, File
<1>5. ~IsOld(content[list][k], r)
  BY <1>3, <1>4 DEF NoOldLine
<1>6. Sorted(content[list])
  BY DEF Ascending, Sorted
<1> DEFINE a == content[list][k].by
<1>7. a # "shipped" => a \in Changing \ {r} /\ pc[a] # "idle"
  BY <1>1, <1>6, LineId
<1>8. a # "shipped" => a \in before[r]
  BY <1>1, <1>7, LastChange
<1>9. QED
  BY <1>5, <1>8 DEF IsOld

\* The deletions of a number do not become fewer, and what they were asked stays.
LEMMA DeletionsGrow ==
    ASSUME RequestTypes, NEW r \in Req, Frame(r), NEW i
    PROVE  Deletions(i) \subseteq Deletions(i)' /\ Changing' = Changing
BY DEF RequestTypes, Frame, Deletions, Changing, Arrived

\* Nothing changes for a request that takes no step, as long as the files are the same.
LEMMA MadeStays ==
    ASSUME RequestTypes, NEW r \in Req, Frame(r), NEW q \in Req \ {r}, Made(q),
           testdata'[number[q]] = testdata[number[q]], statement'[number[q]] = statement[number[q]]
    PROVE  Made(q)'
<1>1. pc'[q] = pc[q] /\ n'[q] = n[q] /\ number'[q] = number[q] /\ query' = query
  BY DEF Frame
<1>2. TestsOf(q)' = TestsOf(q)
  BY <1>1 DEF TestsOf
<1>3. QED
  BY <1>1, <1>2 DEF Made

LEMMA WholeStays ==
    ASSUME NEW i, NEW a, Whole(i, a), query' = query,
           testdata'[i] = testdata[i], statement'[i] = statement[i]
    PROVE  Whole(i, a)'
BY DEF Whole, TestsOf

\* Steps that change neither the list nor the directories.
LEMMA QuietKept ==
    ASSUME TypeOK, LinesOwn, Good, NEW r \in Req, Frame(r),
           content'[list'] = content[list], UNCHANGED dirs,
           pc[r] \in Removing => pc'[r] \in Removing,
           pc'[r] \notin Making, query[r].op = "upload" => pc'[r] = "refused"
    PROVE  Good'
<1>0. RequestTypes /\ query' = query
  BY TypesAre DEF Frame
<1>1. Placed'
  <2>1. ASSUME NEW i \in Number, NEW d \in Req, pc[d] \in Removing, number[d] = i
        PROVE  pc'[d] \in Removing /\ number'[d] = i
    BY <2>1 DEF Frame, Removing
  <2>2. QED
    BY <2>1 DEF Good, Placed, dirs
<1>2. AllMade'
  <2>1. ASSUME NEW q \in Req
        PROVE  Made(q)'
    <3>1. CASE q = r
      BY <3>1 DEF Made, Making
    <3>2. CASE q # r
      BY <1>0, <3>2, MadeStays DEF Good, AllMade, dirs
    <3>3. QED
      BY <3>1, <3>2
  <2>2. QED
    BY <2>1 DEF AllMade
<1>3. Stays'
  <2> SUFFICES ASSUME NEW u \in Req, query'[u].op = "upload", pc'[u] \in Listed,
                      \A q \in Deletions(number[u])' : q \in before'[u]
               PROVE  \E k \in DOMAIN content'[list'] :
                         content'[list'][k] = [id |-> number'[u], by |-> u]
    BY DEF Stays
  <2>1. u # r
    BY <1>0 DEF Listed
  <2>2. number'[u] = number[u] /\ pc'[u] = pc[u] /\ before'[u] = before[u] /\ query[u].op = "upload"
    BY <1>0, <2>1 DEF Frame
  <2>3. \A q \in Deletions(number[u]) : q \in before[u]
    BY <1>0, <2>2, DeletionsGrow
  <2>4. QED
    BY <2>2, <2>3 DEF Good, Stays
<1>4. Wholes'
  <2>1. ASSUME NEW l \in Line, IsLine(l), l.by = "shipped" \/ pc'[l.by] = "done"
        PROVE  l.by = "shipped" \/ pc[l.by] = "done"
    <3>1. l.by # "shipped" => l.by \in Req /\ query[l.by].op = "upload" /\ pc'[l.by] = "done"
      BY <2>1 DEF IsLine, Line, Author
    <3>2. l.by # "shipped" => l.by # r
      BY <3>1
    <3>3. QED
      BY <3>1, <3>2 DEF Frame
  <2>2. ASSUME NEW i, NEW a, Whole(i, a)
        PROVE  Whole(i, a)'
    BY <1>0, <2>2, WholeStays DEF dirs
  <2>3. \A k \in DOMAIN content[list] : content[list][k] \in Line /\ IsLine(content[list][k])
    BY DEF TypeOK, LinesOwn
  <2>4. ASSUME NEW k \in DOMAIN content'[list'], NEW l, l = content'[list'][k],
               l.by = "shipped" \/ pc'[l.by] = "done"
        PROVE  Whole(l.id, l.by)'
    <3>1. l \in Line /\ IsLine(l) /\ k \in DOMAIN content[list] /\ l = content[list][k]
      BY <2>3, <2>4
    <3>2. Whole(l.id, l.by)
      BY <2>1, <2>4, <3>1 DEF Good, Wholes
    <3>3. QED
      BY <2>2, <3>2
  <2>5. QED
    BY <2>4 DEF Wholes
<1>5. QED
  BY <1>1, <1>2, <1>3, <1>4 DEF Good

\* Nobody else makes or removes anything while a change is under way.
LEMMA OthersAtRest ==
    ASSUME TypeOK, Past, Control, NEW r \in Changing, Frame(r), InTurn',
           NEW q \in Req \ {r}
    PROVE  pc[q] \notin Making \cup Copying \cup Removing /\ pc'[q] = pc[q]
<1>1. RequestTypes /\ r \in Req
  BY TypesAre DEF Changing
<1>2. pc[q] \in Making \cup Copying \cup Removing =>
         q \in Changing /\ pc[q] \notin Ended \cup {"idle"}
  BY DEF Control, Changing, Making, Copying, Removing, Ended
<1>3. QED
  BY <1>1, <1>2, Alone DEF Frame

LEMMA ReadLastKept ==
    ASSUME TypeOK, Past, Control, Dense, LinesOwn, Ascending, Good, InTurn', InTurn,
           NEW r \in Req, ReadLast(r), Step(r)
    PROVE  Good'
<1>0. RequestTypes /\ LocalTypes /\ FileTypes /\ Frame(r) /\ query' = query /\ r \in Changing
  BY TypesAre, FrameOf DEF Frame, ReadLast, Changing
<1>1. /\ content' = content /\ list' = list /\ UNCHANGED dirs
      /\ pc[r] = "idle" /\ pc'[r] = "numbered"
  BY <1>0 DEF ReadLast, files, Arrive, Go, RequestTypes
<1>2. Placed'
  <2>1. ASSUME NEW i \in Number, NEW d \in Req, pc[d] \in Removing, number[d] = i
        PROVE  pc'[d] \in Removing /\ number'[d] = i
    BY <1>0, <1>1, <2>1 DEF Frame, Removing
  <2>2. QED
    BY <1>1, <2>1 DEF Good, Placed, dirs
<1>3. AllMade'
  <2>1. ASSUME NEW q \in Req \ {r}
        PROVE  Made(q)'
    BY <1>0, <1>1, MadeStays DEF Good, AllMade, dirs
  <2>2. number'[r] \in Number
    BY NumberIs
  <2>3. Sorted(content[list])
    BY DEF Ascending, Sorted
  <2>4. \A k \in DOMAIN content[list] : content[list][k].id # number'[r]
    <3>1. ASSUME NEW k \in DOMAIN content[list]
          PROVE  content[list][k].id # number'[r]
      <4>1. content[list][k].id \in Nat /\ number'[r] \in Nat
        BY <1>0, <2>2, <2>3, NumberIsNat, SortedIds DEF FileTypes
      <4>2. content[list][k].id < number'[r]
        BY <2>3, ReadsLast
      <4>3. QED
        BY <4>1, <4>2
    <3>2. QED
      BY <3>1
  <2>5. \A d \in Req : pc[d] \notin Removing
    BY <1>0, <1>1, OthersAtRest DEF Removing
  <2>6. testdata[number'[r]] = None /\ statement[number'[r]] = None
    BY <2>2, <2>4, <2>5 DEF Good, Placed
  <2>7. Made(r)'
    BY <1>1, <2>6 DEF Made, dirs
  <2>8. QED
    BY <2>1, <2>7 DEF AllMade
<1>4. Stays'
  <2> SUFFICES ASSUME NEW u \in Req, query'[u].op = "upload", pc'[u] \in Listed,
                      \A q \in Deletions(number[u])' : q \in before'[u]
               PROVE  \E k \in DOMAIN content'[list'] :
                         content'[list'][k] = [id |-> number'[u], by |-> u]
    BY DEF Stays
  <2>1. u # r
    BY <1>1 DEF Listed
  <2>2. number'[u] = number[u] /\ pc'[u] = pc[u] /\ before'[u] = before[u] /\ query[u].op = "upload"
    BY <1>0, <2>1 DEF Frame
  <2>3. \A q \in Deletions(number[u]) : q \in before[u]
    BY <1>0, <2>2, DeletionsGrow
  <2>4. QED
    BY <1>1, <2>2, <2>3 DEF Good, Stays
<1>5. Wholes'
  <2>1. ASSUME NEW i, NEW a, Whole(i, a)
        PROVE  Whole(i, a)'
    BY <1>0, <1>1, <2>1, WholeStays DEF dirs
  <2>2. ASSUME NEW k \in DOMAIN content'[list'], NEW l, l = content'[list'][k],
               l.by = "shipped" \/ pc'[l.by] = "done"
        PROVE  Whole(l.id, l.by)'
    <3>1. k \in DOMAIN content[list] /\ l = content[list][k]
      BY <1>1, <2>2
    <3>2. l \in Line /\ IsLine(l)
      BY <3>1 DEF TypeOK, LinesOwn
    <3>3. l.by # "shipped" => pc[l.by] = "done"
      BY <1>0, <1>1, <2>2, <3>2 DEF IsLine, Frame, Line, Author
    <3>4. QED
      BY <2>1, <3>1, <3>3 DEF Good, Wholes
  <2>3. QED
    BY <2>2 DEF Wholes
<1>6. QED
  BY <1>2, <1>3, <1>4, <1>5 DEF Good

LEMMA AppendKept ==
    ASSUME TypeOK, Past, Control, LinesOwn, Good, InTurn', InTurn,
           NEW r \in Req, AppendLine(r), Step(r)
    PROVE  Good'
<1> DEFINE new == [id |-> number[r], by |-> r]
           last == Len(content[list]) + 1
<1>1. /\ pc[r] = "numbered" /\ pc'[r] = "listed"
      /\ list' = list /\ UNCHANGED dirs /\ number' = number
      /\ last \in DOMAIN content'[list]
      /\ DOMAIN content'[list] = DOMAIN content[list] \cup {last}
      /\ \A k \in DOMAIN content[list] : content'[list][k] = content[list][k]
      /\ content'[list][last] = new
      /\ last \notin DOMAIN content[list]
  <2>1. DOMAIN content'[list] = 1 .. Len(content[list]) + 1
        /\ DOMAIN content[list] = 1 .. Len(content[list]) /\ Len(content[list]) \in Nat
    BY Appends
  <2>2. last \in DOMAIN content'[list] /\ last \notin DOMAIN content[list]
        /\ DOMAIN content'[list] = DOMAIN content[list] \cup {last}
    BY <2>1
  <2>3. QED
    BY <2>2, Appends DEF local
<1> HIDE DEF last
<1>0. RequestTypes /\ LocalTypes /\ FileTypes /\ Frame(r) /\ query' = query /\ r \in Changing
  BY <1>1, TypesAre, FrameOf DEF Frame, Control, Making, Changing
<1>2. Placed'
  <2>1. ASSUME NEW i \in Number, NEW d \in Req, pc[d] \in Removing, number[d] = i
        PROVE  pc'[d] \in Removing /\ number'[d] = i
    BY <1>0, <1>1, <2>1 DEF Frame, Removing
  <2>2. QED
    BY <1>1, <2>1 DEF Good, Placed, dirs
<1>3. AllMade'
  <2>1. ASSUME NEW q \in Req \ {r}
        PROVE  Made(q)'
    BY <1>0, <1>1, MadeStays DEF Good, AllMade, dirs
  <2>2. Made(r)'
    BY <1>1 DEF Good, AllMade, Made, dirs
  <2>3. QED
    BY <2>1, <2>2 DEF AllMade
<1>4. Stays'
  <2> SUFFICES ASSUME NEW u \in Req, query'[u].op = "upload", pc'[u] \in Listed,
                      \A q \in Deletions(number[u])' : q \in before'[u]
               PROVE  \E k \in DOMAIN content'[list'] :
                         content'[list'][k] = [id |-> number'[u], by |-> u]
    BY DEF Stays
  <2>1. CASE u = r
    BY <1>1, <2>1
  <2>2. CASE u # r
    <3>1. pc'[u] = pc[u] /\ before'[u] = before[u] /\ query[u].op = "upload"
      BY <1>0, <2>2 DEF Frame
    <3>2. \A q \in Deletions(number[u]) : q \in before[u]
      BY <1>0, <1>1, <3>1, DeletionsGrow
    <3>3. QED
      BY <1>1, <3>1, <3>2 DEF Good, Stays
  <2>3. QED
    BY <2>1, <2>2
<1>5. Wholes'
  <2>1. ASSUME NEW i, NEW a, Whole(i, a)
        PROVE  Whole(i, a)'
    BY <1>0, <1>1, <2>1, WholeStays DEF dirs
  <2>2. ASSUME NEW k \in DOMAIN content'[list'], NEW l, l = content'[list'][k],
               l.by = "shipped" \/ pc'[l.by] = "done"
        PROVE  Whole(l.id, l.by)'
    <3>1. k \in DOMAIN content[list]
      <4>1. r # "shipped"
        BY ProblemsAssumption
      <4>2. QED
        BY <1>1, <2>2, <4>1
    <3>2. l = content[list][k] /\ l \in Line /\ IsLine(l)
      BY <1>1, <2>2, <3>1 DEF TypeOK, LinesOwn
    <3>3. l.by # "shipped" => pc[l.by] = "done"
      BY <1>0, <1>1, <2>2, <3>2 DEF IsLine, Frame, Line, Author
    <3>4. QED
      BY <2>1, <3>1, <3>2, <3>3 DEF Good, Wholes
  <2>3. QED
    BY <2>2 DEF Wholes
<1>6. QED
  BY <1>2, <1>3, <1>4, <1>5 DEF Good

\* A step changes the directories of no other problem.
OnlyIts(r) ==
    \A i \in Number \ {number[r]} : testdata'[i] = testdata[i] /\ statement'[i] = statement[i]

\* The steps of an upload that make directories and files, and its end.
LEMMA MakesKept ==
    ASSUME TypeOK, Past, Control, LinesOwn, Ascending, Good, InTurn', InTurn,
           NEW r \in Req, Frame(r), OnlyIts(r), content' = content, list' = list,
           pc[r] \in {"listed", "made", "input", "output"},
           pc'[r] \in {"made", "input", "output", "done"},
           Made(r)', pc'[r] = "done" => Whole(number[r], r)'
    PROVE  Good'
<1>0. RequestTypes /\ LocalTypes /\ FileTypes /\ query' = query /\ r \in Changing
      /\ number'[r] = number[r] /\ before'[r] = before[r]
  BY TypesAre DEF Frame, Control, Making, Changing
<1>1. /\ \E k \in DOMAIN content[list] : content[list][k] = [id |-> number[r], by |-> r]
      /\ \A k \in DOMAIN content[list] : content[list][k].id = number[r] => content[list][k].by = r
  BY OwnLine DEF Good
<1>2. Placed'
  <2>1. ASSUME NEW i \in Number, NEW d \in Req, pc[d] \in Removing, number[d] = i
        PROVE  pc'[d] \in Removing /\ number'[d] = i
    BY <2>1 DEF Frame, Removing
  <2>2. ASSUME NEW i \in Number, testdata'[i] # None \/ statement'[i] # None
        PROVE  \/ \E k \in DOMAIN content'[list'] : content'[list'][k].id = i
               \/ \E d \in Req : pc'[d] \in Removing /\ number'[d] = i
    <3>1. CASE i = number[r]
      BY <1>1, <3>1
    <3>2. CASE i # number[r]
      BY <2>1, <2>2, <3>2 DEF Good, Placed, OnlyIts
    <3>3. QED
      BY <3>1, <3>2
  <2>3. QED
    BY <2>2 DEF Placed
<1>3. AllMade'
  <2>1. ASSUME NEW q \in Req \ {r}
        PROVE  Made(q)'
    <3>1. pc'[q] \notin Making
      BY <1>0, OthersAtRest
    <3>2. QED
      BY <3>1 DEF Made, Making
  <2>2. QED
    BY <2>1 DEF AllMade
<1>4. Stays'
  <2> SUFFICES ASSUME NEW u \in Req, query'[u].op = "upload", pc'[u] \in Listed,
                      \A q \in Deletions(number[u])' : q \in before'[u]
               PROVE  \E k \in DOMAIN content'[list'] :
                         content'[list'][k] = [id |-> number'[u], by |-> u]
    BY DEF Stays
  <2>1. CASE u = r
    BY <1>0, <1>1, <2>1
  <2>2. CASE u # r
    <3>1. /\ number'[u] = number[u] /\ pc'[u] = pc[u] /\ before'[u] = before[u]
          /\ query[u].op = "upload"
      BY <1>0, <2>2 DEF Frame
    <3>2. \A q \in Deletions(number[u]) : q \in before[u]
      BY <1>0, <3>1, DeletionsGrow
    <3>3. QED
      BY <3>1, <3>2 DEF Good, Stays
  <2>3. QED
    BY <2>1, <2>2
<1>5. Wholes'
  <2>1. ASSUME NEW i \in Number \ {number[r]}, NEW a, Whole(i, a)
        PROVE  Whole(i, a)'
    BY <1>0, <2>1, WholeStays DEF OnlyIts
  <2>2. Sorted(content[list]) /\ r # "shipped"
    BY ProblemsAssumption DEF Ascending, Sorted
  <2>3. ASSUME NEW k \in DOMAIN content'[list'], NEW l, l = content'[list'][k],
               l.by = "shipped" \/ pc'[l.by] = "done"
        PROVE  Whole(l.id, l.by)'
    <3>1. k \in DOMAIN content[list] /\ l = content[list][k]
      BY <2>3
    <3>2. l.id \in Number /\ (l.by # "shipped" => l.by \in Req /\ l.id = number[l.by])
      BY <2>2, <3>1, LineId DEF Changing
    <3>3. CASE l.by = r
      <4>1. Whole(number[r], r)'
        BY <2>2, <2>3, <3>3
      <4>2. QED
        BY <1>0, <2>2, <3>2, <3>3, <4>1
    <3>4. CASE l.by # r
      <4>1. l.id # number[r]
        BY <1>1, <3>1, <3>4
      <4>2. l.by # "shipped" => pc[l.by] = "done"
        BY <2>3, <3>2, <3>4 DEF Frame
      <4>3. Whole(l.id, l.by)
        BY <3>1, <4>2 DEF Good, Wholes
      <4>4. QED
        BY <2>1, <3>2, <4>1, <4>3
    <3>5. QED
      BY <3>3, <3>4
  <2>4. QED
    BY <2>3 DEF Wholes
<1>6. QED
  BY <1>2, <1>3, <1>4, <1>5 DEF Good

\* The steps of a deletion behind the rename.
LEMMA RemovesKept ==
    ASSUME TypeOK, Past, Control, LinesOwn, Ascending, LinesGone, Good, InTurn', InTurn,
           NEW r \in Req, Frame(r), OnlyIts(r), content' = content, list' = list,
           pc[r] \in Removing,
           \/ pc'[r] \in Removing
           \/ pc'[r] = "done" /\ testdata'[number[r]] = None /\ statement'[number[r]] = None
    PROVE  Good'
<1>0. RequestTypes /\ LocalTypes /\ FileTypes /\ query' = query /\ r \in Changing
      /\ number'[r] = number[r] /\ before'[r] = before[r] /\ query[r].op = "delete"
  BY TypesAre DEF Frame, Control, Removing, Changing
<1>1. \A k \in DOMAIN content[list] : content[list][k].id # number[r]
  BY NoLine
<1>2. Placed'
  <2>1. ASSUME NEW i \in Number, testdata'[i] # None \/ statement'[i] # None
        PROVE  \/ \E k \in DOMAIN content'[list'] : content'[list'][k].id = i
               \/ \E d \in Req : pc'[d] \in Removing /\ number'[d] = i
    <3>1. CASE i = number[r]
      BY <1>0, <2>1, <3>1
    <3>2. CASE i # number[r]
      <4>1. \A d \in Req : number[d] = i => pc'[d] = pc[d] /\ number'[d] = number[d]
        BY <3>2 DEF Frame
      <4>2. QED
        BY <2>1, <3>2, <4>1 DEF Good, Placed, OnlyIts
    <3>3. QED
      BY <3>1, <3>2
  <2>2. QED
    BY <2>1 DEF Placed
<1>3. AllMade'
  <2>1. ASSUME NEW q \in Req
        PROVE  Made(q)'
    <3>1. pc'[q] \notin Making
      <4>1. CASE q = r
        BY <4>1 DEF Making, Removing
      <4>2. CASE q # r
        BY <1>0, <4>2, OthersAtRest
      <4>3. QED
        BY <4>1, <4>2
    <3>2. QED
      BY <3>1 DEF Made, Making
  <2>2. QED
    BY <2>1 DEF AllMade
<1>4. Stays'
  <2> SUFFICES ASSUME NEW u \in Req, query'[u].op = "upload", pc'[u] \in Listed,
                      \A q \in Deletions(number[u])' : q \in before'[u]
               PROVE  \E k \in DOMAIN content'[list'] :
                         content'[list'][k] = [id |-> number'[u], by |-> u]
    BY DEF Stays
  <2>1. u # r
    BY <1>0
  <2>2. number'[u] = number[u] /\ pc'[u] = pc[u] /\ before'[u] = before[u] /\ query[u].op = "upload"
    BY <1>0, <2>1 DEF Frame
  <2>3. \A q \in Deletions(number[u]) : q \in before[u]
    BY <1>0, <2>2, DeletionsGrow
  <2>4. QED
    BY <2>2, <2>3 DEF Good, Stays
<1>5. Wholes'
  <2>1. ASSUME NEW i \in Number \ {number[r]}, NEW a, Whole(i, a)
        PROVE  Whole(i, a)'
    BY <1>0, <2>1, WholeStays DEF OnlyIts
  <2>2. Sorted(content[list])
    BY DEF Ascending, Sorted
  <2>3. ASSUME NEW k \in DOMAIN content'[list'], NEW l, l = content'[list'][k],
               l.by = "shipped" \/ pc'[l.by] = "done"
        PROVE  Whole(l.id, l.by)'
    <3>1. k \in DOMAIN content[list] /\ l = content[list][k]
      BY <2>3
    <3>2. l.id \in Number /\ (l.by # "shipped" => l.by \in Req /\ query[l.by].op = "upload")
      BY <2>2, <3>1, LineId DEF Changing
    <3>3. l.id # number[r]
      BY <1>1, <3>1
    <3>4. l.by # "shipped" => pc[l.by] = "done"
      BY <1>0, <2>3, <3>2 DEF Frame
    <3>5. Whole(l.id, l.by)
      BY <3>1, <3>4 DEF Good, Wholes
    <3>6. QED
      BY <2>1, <3>2, <3>3, <3>5
  <2>4. QED
    BY <2>3 DEF Wholes
<1>6. QED
  BY <1>2, <1>3, <1>4, <1>5 DEF Good

LEMMA MoveKept ==
    ASSUME TypeOK, Past, Control, LinesOwn, CopyAtWork, Good, InTurn', InTurn,
           NEW r \in Req, MoveCopy(r), Step(r)
    PROVE  Good'
<1>1. pc[r] = "moving" /\ pc'[r] = "moved"
  BY DEF MoveCopy, Go, TypeOK
<1>0. RequestTypes /\ LocalTypes /\ FileTypes /\ Frame(r) /\ query' = query /\ r \in Changing
      /\ query[r].op = "delete"
  BY <1>1, TypesAre, FrameOf DEF Frame, Control, Copying, Changing
<1>2. /\ content'[list'] = Without(content[list], number[r])
      /\ UNCHANGED dirs /\ number' = number /\ before' = before
  <2>1. ApartFrom(r, Changing)
    BY <1>0, <1>1 DEF InTurn, Arrived
  <2>2. QED
    BY <2>1, Moves DEF MoveCopy, local
<1> DEFINE less == Without(content[list], number[r])
<1>3. /\ \A k \in DOMAIN less : \E h \in DOMAIN content[list] : less[k] = content[list][h]
      /\ \A h \in DOMAIN content[list] : content[list][h].id # number[r] =>
            \E k \in DOMAIN less : less[k] = content[list][h]
  <2> DEFINE lines == content[list]
             i == number[r]
  <2>1. lines \in Seq(Line)
    BY <1>0 DEF FileTypes
  <2> HIDE DEF lines, i
  <2>2. /\ \A k \in DOMAIN Without(lines, i) :
              \E h \in DOMAIN lines : Without(lines, i)[k] = lines[h]
        /\ \A h \in DOMAIN lines : lines[h].id # i =>
              \E k \in DOMAIN Without(lines, i) : Without(lines, i)[k] = lines[h]
    BY <2>1, WithoutIs
  <2>3. QED
    BY <2>2 DEF lines, i
<1> HIDE DEF less
<1>4. content'[list'] = less
  BY <1>2 DEF less
<1>5. Placed'
  <2>1. ASSUME NEW i \in Number, testdata'[i] # None \/ statement'[i] # None
        PROVE  \/ \E k \in DOMAIN content'[list'] : content'[list'][k].id = i
               \/ \E d \in Req : pc'[d] \in Removing /\ number'[d] = i
    <3>1. CASE i = number[r]
      BY <1>1, <1>2, <3>1 DEF Removing
    <3>2. CASE i # number[r]
      <4>1. \A d \in Req : number[d] = i => pc'[d] = pc[d] /\ number'[d] = number[d]
        BY <1>0, <3>2 DEF Frame
      <4>2. QED
        BY <1>2, <1>3, <1>4, <2>1, <3>2, <4>1 DEF Good, Placed, dirs
    <3>3. QED
      BY <3>1, <3>2
  <2>2. QED
    BY <2>1 DEF Placed
<1>6. AllMade'
  <2>1. ASSUME NEW q \in Req
        PROVE  Made(q)'
    <3>1. pc'[q] \notin Making
      <4>1. CASE q = r
        BY <1>1, <4>1 DEF Making
      <4>2. CASE q # r
        BY <1>0, <4>2, OthersAtRest
      <4>3. QED
        BY <4>1, <4>2
    <3>2. QED
      BY <3>1 DEF Made, Making
  <2>2. QED
    BY <2>1 DEF AllMade
<1>7. Stays'
  <2> SUFFICES ASSUME NEW u \in Req, query'[u].op = "upload", pc'[u] \in Listed,
                      \A q \in Deletions(number[u])' : q \in before'[u]
               PROVE  \E k \in DOMAIN content'[list'] :
                         content'[list'][k] = [id |-> number'[u], by |-> u]
    BY DEF Stays
  <2>1. u # r
    BY <1>0
  <2>2. pc'[u] = pc[u] /\ query[u].op = "upload"
    BY <1>0, <2>1 DEF Frame
  <2>3. \A q \in Deletions(number[u]) : q \in before[u]
    BY <1>0, <1>2, DeletionsGrow
  <2>4. PICK h \in DOMAIN content[list] : content[list][h] = [id |-> number[u], by |-> u]
    BY <2>2, <2>3 DEF Good, Stays
  <2>5. number[u] # number[r]
    <3>1. r \notin before[u]
      BY <1>1 DEF Past, Ended
    <3>2. number[r] = query[r].number
      BY <1>0, <1>1 DEF Control
    <3>3. number[r] = number[u] => r \in Deletions(number[u])
      BY <1>0, <1>1, <3>2 DEF Deletions, Arrived
    <3>4. QED
      BY <2>3, <3>1, <3>3
  <2>6. QED
    BY <1>2, <1>3, <1>4, <2>4, <2>5
<1>8. Wholes'
  <2>1. ASSUME NEW i, NEW a, Whole(i, a)
        PROVE  Whole(i, a)'
    BY <1>0, <1>2, <2>1, WholeStays DEF dirs
  <2>2. ASSUME NEW k \in DOMAIN content'[list'], NEW l, l = content'[list'][k],
               l.by = "shipped" \/ pc'[l.by] = "done"
        PROVE  Whole(l.id, l.by)'
    <3>1. PICK h \in DOMAIN content[list] : l = content[list][h]
      BY <1>3, <1>4, <2>2
    <3>2. l \in Line /\ IsLine(l)
      BY <3>1 DEF TypeOK, LinesOwn
    <3>3. l.by # "shipped" => pc[l.by] = "done"
      BY <1>0, <1>1, <2>2, <3>2 DEF IsLine, Frame, Line, Author
    <3>4. QED
      BY <2>1, <3>1, <3>3 DEF Good, Wholes
  <2>3. QED
    BY <2>2 DEF Wholes
<1>9. QED
  BY <1>5, <1>6, <1>7, <1>8 DEF Good

\* What an upload has made after its next step.
LEMMA MakesNext ==
    ASSUME TypeOK, Control, NEW r \in Req, Step(r), Frame(r), Made(r),
           MakeDirs(r) \/ WriteStatement(r) \/ WriteInput(r) \/ WriteOutput(r)
    PROVE  Made(r)' /\ pc'[r] \in {"made", "input", "output"} /\ content' = content /\ list' = list
<1>0. RequestTypes /\ LocalTypes /\ FileTypes /\ query' = query /\ MaxCases \in Nat
  BY TypesAre, ProblemsAssumption DEF Frame
<1> DEFINE i == number[r]
           dir == testdata[i]
<1>1. pc[r] # "idle" /\ number'[r] = number[r] /\ i \in Number /\ query[r].op = "upload"
  <2>1. pc[r] \in {"listed", "made", "input", "output"}
    BY DEF MakeDirs, WriteStatement, WriteInput, WriteOutput
  <2>2. QED
    BY <2>1 DEF Frame, Control, Making
<1>2. TestsOf(r)' = TestsOf(r)
  BY <1>0 DEF TestsOf
<1>3. r # None /\ "empty" # None /\ r # "shipped"
  BY ProblemsAssumption DEF Author
<1>4. CASE MakeDirs(r)
  <2>1. dir = None /\ statement[i] = None /\ pc'[r] = "made"
    BY <1>0, <1>4 DEF MakeDirs, Made, Go, RequestTypes
  <2>2. testdata'[i] = [f \in {} |-> r] /\ statement'[i] = "empty"
    BY <1>0, <1>1, <1>4, <2>1 DEF MakeDirs, FileTypes
  <2>3. QED
    BY <1>1, <1>4, <2>1, <2>2 DEF Made, MakeDirs, files
<1>5. CASE WriteStatement(r)
  <2>1. dir = [f \in {} |-> r] /\ statement[i] = "empty" /\ pc'[r] = "input" /\ n'[r] = 1
    BY <1>0, <1>5 DEF WriteStatement, Made, Go, RequestTypes, LocalTypes
  <2>2. testdata' = testdata /\ statement'[i] = r
    BY <1>0, <1>1, <1>3, <1>5, <2>1 DEF WriteStatement, FileTypes
  <2>3. 1 .. n'[r] - 1 = {} /\ (1 .. n'[r] - 1) \X {"in", "out"} = {}
    BY <2>1
  <2>4. QED
    BY <1>1, <1>5, <2>1, <2>2, <2>3 DEF Made, WriteStatement, files
<1>6. CASE WriteInput(r)
  <2> DEFINE f == <<n[r], "in">>
             F == (1 .. n[r] - 1) \X {"in", "out"}
  <2>1. /\ pc[r] = "input" /\ pc'[r] = "output" /\ n' = n /\ statement' = statement
        /\ 1 .. n[r] - 1 \subseteq TestsOf(r) /\ statement[i] = r
        /\ dir = [g \in F |-> r]
    BY <1>0, <1>6 DEF WriteInput, Made, Go, RequestTypes, local
  <2>2. n[r] \in TestsOf(r)
    <3>1. n[r] \in Nat /\ n[r] # 0 /\ n[r] <= query[r].cases /\ n[r] <= MaxCases
      BY <1>0, <1>6, <2>1 DEF WriteInput, MoreCases, Control, LocalTypes
    <3>2. query[r].cases \in Nat
      BY <1>1, QueriesAre DEF Queries
    <3>3. QED
      BY <1>0, <1>3, <3>1, <3>2 DEF TestsOf
  <2> HIDE DEF F
  <2>3. testdata' = [testdata EXCEPT ![i] = WithFile(dir, f, r)]
    BY <1>6 DEF WriteInput
  <2>4. dir # None
    <3>1. dir \in [F -> Author] /\ F \in SUBSET TestFile
      <4>1. n[r] - 1 \in Int /\ n[r] - 1 <= MaxCases
        BY <1>0 DEF LocalTypes
      <4>2. F \subseteq TestFile
        BY <1>0, <4>1 DEF F, TestFile
      <4>3. QED
        BY <2>1, <4>2 DEF Author
    <3>2. QED
      BY <3>1, DirMade, DirIs
  <2>5. WithFile(dir, f, r) = [g \in F \cup {f} |-> r]
    BY <2>1, <2>4 DEF WithFile
  <2>6. testdata'[i] = [g \in F \cup {f} |-> r]
    BY <1>0, <1>1, <2>3, <2>5 DEF FileTypes
  <2>7. QED
    BY <1>1, <1>2, <1>6, <2>1, <2>2, <2>6 DEF Made, WriteInput, files, F
<1>7. CASE WriteOutput(r)
  <2> DEFINE f == <<n[r], "out">>
             F == ((1 .. n[r] - 1) \X {"in", "out"}) \cup {<<n[r], "in">>}
  <2>1. /\ pc[r] = "output" /\ pc'[r] = "input" /\ n'[r] = n[r] + 1 /\ statement' = statement
        /\ 1 .. n[r] - 1 \subseteq TestsOf(r) /\ statement[i] = r
        /\ n[r] \in TestsOf(r) /\ dir = [g \in F |-> r]
    BY <1>0, <1>7 DEF WriteOutput, Made, Go, RequestTypes, LocalTypes
  <2>2. n[r] \in 1 .. MaxCases
    BY <2>1 DEF Control
  <2>3. F \cup {f} = (1 .. n'[r] - 1) \X {"in", "out"}
    <3>1. 1 .. n'[r] - 1 = (1 .. n[r] - 1) \cup {n[r]}
      BY <1>0, <2>1, <2>2
    <3>2. QED
      BY <3>1
  <2>4. 1 .. n'[r] - 1 \subseteq TestsOf(r)
    <3>1. 1 .. n'[r] - 1 = (1 .. n[r] - 1) \cup {n[r]}
      BY <1>0, <2>1, <2>2
    <3>2. QED
      BY <2>1, <3>1
  <2>5. F \subseteq TestFile
    BY <1>0, <2>2 DEF TestFile
  <2> HIDE DEF F
  <2>6. dir # None
    <3>1. dir \in [F -> Author] /\ F \in SUBSET TestFile
      BY <2>1, <2>5 DEF Author
    <3>2. QED
      BY <3>1, DirMade, DirIs
  <2>7. testdata' = [testdata EXCEPT ![i] = WithFile(dir, f, r)]
    BY <1>7 DEF WriteOutput
  <2>8. WithFile(dir, f, r) = [g \in F \cup {f} |-> r]
    BY <2>1, <2>6 DEF WithFile
  <2>9. testdata'[i] = [g \in F \cup {f} |-> r]
    BY <1>0, <1>1, <2>7, <2>8 DEF FileTypes
  <2>10. QED
    BY <1>1, <1>2, <1>7, <2>1, <2>3, <2>4, <2>9 DEF Made, WriteOutput, files
<1>8. QED
  BY <1>4, <1>5, <1>6, <1>7

\* What it has made in the end.
LEMMA UploadEnds ==
    ASSUME TypeOK, Control, NEW r \in Req, UploadEnd(r), Made(r)
    PROVE  Made(r)' /\ Whole(number[r], r)' /\ pc[r] = "input" /\ pc'[r] = "done"
           /\ content' = content /\ list' = list
<1> DEFINE i == number[r]
<1>1. /\ pc[r] = "input" /\ pc'[r] = "done" /\ UNCHANGED <<files, dirs, query, number>>
      /\ 1 .. n[r] - 1 \subseteq TestsOf(r) /\ statement[i] = r
      /\ testdata[i] = [f \in (1 .. n[r] - 1) \X {"in", "out"} |-> r]
      /\ ~MoreCases(r)
  BY DEF UploadEnd, Made, Go, TypeOK, local
<1>2. query[r].op = "upload" /\ query[r].cases \in Nat /\ MaxCases \in Nat /\ r # "shipped"
  BY <1>1, QueriesAre, ProblemsAssumption DEF Control, Making, Queries
<1>3. n[r] \in Nat /\ n[r] # 0
  BY <1>1, <1>2 DEF Control, TypeOK
<1>4. 1 .. n[r] - 1 = TestsOf(r)
  <2> DEFINE m == IF query[r].cases < MaxCases THEN query[r].cases ELSE MaxCases
  <2>1. TestsOf(r) = 1 .. m /\ m \in Nat
    BY <1>2 DEF TestsOf
  <2>2. n[r] > m
    BY <1>1, <1>2, <1>3 DEF MoreCases
  <2> HIDE DEF m
  <2>3. n[r] - 1 <= m
    <3>1. CASE n[r] = 1
      BY <2>1, <3>1
    <3>2. CASE n[r] # 1
      <4>1. n[r] - 1 \in 1 .. n[r] - 1
        BY <1>3, <3>2
      <4>2. n[r] - 1 \in 1 .. m
        BY <1>1, <2>1, <4>1
      <4>3. QED
        BY <4>2
    <3>3. QED
      BY <3>1, <3>2
  <2>4. n[r] - 1 = m
    BY <1>3, <2>1, <2>2, <2>3
  <2>5. QED
    BY <2>1, <2>4
<1>5. Whole(number[r], r)
  BY <1>1, <1>4 DEF Whole
<1>6. Whole(number[r], r)'
  BY <1>1, <1>5 DEF Whole, TestsOf, dirs
<1>7. QED
  BY <1>1, <1>6 DEF Made, files

LEMMA GoodKept ==
    ASSUME TypeOK, Past, Control, Dense, LinesOwn, FilesNew, CopyAtWork, Ascending,
           LinesGone, TestsGone, Orderly => Good, NEW r \in Req, Step(r)
    PROVE  Orderly' => Good'
<1>0. /\ RequestTypes /\ LocalTypes /\ FileTypes /\ Frame(r) /\ Flow(r) /\ Queries
      /\ DirsFrom(r) /\ query' = query
  <2>1. RequestTypes /\ LocalTypes /\ FileTypes /\ Frame(r) /\ Flow(r) /\ Queries
    BY TypesAre, FrameOf, FlowIs, QueriesAre
  <2>2. QED
    BY <2>1, DirsComeFrom DEF Frame
<1> SUFFICES ASSUME Orderly'
             PROVE  Good'
  OBVIOUS
<1>1. Orderly /\ InTurn /\ InTurn' /\ Good
  <2>1. Orderly /\ InTurn'
    BY <1>0, OrderlyBefore
  <2>2. QED
    BY <1>0, <2>1, TurnBefore
<1>2. pc[r] # "idle" => OnlyIts(r)
  BY <1>0 DEF DirsFrom, OnlyIts
<1>3. r \in Changing => pc'[r] # "dead"
  BY <1>0, <1>1 DEF Orderly, Changing, Arrived
<1>4. r \in Changing => ~Kill(r)
  BY <1>0, <1>3, StepIs
<1>5. r \in Changing /\ pc[r] # "idle" => ApartFrom(r, Changing)
  BY <1>1 DEF InTurn, Arrived
<1>6. CASE r \notin Changing
  <2>1. Looks(r)
    BY <1>6, LooksOnly
  <2>2. query[r].op # "upload" /\ pc'[r] \notin Making /\ pc[r] \notin Removing
    <3>1. query[r].op = "submit"
      BY <1>0, <1>6 DEF Queries, Changing
    <3>2. pc[r] \notin Making \cup Copying \cup Removing
      BY <3>1 DEF Control
    <3>3. pc'[r] \notin Making
      BY <1>0, <3>1, <3>2 DEF Flow, Making, Copying, Removing
    <3>4. QED
      BY <3>1, <3>2, <3>3
  <2>3. content'[list'] = content[list] /\ UNCHANGED dirs
    BY <2>1 DEF Looks, files
  <2>4. QED
    BY <1>0, <1>1, <2>2, <2>3, QuietKept
<1>7. CASE pc[r] = "idle" /\ (Refuse(r) \/ ReadList(r))
  <2>1. content'[list'] = content[list] /\ UNCHANGED dirs
    <3>1. CASE Refuse(r)
      BY <3>1 DEF Refuse, files
    <3>2. CASE ReadList(r)
      BY <1>0, <3>2, ReadsList DEF FileTypes
    <3>3. QED
      BY <1>7, <3>1, <3>2
  <2>2. pc'[r] \notin Making /\ (query[r].op = "upload" => pc'[r] = "refused")
    BY <1>0, <1>7 DEF Refuse, ReadList, Go, RequestTypes, Making
  <2>3. QED
    BY <1>0, <1>1, <1>7, <2>1, <2>2, QuietKept DEF Removing
<1>8. CASE ReadLast(r)
  BY <1>1, <1>8, ReadLastKept
<1>9. CASE AppendLine(r)
  BY <1>1, <1>9, AppendKept
<1>10. CASE MakeDirs(r) \/ WriteStatement(r) \/ WriteInput(r) \/ WriteOutput(r)
  <2>1. pc[r] \in {"listed", "made", "input", "output"}
    BY <1>10 DEF MakeDirs, WriteStatement, WriteInput, WriteOutput
  <2>2. Made(r)
    BY <1>1 DEF Good, AllMade
  <2>3. Made(r)' /\ pc'[r] \in {"made", "input", "output"} /\ content' = content /\ list' = list
    BY <1>0, <1>10, <2>2, MakesNext
  <2>4. QED
    BY <1>0, <1>1, <1>2, <2>1, <2>3, MakesKept
<1>11. CASE UploadEnd(r)
  <2>1. Made(r)
    BY <1>1 DEF Good, AllMade
  <2>2. /\ Made(r)' /\ Whole(number[r], r)' /\ pc[r] = "input" /\ pc'[r] = "done"
        /\ content' = content /\ list' = list
    BY <1>11, <2>1, UploadEnds
  <2>3. QED
    BY <1>0, <1>1, <1>2, <2>2, MakesKept
<1>12. CASE r \in Changing /\ (WriteCopy(r) \/ RemoveCopy(r))
  <2>1. pc[r] \in Copying /\ pc'[r] \notin Making \cup Removing
    BY <1>0, <1>12 DEF WriteCopy, RemoveCopy, Go, RequestTypes, Copying, Making, Removing
  <2>2. query[r].op = "delete" /\ pc[r] \notin Removing /\ pc[r] # "idle"
    BY <2>1 DEF Control, Copying, Removing
  <2>3. content'[list'] = content[list] /\ UNCHANGED dirs
    <3>1. CASE WriteCopy(r)
      <4>1. /\ UNCHANGED <<list, dirs>> /\ copy # list /\ list \in File
            /\ \A f \in File \ {copy} : content'[f] = content[f]
        BY <1>0, <1>5, <1>12, <2>2, <3>1, WritesCopy DEF FilesNew, FileTypes
      <4>2. QED
        BY <4>1
    <3>2. CASE RemoveCopy(r)
      BY <3>2 DEF RemoveCopy
    <3>3. QED
      BY <1>12, <3>1, <3>2
  <2>4. QED
    BY <1>0, <1>1, <2>1, <2>2, <2>3, QuietKept
<1>13. CASE MoveCopy(r)
  BY <1>1, <1>13, MoveKept
<1>14. CASE OpenDir(r) \/ RemoveTest(r) \/ RemoveDir(r)
  <2>1. pc[r] \in Removing /\ pc'[r] \in Removing /\ content' = content /\ list' = list
    BY <1>0, <1>14 DEF OpenDir, RemoveTest, RemoveDir, Go, RequestTypes, Removing, files
  <2>2. pc[r] # "idle"
    BY <2>1 DEF Removing
  <2>3. QED
    BY <1>0, <1>1, <1>2, <2>1, <2>2, RemovesKept
<1>15. CASE RemoveStatement(r)
  <2>1. /\ pc[r] = "emptied" /\ pc'[r] = "done" /\ content' = content /\ list' = list
        /\ testdata' = testdata /\ statement' = [statement EXCEPT ![number[r]] = None]
    BY <1>0, <1>15 DEF RemoveStatement, Go, RequestTypes, files
  <2>2. query[r].op = "delete" /\ r \in Changing /\ number[r] \in Number
    BY <2>1 DEF Control, Removing, Changing
  <2>3. testdata[number[r]] = None
    BY <1>5, <2>1, <2>2 DEF TestsGone
  <2>4. testdata'[number[r]] = None /\ statement'[number[r]] = None
    BY <1>0, <2>1, <2>2, <2>3 DEF FileTypes
  <2>5. pc[r] \in Removing /\ pc[r] # "idle"
    BY <2>1 DEF Removing
  <2>6. QED
    BY <1>0, <1>1, <1>2, <2>1, <2>4, <2>5, RemovesKept
<1>16. CASE r \in Changing
  <2>1. query[r].op # "submit"
    BY <1>16 DEF Changing
  <2>2. pc[r] \notin Judging \cup {"compiling", "showing"}
    BY <2>1 DEF Control
  <2>3. /\ ~Count(r) /\ ~ReadInput(r) /\ ~ReadOutput(r) /\ ~Score(r)
        /\ ~Compile(r) /\ ~CompileError(r) /\ ~ShowTable(r)
    BY <2>1, <2>2 DEF Count, ReadInput, ReadOutput, Score, Compile, CompileError, ShowTable, Judging
  <2>4. Refuse(r) \/ ReadList(r) => pc[r] = "idle"
    BY DEF Refuse, ReadList, Arrive
  <2>5. QED
    BY <1>4, <1>7, <1>8, <1>9, <1>10, <1>11, <1>12, <1>13, <1>14, <1>15, <1>16, <2>3, <2>4 DEF Step
<1>17. QED
  BY <1>6, <1>16

---------------------------------------------------------------------------
\* Submissions, while nothing changes the problem set

JudgesBy(r, a) ==
    /\ total[r] = IF TestsOf(a) = {} THEN 1 ELSE Cardinality(TestsOf(a))
    /\ pc[r] = "comparing" => n[r] \in TestsOf(a) /\ got[r] = a
    /\ 1 .. n[r] - 1 \subseteq TestsOf(a)
    /\ pass[r] < n[r]
    /\ Lone(r) /\ pass[r] = n[r] - 1 => \A t \in 1 .. n[r] - 1 : <<a, t>> \in query[r].solves

JudgesNone(r) == pc[r] = "judging" /\ n[r] = 1 /\ total[r] = 1 /\ pass[r] = 0

Judges(r) ==
    pc[r] \in Judging /\ Deletions(number[r]) = {} =>
        /\ (\A k \in DOMAIN content[list] : content[list][k].id # number[r]) => JudgesNone(r)
        /\ \A k \in DOMAIN content[list] : content[list][k].id = number[r] =>
              JudgesBy(r, content[list][k].by)

AllJudges == \A r \in Req : Judges(r)

LEMMA JudgedIs == Judged <=> (Undisturbed => AllJudges)
BY DEF Judged, AllJudges, Judges, JudgesBy, JudgesNone

\* The tests of a problem are numbered from 1.
LEMMA TestsOfIs ==
    ASSUME TypeOK, NEW a, a # "shipped" => a \in Req /\ query[a].op = "upload"
    PROVE  \E m \in 0 .. MaxCases : TestsOf(a) = 1 .. m /\ Cardinality(TestsOf(a)) = m
<1> DEFINE m == IF a = "shipped" THEN ShippedCases
                ELSE IF query[a].cases < MaxCases THEN query[a].cases ELSE MaxCases
<1>1. m \in 0 .. MaxCases /\ m \in Int
  <2>1. MaxCases \in Nat /\ ShippedCases \in 1 .. MaxCases
    BY ProblemsAssumption
  <2>2. a # "shipped" => query[a].cases \in Nat
    BY QueriesAre DEF Queries
  <2>3. QED
    BY <2>1, <2>2
<1>2. TestsOf(a) = 1 .. m
  BY DEF TestsOf
<1> HIDE DEF m
<1>3. Cardinality(1 .. m) = IF 1 > m THEN 0 ELSE m - 1 + 1
  BY <1>1, FS_Interval
<1>4. Cardinality(1 .. m) = m
  BY <1>1, <1>3
<1>5. QED
  BY <1>1, <1>2, <1>4

\* A listed problem is whole when nothing changes the problem set.
LEMMA ListedIsWhole ==
    ASSUME TypeOK, Control, LinesOwn, Ascending, Orderly, InTurn, Good,
           \A q \in Changing : pc[q] \in Ended \cup {"idle"},
           NEW k \in DOMAIN content[list], NEW i, NEW a, content[list][k].id = i,
           content[list][k].by = a
    PROVE  /\ i \in Number /\ Whole(i, a) /\ (a # "shipped" => a \in Req /\ query[a].op = "upload")
           /\ testdata[i] # None
           /\ \E m \in 0 .. MaxCases : TestsOf(a) = 1 .. m /\ Cardinality(TestsOf(a)) = m
<1>1. Sorted(content[list])
  BY DEF Ascending, Sorted
<1>2. /\ i \in Number /\ a \in Author
      /\ a # "shipped" => /\ a \in Changing /\ a \in Req /\ query[a].op = "upload"
                          /\ pc[a] \notin {"idle", "refused"}
  BY <1>1, LineId DEF Changing
<1>3. a # "shipped" => pc[a] = "done"
  BY <1>2 DEF Orderly, Arrived, Ended
<1>4. Whole(i, a)
  BY <1>3 DEF Good, Wholes
<1>5. PICK m \in 0 .. MaxCases : TestsOf(a) = 1 .. m /\ Cardinality(TestsOf(a)) = m
  BY <1>2, TestsOfIs
<1>6. testdata[i] # None
  <2>1. (1 .. m) \X {"in", "out"} \in SUBSET TestFile
    BY ProblemsAssumption DEF TestFile
  <2>2. testdata[i] = [f \in (1 .. m) \X {"in", "out"} |-> a]
    BY <1>4, <1>5 DEF Whole
  <2>3. testdata[i] \in [(1 .. m) \X {"in", "out"} -> Author]
    BY <1>2, <2>2
  <2>4. QED
    BY <2>1, <2>3, DirMade, DirIs
<1>7. QED
  BY <1>2, <1>4, <1>5, <1>6

\* Without a line there are no tests.
LEMMA UnlistedIsEmpty ==
    ASSUME Control, Good, NEW i \in Number,
           \A q \in Changing : pc[q] \in Ended \cup {"idle"},
           \A k \in DOMAIN content[list] : content[list][k].id # i
    PROVE  testdata[i] = None
<1>1. ASSUME NEW d \in Req, pc[d] \in Removing
      PROVE  FALSE
  <2>1. d \in Changing
    BY <1>1 DEF Control, Changing
  <2>2. QED
    BY <1>1, <2>1 DEF Removing, Ended
<1>2. QED
  BY <1>1 DEF Good, Placed

LEMMA CountIsRight ==
    ASSUME TypeOK, Control, LinesOwn, Ascending, Orderly, InTurn, Good,
           \A q \in Changing : pc[q] \in Ended \cup {"idle"},
           NEW r \in Req, Count(r)
    PROVE  Judges(r)'
<1> DEFINE i == number[r]
           inputs == IF testdata[i] = None THEN {} ELSE {f \in DOMAIN testdata[i] : f[2] = "in"}
<1>1. /\ pc[r] = "compiling" /\ pc'[r] = "judging" /\ number'[r] = i /\ i \in Number
      /\ n'[r] = 1 /\ total'[r] = (IF inputs = {} THEN 1 ELSE Cardinality(inputs))
      /\ pass'[r] = pass[r] /\ content' = content /\ list' = list /\ query' = query
  BY DEF Count, Go, TypeOK, files, Control
<1> HIDE DEF inputs
<1>2. pass[r] = 0
  BY <1>1 DEF Control
<1>3. ASSUME \A k \in DOMAIN content[list] : content[list][k].id # i
      PROVE  JudgesNone(r)'
  <2>1. inputs = {}
    BY <1>1, <1>3, UnlistedIsEmpty DEF inputs
  <2>2. QED
    BY <1>1, <1>2, <2>1 DEF JudgesNone
<1>4. ASSUME NEW k \in DOMAIN content[list], NEW a, content[list][k].id = i, content[list][k].by = a
      PROVE  JudgesBy(r, a)'
  <2>1. Whole(i, a) /\ testdata[i] # None
    BY <1>4, ListedIsWhole
  <2>2. PICK m \in 0 .. MaxCases : TestsOf(a) = 1 .. m /\ Cardinality(TestsOf(a)) = m
    BY <1>4, ListedIsWhole
  <2>3. inputs = (1 .. m) \X {"in"}
    BY <2>1, <2>2 DEF Whole, inputs
  <2>4. Cardinality(inputs) = m
    <3>1. IsFiniteSet(1 .. m) /\ IsFiniteSet({"in"}) /\ Cardinality({"in"}) = 1
      <4>1. 1 \in Int /\ m \in Int
        BY ProblemsAssumption
      <4>2. IsFiniteSet(1 .. m)
        BY <4>1, FS_Interval
      <4>3. QED
        BY <4>2, FS_Singleton
    <3>2. Cardinality(inputs) = m * 1
      BY <2>2, <2>3, <3>1, FS_Product
    <3>3. QED
      BY <3>2
  <2>5. inputs = {} <=> 1 .. m = {}
    <3>1. ASSUME NEW t \in 1 .. m
          PROVE  <<t, "in">> \in inputs
      BY <2>3
    <3>2. 1 .. m = {} => inputs = {}
      BY <2>3
    <3>3. QED
      BY <3>1, <3>2
  <2>6. TestsOf(a)' = TestsOf(a)
    BY <1>1 DEF TestsOf
  <2>7. total'[r] = IF TestsOf(a) = {} THEN 1 ELSE Cardinality(TestsOf(a))
    BY <1>1, <2>2, <2>4, <2>5
  <2>8. 1 .. n'[r] - 1 = {}
    BY <1>1
  <2>9. QED
    BY <1>1, <1>2, <2>6, <2>7, <2>8 DEF JudgesBy
<1>5. QED
  BY <1>1, <1>3, <1>4 DEF Judges

\* Who has been kept apart so far was so before; and what a test says of him is his own.
LEMMA LoneBefore ==
    ASSUME TypeOK, Control, NEW r \in Req, Step(r), Frame(r), Flow(r), NEW p \in Req, Lone(p)'
    PROVE  Lone(p)
<1> SUFFICES ASSUME pc[p] # "idle", NEW q \in Req \ {p}, query[q].op = "submit",
                    pc[q] \notin {"idle", "refused"}
             PROVE  (q \in before[p] /\ pc[q] # "dead") \/ p \in before[q]
  BY DEF Lone, Arrived
<1>0. pc[q] # "unfound"
  BY DEF Control, Copying
<1>1. query' = query /\ before'[q] = before[q] /\ pc'[q] \notin {"idle", "refused"}
  <2>1. CASE q = r
    BY <1>0, <2>1 DEF Frame
  <2>2. CASE q # r
    BY <2>2 DEF Frame
  <2>3. QED
    BY <2>1, <2>2
<1>2. (q \in before'[p] /\ pc'[q] # "dead") \/ p \in before[q]
  <2>1. pc'[p] # "idle"
    BY DEF Frame
  <2>2. QED
    BY <1>1, <2>1 DEF Lone, Arrived
<1>3. q \in before'[p] /\ pc'[q] # "dead" => q \in before[p] /\ pc[q] # "dead"
  BY TypesAre DEF Frame, RequestTypes, Ended
<1>4. QED
  BY <1>2, <1>3

LEMMA LoneIsOwn ==
    ASSUME Past, NEW r \in Req, pc[r] \notin Ended \cup {"idle"}, Lone(r)
    PROVE  ~Shared(r)
BY DEF Past, Lone, Shared, Arrived

LEMMA JudgesNext ==
    ASSUME TypeOK, Control, LinesOwn, Ascending, Orderly, InTurn, Good,
           \A q \in Changing : pc[q] \in Ended \cup {"idle"},
           Past, NEW r \in Req, Frame(r), Flow(r), Judges(r), ReadInput(r) \/ ReadOutput(r)
    PROVE  Judges(r)'
<1> DEFINE i == number[r]
<1>1. /\ pc[r] \in Judging /\ number'[r] = i /\ i \in Number
      /\ content' = content /\ list' = list /\ query' = query /\ total' = total
  BY DEF ReadInput, ReadOutput, Control, Judging, Frame, files
<1>2. Deletions(i)' = {} => Deletions(i) = {}
  BY <1>1, TypesAre, DeletionsGrow
<1> SUFFICES ASSUME Deletions(i) = {}
             PROVE  /\ (\A k \in DOMAIN content[list] : content[list][k].id # i) => FALSE
                    /\ \A k \in DOMAIN content[list] : content[list][k].id = i =>
                          JudgesBy(r, content[list][k].by)'
  BY <1>1, <1>2 DEF Judges
<1>3. ASSUME \A k \in DOMAIN content[list] : content[list][k].id # i
      PROVE  FALSE
  <2>1. testdata[i] = None /\ pc[r] = "judging"
    BY <1>1, <1>3, UnlistedIsEmpty DEF Judges, JudgesNone
  <2>2. QED
    BY <2>1 DEF ReadInput, ReadOutput, HasFile
<1>4. ASSUME NEW k \in DOMAIN content[list], NEW a, content[list][k].id = i, content[list][k].by = a
      PROVE  JudgesBy(r, a)'
  <2>1. Whole(i, a) /\ JudgesBy(r, a) /\ TestsOf(a)' = TestsOf(a)
    BY <1>1, <1>4, ListedIsWhole DEF Judges, TestsOf
  <2>2. n[r] \in Nat /\ pass[r] \in Nat
    BY ProblemsAssumption DEF TypeOK
  <2>0. Lone(r)' => Lone(r)
    BY LoneBefore DEF Step
  <2>3. CASE ReadInput(r)
    <3>1. /\ pc'[r] = "comparing" /\ n' = n /\ pass' = pass
          /\ HasFile(i, <<n[r], "in">>) /\ got'[r] = testdata[i][<<n[r], "in">>]
      BY <2>3 DEF ReadInput, Go, TypeOK
    <3>2. <<n[r], "in">> \in TestsOf(a) \X {"in", "out"}
      BY <2>1, <3>1 DEF HasFile, Whole
    <3>3. n[r] \in TestsOf(a) /\ got'[r] = a
      BY <2>1, <3>1, <3>2 DEF Whole
    <3>4. QED
      BY <1>1, <2>0, <2>1, <3>1, <3>3 DEF JudgesBy
  <2>4. CASE ReadOutput(r)
    <3>1. /\ pc[r] = "comparing" /\ pc'[r] = "judging" /\ n'[r] = n[r] + 1
          /\ pass'[r] = pass[r] \/ pass'[r] = pass[r] + 1
          /\ pass'[r] # pass[r] /\ ~Shared(r) => <<got[r], n[r]>> \in query[r].solves
      BY <2>4 DEF ReadOutput, Go, TypeOK
    <3>2. n[r] \in TestsOf(a) /\ got[r] = a /\ 1 .. n[r] - 1 \subseteq TestsOf(a) /\ pass[r] < n[r]
      BY <2>1, <3>1 DEF JudgesBy
    <3>3. \A t \in 1 .. n'[r] - 1 : t \in 1 .. n[r] - 1 \/ t = n[r]
      BY <2>2, <3>1
    <3>4. 1 .. n'[r] - 1 \subseteq TestsOf(a)
      BY <3>2, <3>3
    <3>5. pass'[r] < n'[r]
      BY <2>2, <3>1, <3>2
    <3>6. ASSUME Lone(r)', pass'[r] = n'[r] - 1
          PROVE  \A t \in 1 .. n'[r] - 1 : <<a, t>> \in query'[r].solves
      <4>1. pass[r] = n[r] - 1 /\ pass'[r] # pass[r]
        BY <2>2, <3>1, <3>2, <3>6
      <4>2. Lone(r) /\ ~Shared(r)
        BY <2>0, <3>1, <3>6, LoneIsOwn DEF Ended
      <4>3. QED
        BY <1>1, <2>1, <3>1, <3>2, <3>3, <4>1, <4>2 DEF JudgesBy
    <3>7. QED
      BY <1>1, <2>1, <3>1, <3>4, <3>5, <3>6 DEF JudgesBy
  <2>5. QED
    BY <2>3, <2>4
<1>5. QED
  BY <1>1, <1>3, <1>4

\* While a submission is judged, or comes, no change is under way.
LEMMA NoChange ==
    ASSUME RequestTypes, Past, NEW r \in Req, Frame(r), r \notin Changing, Undisturbed',
           NEW q \in Changing
    PROVE  pc[q] \in Ended \cup {"idle"}
<1>1. q \in Req \ {r}
  BY DEF Changing
<1>2. QED
  BY <1>1, Alone

LEMMA JudgedKept ==
    ASSUME TypeOK, Past, Control, Dense, LinesOwn, Ascending, Orderly => Good, Judged,
           NEW r \in Req, Step(r)
    PROVE  Judged'
<1>0. RequestTypes /\ LocalTypes /\ FileTypes /\ Frame(r) /\ Flow(r) /\ Queries /\ query' = query
  <2>1. RequestTypes /\ LocalTypes /\ FileTypes /\ Frame(r) /\ Flow(r) /\ Queries
    BY TypesAre, FrameOf, FlowIs, QueriesAre
  <2>2. QED
    BY <2>1 DEF Frame
<1> SUFFICES ASSUME Undisturbed', NEW q \in Req, pc'[q] \in Judging
             PROVE  Judges(q)'
  <2>1. ASSUME Undisturbed', NEW q \in Req, pc'[q] \notin Judging
        PROVE  Judges(q)'
    BY <2>1 DEF Judges
  <2>2. (Undisturbed => AllJudges)' => Judged'
    BY JudgedIs, PTL
  <2>3. QED
    BY <2>1, <2>2 DEF AllJudges
<1>1. Undisturbed /\ Orderly /\ InTurn /\ Good /\ AllJudges
  <2>1. Undisturbed
    BY <1>0, UndisturbedBefore
  <2>2. Orderly /\ InTurn
    BY <2>1 DEF Undisturbed, Orderly, InTurn
  <2>3. QED
    BY <2>1, <2>2, JudgedIs
<1>2. CASE q # r
  <2>1. /\ pc'[q] = pc[q] /\ number'[q] = number[q] /\ n'[q] = n[q] /\ got'[q] = got[q]
        /\ total'[q] = total[q] /\ pass'[q] = pass[q]
    BY <1>0, <1>2 DEF Frame
  <2>2. r \notin Changing
    BY <1>0, <1>2, <2>1, Alone DEF Judging, Ended
  <2>3. Looks(r)
    BY <2>2, LooksOnly
  <2>4. Judges(q) /\ (Deletions(number[q])' = {} => Deletions(number[q]) = {})
    BY <1>0, <1>1, <2>1, DeletionsGrow DEF AllJudges
  <2>5. content' = content /\ list' = list
    BY <2>3 DEF Looks, files
  <2>6. JudgesNone(q) => JudgesNone(q)'
    BY <2>1 DEF JudgesNone
  <2>0. Lone(q)' => Lone(q)
    BY <1>0, LoneBefore
  <2>7. ASSUME NEW a, JudgesBy(q, a)
        PROVE  JudgesBy(q, a)'
    BY <1>0, <2>0, <2>1, <2>7 DEF JudgesBy, TestsOf
  <2>8. QED
    BY <2>1, <2>4, <2>5, <2>6, <2>7 DEF Judges
<1>3. CASE q = r
  <2>1. r \notin Changing /\ pc'[r] # "dead"
    <3>1. pc[r] \notin Making \cup Copying \cup Removing
      BY <1>0, <1>3 DEF Flow, Making, Copying, Removing, Judging
    <3>2. query[r].op = "submit"
      <4>1. pc[r] \in Judging \cup {"compiling"}
        BY <1>0, <1>3 DEF Flow, Judging
      <4>2. QED
        BY <4>1 DEF Control
    <3>3. QED
      BY <1>3, <3>2 DEF Changing, Judging
  <2>2. \A p \in Changing : pc[p] \in Ended \cup {"idle"}
    BY <1>0, <2>1, NoChange
  <2>3. Count(r) \/ ReadInput(r) \/ ReadOutput(r)
    <3>1. pc[r] \in {"compiling"} \cup Judging
      BY <1>0, <1>3 DEF Flow, Judging
    <3>2. pc'[r] \in Judging => ~CompileError(r) /\ ~Score(r) /\ ~Kill(r)
      BY <1>0 DEF CompileError, Score, Kill, Go, RequestTypes, Judging
    <3>3. QED
      BY <1>0, <1>3, <3>1, <3>2, StepIs DEF Judging
  <2>4. QED
    BY <1>0, <1>1, <1>3, <2>2, <2>3, CountIsRight, JudgesNext DEF AllJudges
<1>4. QED
  BY <1>2, <1>3

\* A line stays as long as nobody wants its number deleted.
LEMMA LineKept ==
    ASSUME TypeOK, Control, Dense, LinesOwn, FilesNew, CopyAtWork, InTurn,
           NEW r \in Req, Step(r), NEW i, Deletions(i)' = {},
           NEW k \in DOMAIN content[list], content[list][k].id = i
    PROVE  \E h \in DOMAIN content'[list'] : content'[list'][h] = content[list][k]
<1>0. RequestTypes /\ LocalTypes /\ FileTypes /\ Frame(r)
  BY TypesAre, FrameOf
<1>1. list \in File /\ content[list] \in Seq(Line) /\ copy # list
  BY <1>0 DEF FileTypes, FilesNew
<1>2. pc[r] \in Copying => query[r].op = "delete" /\ r \in Changing /\ ApartFrom(r, Changing)
  BY DEF Control, Copying, Changing, InTurn, Arrived
<1>3. CASE AppendLine(r)
  <2>1. /\ list' = list /\ content'[list][k] = content[list][k]
        /\ DOMAIN content'[list] = 1 .. Len(content[list]) + 1
        /\ DOMAIN content[list] = 1 .. Len(content[list]) /\ Len(content[list]) \in Nat
    BY <1>3, Appends
  <2>2. k \in DOMAIN content'[list]
    BY <2>1
  <2>3. QED
    BY <2>1, <2>2
<1>4. CASE ReadList(r)
  BY <1>1, <1>4, ReadsList
<1>5. CASE WriteCopy(r)
  <2>1. pc[r] \in Copying
    BY <1>5 DEF WriteCopy, Copying
  <2>2. /\ UNCHANGED list
        /\ \A f \in File \ {copy} : content'[f] = content[f]
    BY <1>2, <1>5, <2>1, WritesCopy
  <2>3. QED
    BY <1>1, <2>2
<1>6. CASE MoveCopy(r)
  <2>1. pc[r] \in Copying /\ pc[r] # "idle"
    BY <1>6 DEF MoveCopy, Copying
  <2>2. content'[list'] = Without(content[list], number[r])
    BY <1>2, <1>6, <2>1, Moves
  <2>3. number[r] # i
    <3>1. number[r] = query[r].number
      BY <1>2, <2>1 DEF Control, Copying
    <3>2. query' = query /\ pc'[r] # "idle"
      BY <1>0 DEF Frame
    <3>3. QED
      BY <1>2, <2>1, <3>1, <3>2 DEF Deletions, Arrived
  <2> DEFINE lines == content[list]
             j == number[r]
  <2>4. lines \in Seq(Line) /\ k \in DOMAIN lines /\ lines[k].id # j
    BY <1>1, <2>3
  <2> HIDE DEF lines, j
  <2>5. \E h \in DOMAIN Without(lines, j) : Without(lines, j)[h] = lines[k]
    BY <2>4, WithoutKeeps
  <2>6. QED
    BY <2>2, <2>5 DEF lines, j
<1>7. CASE Elsewhere(r)
  BY <1>7 DEF Elsewhere
<1>8. QED
  BY <1>3, <1>4, <1>5, <1>6, <1>7, ListSteps

\* The problem of line l is the one that the result is about, and was solved.
SolvedIn(l, result) ==
    /\ l.id = result.number
    /\ TestsOf(l.by) # {}
    /\ \A t \in TestsOf(l.by) : <<l.by, t>> \in query[result.req].solves

EarnedAs(result) ==
    result.pass = result.total /\ Deletions(result.number) = {} /\ Lone(result.req) =>
        \E k \in DOMAIN content[list] : SolvedIn(content[list][k], result)

LEMMA EarnedIs ==
    Earned <=> (Undisturbed => \A s \in DOMAIN submissions : EarnedAs(submissions[s]))
BY DEF Earned, EarnedAs, SolvedIn

LEMMA ScoreIsEarned ==
    ASSUME TypeOK, Control, LinesOwn, Ascending, Orderly, InTurn, Good,
           \A q \in Changing : pc[q] \in Ended \cup {"idle"},
           NEW r \in Req, Score(r), Judges(r)
    PROVE  EarnedAs([user |-> query[r].user, number |-> number[r],
                     pass |-> pass[r], total |-> total[r], req |-> r])
<1> DEFINE i == number[r]
<1> SUFFICES ASSUME pass[r] = total[r], Deletions(i) = {}, Lone(r)
             PROVE  \E k \in DOMAIN content[list] :
                        LET a == content[list][k].by IN
                        /\ content[list][k].id = i
                        /\ TestsOf(a) # {}
                        /\ \A t \in TestsOf(a) : <<a, t>> \in query[r].solves
  BY DEF EarnedAs, SolvedIn
<1>1. pc[r] = "judging"
  BY DEF Score
<1>2. ~(\A k \in DOMAIN content[list] : content[list][k].id # i)
  BY <1>1 DEF Judges, JudgesNone, Judging
<1>3. PICK k \in DOMAIN content[list] : content[list][k].id = i
  BY <1>2
<1> DEFINE a == content[list][k].by
<1>4. JudgesBy(r, a)
  BY <1>1, <1>3 DEF Judges, Judging
<1>5. PICK m \in 0 .. MaxCases : TestsOf(a) = 1 .. m /\ Cardinality(TestsOf(a)) = m
  BY <1>3, ListedIsWhole
<1> HIDE DEF a
<1>6. n[r] \in Nat /\ n[r] # 0 /\ pass[r] \in Nat /\ MaxCases \in Nat
  BY <1>1, ProblemsAssumption DEF TypeOK, Control
<1>7. n[r] - 1 <= m
  <2> DEFINE p == n[r] - 1
  <2>1. p \in Nat
    BY <1>6
  <2>2. 1 .. p \subseteq 1 .. m
    BY <1>4, <1>5 DEF JudgesBy
  <2> HIDE DEF p
  <2>3. p # 0 => p \in 1 .. p
    BY <2>1
  <2>4. p <= m
    BY <1>6, <2>1, <2>2, <2>3
  <2>5. QED
    BY <2>4 DEF p
<1>8. total[r] = (IF 1 .. m = {} THEN 1 ELSE m) /\ pass[r] < n[r]
  BY <1>4, <1>5 DEF JudgesBy
<1>9. m # 0 /\ 1 .. m # {}
  <2>1. m = 0 => 1 .. m = {}
    OBVIOUS
  <2>2. m # 0 => 1 \in 1 .. m
    BY <1>6
  <2>3. m # 0
    BY <1>6, <1>7, <1>8, <2>1
  <2>4. QED
    BY <2>2, <2>3
<1>10. pass[r] = n[r] - 1 /\ n[r] - 1 = m
  BY <1>6, <1>7, <1>8, <1>9
<1>11. \A t \in 1 .. m : <<a, t>> \in query[r].solves
  BY <1>4, <1>10 DEF JudgesBy
<1>12. QED
  BY <1>3, <1>5, <1>9, <1>11 DEF a

LEMMA EarnedKept ==
    ASSUME TypeOK, Past, Control, Dense, LinesOwn, FilesNew, CopyAtWork, Ascending,
           Orderly => Good, Judged, Earned, NEW r \in Req, Step(r)
    PROVE  Earned'
<1>0. RequestTypes /\ LocalTypes /\ FileTypes /\ Frame(r) /\ Flow(r) /\ query' = query
  <2>1. RequestTypes /\ LocalTypes /\ FileTypes /\ Frame(r) /\ Flow(r)
    BY TypesAre, FrameOf, FlowIs
  <2>2. QED
    BY <2>1 DEF Frame
<1> SUFFICES ASSUME Undisturbed'
             PROVE  \A s \in DOMAIN submissions' : EarnedAs(submissions[s])'
  <2>1. (Undisturbed => \A s \in DOMAIN submissions : EarnedAs(submissions[s]))' => Earned'
    BY EarnedIs, PTL
  <2>2. QED
    BY <2>1
<1>1. /\ Orderly /\ InTurn /\ Good /\ AllJudges
      /\ \A s \in DOMAIN submissions : EarnedAs(submissions[s])
  <2>1. Undisturbed
    BY <1>0, UndisturbedBefore
  <2>2. Orderly /\ InTurn
    BY <2>1 DEF Undisturbed, Orderly, InTurn
  <2>3. QED
    BY <2>1, <2>2, JudgedIs, EarnedIs
<1>2. ASSUME NEW result, result.req \in Req, EarnedAs(result)
      PROVE  EarnedAs(result)'
  <2> SUFFICES ASSUME result.pass = result.total, Deletions(result.number)' = {},
                      Lone(result.req)'
               PROVE  \E k \in DOMAIN content'[list'] : SolvedIn(content[list][k], result)'
    BY DEF EarnedAs
  <2>1. Deletions(result.number) = {} /\ Lone(result.req)
    BY <1>0, <1>2, DeletionsGrow, LoneBefore
  <2>2. PICK k \in DOMAIN content[list] : SolvedIn(content[list][k], result)
    BY <1>2, <2>1 DEF EarnedAs
  <2>3. PICK h \in DOMAIN content'[list'] : content'[list'][h] = content[list][k]
    BY <1>1, <2>2, LineKept DEF SolvedIn
  <2>4. ASSUME NEW l, SolvedIn(l, result)
        PROVE  SolvedIn(l, result)'
    BY <1>0, <2>4 DEF SolvedIn, TestsOf
  <2>5. QED
    BY <2>2, <2>3, <2>4
<1>3. CASE submissions' = submissions
  <2>1. \A s \in DOMAIN submissions : submissions[s].req \in Req
    BY <1>0, ResultReq DEF FileTypes
  <2>2. ASSUME NEW s \in DOMAIN submissions', NEW result, result = submissions'[s]
        PROVE  EarnedAs(result) /\ result.req \in Req
    BY <1>1, <1>3, <2>1, <2>2
  <2>3. QED
    BY <1>2, <2>2
<1>4. CASE Score(r)
  <2> DEFINE new == [user |-> query[r].user, number |-> number[r],
                     pass |-> pass[r], total |-> total[r], req |-> r]
             last == Len(submissions) + 1
  <2>1. r \notin Changing
    <3>1. query[r].op = "submit"
      BY <1>4 DEF Score, Control, Judging
    <3>2. QED
      BY <3>1 DEF Changing
  <2>2. \A q \in Changing : pc[q] \in Ended \cup {"idle"}
    BY <1>0, <2>1, NoChange
  <2>3. EarnedAs(new)
    BY <1>1, <1>4, <2>2, ScoreIsEarned DEF AllJudges
  <2> HIDE DEF new
  <2>4. submissions \in Seq(Result) /\ submissions' = Append(submissions, new)
    BY <1>0, <1>4 DEF FileTypes, Score, new
  <2>5. \A s \in DOMAIN submissions' :
          \/ s \in DOMAIN submissions /\ submissions'[s] = submissions[s]
          \/ submissions'[s] = new
    BY <2>4
  <2>6. ASSUME NEW s \in DOMAIN submissions', NEW result, result = submissions'[s]
        PROVE  EarnedAs(result) /\ result.req \in Req
    <3>1. \A k \in DOMAIN submissions : submissions[k].req \in Req
      BY <2>4, ResultReq
    <3>2. new.req = r
      BY DEF new
    <3>3. QED
      BY <1>1, <2>3, <2>5, <2>6, <3>1, <3>2
  <2>7. QED
    BY <1>2, <2>6
<1>5. submissions' = submissions \/ Score(r)
  BY DEF Step, Refuse, ReadLast, AppendLine, MakeDirs, WriteStatement, WriteInput,
         WriteOutput, UploadEnd, ReadList, WriteCopy, RemoveCopy, MoveCopy, OpenDir, RemoveTest,
         RemoveDir, RemoveStatement, Count, ReadInput, ReadOutput, Kill, Compile,
           CompileError, ShowTable
<1>6. QED
  BY <1>3, <1>4, <1>5

---------------------------------------------------------------------------
\* The invariant

LEMMA Begins == Init => IInv
<1> SUFFICES ASSUME Init
             PROVE  IInv
  OBVIOUS
<1> DEFINE lines == [k \in 1 .. Shipped |-> [id |-> 1000 + k, by |-> "shipped"]]
           tests == [f \in (1 .. ShippedCases) \X {"in", "out"} |-> "shipped"]
<1>1. Shipped \in Nat /\ ShippedCases \in 1 .. MaxCases /\ MaxCases \in Nat
      /\ "shipped" # None /\ "shipped" \in Author /\ Cardinality(Req) \in Nat
  BY ProblemsAssumption, FS_CardinalityType DEF Author
<1>2. ShippedNumber \subseteq Number
  BY <1>1 DEF ShippedNumber, Number
<1>3. /\ lines \in Seq(Line) /\ DOMAIN lines = 1 .. Shipped
      /\ \A k \in 1 .. Shipped : lines[k] = [id |-> 1000 + k, by |-> "shipped"]
  <2>1. \A k \in 1 .. Shipped : [id |-> 1000 + k, by |-> "shipped"] \in Line
    BY <1>1 DEF Line
  <2>2. QED
    BY <1>1, <2>1
<1>4. tests \in Dir
  <2>1. (1 .. ShippedCases) \X {"in", "out"} \in SUBSET TestFile
    BY <1>1 DEF TestFile
  <2>2. tests \in [(1 .. ShippedCases) \X {"in", "out"} -> Author]
    BY <1>1
  <2>3. QED
    BY <2>1, <2>2, DirMade
<1> HIDE DEF lines, tests
<1>5. /\ content = [f \in File |-> IF f = "shipped" THEN lines ELSE <<>>]
      /\ list = "shipped" /\ list \in File /\ copy = None
      /\ testdata = [i \in Number |-> IF i \in ShippedNumber THEN tests ELSE None]
      /\ statement = [i \in Number |-> IF i \in ShippedNumber THEN "shipped" ELSE None]
      /\ submissions = <<>> /\ query \in [Req -> Query]
      /\ pc = [r \in Req |-> "idle"] /\ number = [r \in Req |-> 0]
      /\ n = [r \in Req |-> 0] /\ got = [r \in Req |-> "shipped"] /\ total = [r \in Req |-> 1]
      /\ pass = [r \in Req |-> 0] /\ fd = [r \in Req |-> "shipped"]
      /\ text = [r \in Req |-> <<>>] /\ todo = [r \in Req |-> {}] /\ before = [r \in Req |-> {}]
  BY <1>1 DEF Init, lines, tests, File
<1>6. content[list] = lines /\ \A f \in File \ {list} : content[f] = <<>>
  BY <1>5
<1>7. TypeOK
  <2>1. content \in [File -> Seq(Line)]
    BY <1>3, <1>5
  <2>2. testdata \in [Number -> Dir \cup {None}]
    BY <1>4, <1>5
  <2>3. statement \in [Number -> Author \cup {"empty", None}]
    BY <1>1, <1>5
  <2>4. /\ copy \in File \cup {None} /\ submissions \in Seq(Result)
        /\ number \in [Req -> Number \cup {0}] /\ n \in [Req -> 0 .. MaxCases + 1]
        /\ got \in [Req -> Author] /\ total \in [Req -> Nat \ {0}] /\ pass \in [Req -> Nat]
        /\ fd \in [Req -> File] /\ text \in [Req -> Seq(Line)] /\ todo \in [Req -> SUBSET TestFile]
        /\ before \in [Req -> SUBSET Req]
    BY <1>1, <1>5 DEF File
  <2>5. QED
    BY <1>5, <2>1, <2>2, <2>3, <2>4 DEF TypeOK
<1>8. Past /\ Control /\ Dense
  <2>1. Past /\ Control
    BY <1>5 DEF Past, Control, Making, Copying, Removing, Judging
  <2>2. Dense
    BY <1>1, <1>5 DEF Dense
  <2>3. QED
    BY <2>1, <2>2
<1>9. /\ DOMAIN content[list] = 1 .. Shipped
      /\ \A k \in 1 .. Shipped : content[list][k].id = 1000 + k /\ content[list][k].by = "shipped"
  BY <1>3, <1>6
<1>10. LinesOwn
  <2>1. \A k \in 1 .. Shipped : 1000 + k \in ShippedNumber
    BY <1>1 DEF ShippedNumber
  <2>2. \A k \in DOMAIN content[list] : IsLine(content[list][k])
    BY <1>9, <2>1 DEF IsLine
  <2>3. \A f \in File \ {list} : DOMAIN content[f] = {}
    BY <1>6
  <2>4. \A r \in Req : DOMAIN text[r] = {}
    BY <1>5
  <2>5. QED
    BY <2>2, <2>3, <2>4 DEF LinesOwn
<1>11. FilesNew
  <2>1. \A r \in Req : r # "shipped" /\ r # None
    BY ProblemsAssumption DEF Author
  <2>2. copy # list /\ \A q \in Req : fd[q] = "shipped"
    BY <1>1, <1>5
  <2>3. QED
    BY <1>5, <2>1, <2>2 DEF FilesNew
<1>12. CopyAtWork /\ LinesGone /\ TestsGone /\ Judged
  <2>1. CopyAtWork /\ LinesGone
    BY <1>5 DEF CopyAtWork, LinesGone, Copying, Removing
  <2>2. TestsGone
    BY <1>5 DEF TestsGone
  <2>3. Judged
    BY <1>5 DEF Judged, Judging
  <2>4. QED
    BY <2>1, <2>2, <2>3
<1>13. Ascending
  <2>1. \A k \in DOMAIN content[list] : content[list][k].id # None
    <3>1. \A k \in 1 .. Shipped : 1000 + k \in Nat
      BY <1>1
    <3>2. QED
      BY <1>9, <3>1, ProblemsAssumption
  <2>2. \A j, k \in DOMAIN content[list] : j < k => content[list][j].id < content[list][k].id
    <3>1. \A j, k \in 1 .. Shipped : j < k => 1000 + j < 1000 + k
      BY <1>1
    <3>2. QED
      BY <1>9, <3>1
  <2>3. QED
    BY <1>5, <2>1, <2>2 DEF Ascending
<1>14. PlacesFree /\ BeingMade /\ UploadLines /\ WholeLines
  <2>1. Placed
    <3>1. ASSUME NEW i \in ShippedNumber
          PROVE  \E k \in DOMAIN content[list] : content[list][k].id = i
      <4>1. i - 1000 \in 1 .. Shipped /\ 1000 + (i - 1000) = i
        BY <1>1 DEF ShippedNumber
      <4>2. QED
        BY <1>9, <4>1
    <3>2. QED
      BY <1>5, <3>1 DEF Placed
  <2>2. AllMade /\ Stays
    BY <1>5 DEF AllMade, Made, Stays, Listed
  <2>3. Wholes
    <3>1. ASSUME NEW k \in 1 .. Shipped
          PROVE  Whole(1000 + k, "shipped")
      <4>1. 1000 + k \in ShippedNumber
        BY <1>1 DEF ShippedNumber
      <4>2. testdata[1000 + k] = tests /\ statement[1000 + k] = "shipped"
        BY <1>2, <1>5, <4>1
      <4>3. QED
        BY <4>2 DEF Whole, TestsOf, tests
    <3>2. QED
      BY <1>9, <3>1 DEF Wholes
  <2>4. QED
    BY <2>1, <2>2, <2>3, GoodIs DEF Good
<1>15. Earned
  BY <1>5 DEF Earned
<1>16. QED
  BY <1>7, <1>8, <1>10, <1>11, <1>12, <1>13, <1>14, <1>15 DEF IInv

LEMMA Continues == IInv /\ [Next]_vars => IInv'
<1> SUFFICES ASSUME IInv, [Next]_vars
             PROVE  IInv'
  OBVIOUS
<1>1. ASSUME NEW r \in Req, Step(r)
      PROVE  IInv'
  <2>1. /\ TypeOK /\ Past /\ Control /\ Dense /\ LinesOwn /\ FilesNew
        /\ CopyAtWork /\ Ascending /\ LinesGone /\ TestsGone /\ Judged /\ Earned
        /\ RequestTypes /\ LocalTypes /\ Frame(r)
    <3>1. TypeOK
      BY DEF IInv
    <3>2. RequestTypes /\ LocalTypes
      BY <3>1, TypesAre
    <3>3. Frame(r)
      BY <1>1, <3>2, FrameOf
    <3>4. QED
      BY <3>1, <3>2, <3>3 DEF IInv
  <2>2. Orderly => Good
    BY GoodIs DEF IInv
  <2>3. TypeOK'
    <3>1. (RequestTypes /\ LocalTypes /\ FileTypes)'
      BY <1>1, <2>1, RequestTypesKept, LocalTypesKept, FileTypesKept
    <3>2. QED
      BY <3>1, TypesAre, PTL
  <2>4. Past' /\ Control' /\ Dense' /\ LinesOwn' /\ FilesNew'
    BY <1>1, <2>1, PastKept, ControlKept, DenseKept, LinesOwnKept, FilesNewKept
  <2>5. CopyAtWork' /\ Ascending' /\ LinesGone' /\ TestsGone'
    BY <1>1, <2>1, CopyAtWorkKept, AscendingKept, LinesGoneKept, TestsGoneKept
  <2>6. (PlacesFree /\ BeingMade /\ UploadLines /\ WholeLines)'
    <3>1. Orderly' => Good'
      BY <1>1, <2>1, <2>2, GoodKept
    <3>2. QED
      BY <3>1, GoodIs, PTL
  <2>7. Judged' /\ Earned'
    BY <1>1, <2>1, <2>2, JudgedKept, EarnedKept
  <2>8. QED
    BY <2>3, <2>4, <2>5, <2>6, <2>7 DEF IInv
<1>2. CASE UNCHANGED vars
  <2> USE <1>2 DEF vars, files, dirs, local, score
  <2>1. TypeOK' /\ Past' /\ Control' /\ Dense'
    BY DEF IInv, TypeOK, Past, Control, Dense
  <2>2. LinesOwn' /\ FilesNew'
    BY DEF IInv, LinesOwn, IsLine, FilesNew
  <2>3. /\ Orderly' <=> Orderly
        /\ InTurn' <=> InTurn
        /\ Undisturbed' <=> Undisturbed
        /\ Changing' = Changing
        /\ \A r : ApartFrom(r, Changing)' <=> ApartFrom(r, Changing)
        /\ \A i : Deletions(i)' = Deletions(i)
        /\ \A a : TestsOf(a)' = TestsOf(a)
        /\ \A r : Lone(r)' <=> Lone(r)
    BY DEF Undisturbed, Orderly, InTurn, ApartFrom, Apart, Arrived, Changing, Deletions, TestsOf,
       Lone
  <2>4. CopyAtWork' /\ Ascending'
    BY <2>3 DEF IInv, CopyAtWork, Ascending
  <2>5. LinesGone' /\ TestsGone'
    BY <2>3 DEF IInv, LinesGone, NoOldLine, IsOld, Live, TestsGone
  <2>6. PlacesFree'
    BY <2>3 DEF IInv, PlacesFree
  <2>7. BeingMade'
    BY <2>3 DEF IInv, BeingMade
  <2>8. UploadLines'
    BY <2>3 DEF IInv, UploadLines
  <2>9. WholeLines'
    BY <2>3 DEF IInv, WholeLines, Whole
  <2>10. Judged'
    BY <2>3 DEF IInv, Judged
  <2>11. Earned'
    BY <2>3 DEF IInv, Earned
  <2>12. QED
    BY <2>1, <2>2, <2>4, <2>5, <2>6, <2>7, <2>8, <2>9, <2>10, <2>11 DEF IInv
<1>3. QED
  BY <1>1, <1>2 DEF Next

\* The inductive invariant holds for any requests, in any number, whatever they overlap with
\* and wherever they are killed.
THEOREM ProblemsInvariance == Spec => []IInv
<1>1. QED
  BY Begins, Continues, PTL DEF Spec

---------------------------------------------------------------------------
\* What an administrator was told

LEMMA UploadsStay == IInv => UploadStays
<1> SUFFICES ASSUME IInv, Orderly, NEW r \in Changing, query[r].op = "upload", pc[r] = "done",
                    \A q \in Deletions(number[r]) : q \in before[r]
             PROVE  /\ \E k \in DOMAIN content[list] :
                          content[list][k] = [id |-> number[r], by |-> r]
                    /\ Whole(number[r], r)
  BY DEF UploadStays
<1>1. Good /\ r \in Req /\ r # "shipped"
  BY GoodIs, ProblemsAssumption DEF IInv, Changing
<1>2. PICK k \in DOMAIN content[list] : content[list][k] = [id |-> number[r], by |-> r]
  BY <1>1 DEF Good, Stays, Listed
<1>3. content[list][k].id = number[r] /\ content[list][k].by = r
  BY <1>2
<1>4. Whole(number[r], r)
  BY <1>1, <1>3 DEF Good, Wholes
<1>5. QED
  BY <1>2, <1>4

LEMMA DeletedAreGone == IInv => DeletedIsGone
<1> SUFFICES ASSUME IInv, NEW r \in Req, query[r].op = "delete", pc[r] = "done",
                    ApartFrom(r, Changing)
             PROVE  LET i == number[r]
                        old == before[r] \cup {"shipped"}
                    IN /\ \A k \in DOMAIN content[list] :
                             content[list][k].id = i => content[list][k].by \notin old
                       /\ testdata[i] # None =>
                             \A f \in DOMAIN testdata[i] : testdata[i][f] \notin old
                       /\ statement[i] \notin old
  BY DEF DeletedIsGone
<1>1. NoOldLine(r)
  BY DEF IInv, LinesGone
<1>2. list \in Live
  BY ProblemsAssumption DEF IInv, TypeOK, Live, File
<1>3. \A k \in DOMAIN content[list] : ~IsOld(content[list][k], r)
  BY <1>1, <1>2 DEF NoOldLine
<1>4. NoOldTest(r)
  BY DEF IInv, TestsGone, NoOldTest
<1>5. QED
  BY <1>3, <1>4 DEF IsOld, NoOldTest

LEMMA MarksAreEarned == IInv => MarkIsEarned
<1> SUFFICES ASSUME IInv, Orderly, \A r \in Req : Arrived(r) => ApartFrom(r, Changing),
                    NEW k \in DOMAIN content[list], NEW u \in User,
                    Mark(content[list][k].id, u), Deletions(content[list][k].id) = {},
                    \A s \in DOMAIN submissions :
                       submissions[s].user = u /\ submissions[s].number = content[list][k].id =>
                          Lone(submissions[s].req)
             PROVE  \E s \in DOMAIN submissions :
                        /\ submissions[s].user = u
                        /\ submissions[s].number = content[list][k].id
                        /\ TestsOf(content[list][k].by) # {}
                        /\ \A t \in TestsOf(content[list][k].by) :
                              <<content[list][k].by, t>> \in query[submissions[s].req].solves
  BY DEF MarkIsEarned
<1>1. PICK s \in DOMAIN submissions :
          /\ submissions[s].number = content[list][k].id /\ submissions[s].user = u
          /\ submissions[s].pass = submissions[s].total
  BY DEF Mark
<1>2. EarnedAs(submissions[s])
  BY <1>1, EarnedIs DEF IInv, Undisturbed
<1>3. PICK h \in DOMAIN content[list] : SolvedIn(content[list][h], submissions[s])
  BY <1>1, <1>2 DEF EarnedAs
<1>4. h = k
  <2>1. NumbersUnique
    BY UniqueIs DEF IInv
  <2>2. \A r \in Changing : Arrived(r) => ApartFrom(r, Changing)
    BY DEF Changing
  <2>3. content[list][h].id = content[list][k].id
    BY <1>1, <1>3 DEF SolvedIn
  <2>4. QED
    BY <2>1, <2>2, <2>3 DEF NumbersUnique
<1>5. QED
  BY <1>1, <1>3, <1>4 DEF SolvedIn

\* NumbersUnique: as long as changes come one by one, killed or not, two problems never have
\* the same number, however many are uploaded and deleted (upload.c).
THEOREM NumbersTheorem == Spec => []NumbersUnique
<1>1. IInv => NumbersUnique
  BY UniqueIs DEF IInv
<1>2. QED
  BY <1>1, ProblemsInvariance, PTL

\* ProblemsLast: what a confirmed upload made stays as it is until the problem is deleted, and
\* nothing of a problem comes back after a confirmed deletion, although both are many steps
\* without a lock, of many requests (upload.c, delete_problem.c).
THEOREM ProblemsTheorem == Spec => []ProblemsLast
<1>1. IInv => ProblemsLast
  BY UploadsStay, DeletedAreGone DEF ProblemsLast
<1>2. QED
  BY <1>1, ProblemsInvariance, PTL

\* MarkIsEarned: a problem is marked AC for somebody whose submissions to it were kept apart
\* from all others only if a program of his passes all its tests, for any number of tests, of
\* submissions, and of others' submissions that overlap or are killed (judge.c,
\* list_problems.c).
THEOREM MarkTheorem == Spec => []MarkIsEarned
<1>1. IInv => MarkIsEarned
  BY MarksAreEarned
<1>2. QED
  BY <1>1, ProblemsInvariance, PTL
===============================================================================
