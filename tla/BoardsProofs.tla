----------------------------- MODULE BoardsProofs -----------------------------
(***************************************************************************)
(* Proofs about what users see of each other: that the announcement is the *)
(* one that was saved last (AnnouncementTheorem), that messages arrive     *)
(* (MessageTheorem), that what an author was told about a post lasts       *)
(* (PostsTheorem), that a page shows text and title of one post            *)
(* (ShownTheorem), and that a ranking shows everybody it should, with      *)
(* numbers that were right (RankingTheorem).                               *)
(***************************************************************************)
EXTENDS Boards, ListsProofs

\* What a step of one request is for the processes.
Moves(r) ==
    /\ query' = query
    /\ \A q \in Req : q # r => pc'[q] = pc[q] /\ before'[q] = before[q]
    /\ pc[r] \in Ended => pc'[r] = pc[r]
    /\ pc'[r] = "idle" => pc[r] = "idle"
    /\ pc'[r] = "refused" => pc[r] \in {"idle", "refused"}
    /\ before'[r] = IF pc[r] = "idle" /\ pc'[r] # "idle"
                    THEN {q \in Req : pc[q] \in Finished} ELSE before[r]

LEMMA Comes ==
    ASSUME ProcessTypeOK, NEW r \in Req, NEW op, Arrive(r, op),
           NEW where \in Ended \cup {"numbered", "sed", "found", "addressed", "saving", "count"},
           Go(r, where)
    PROVE  ProcessTypeOK' /\ Moves(r)
<1>1. ProcessTypeOK'
  BY DEF ProcessTypeOK, Arrive, Go, Finished
<1>2. /\ pc[r] = "idle" /\ pc'[r] = where /\ query' = query
      /\ before'[r] = {q \in Req : pc[q] \in Finished}
      /\ \A q \in Req : q # r => pc'[q] = pc[q] /\ before'[q] = before[q]
  BY DEF ProcessTypeOK, Arrive, Go
<1>3. QED
  BY <1>1, <1>2 DEF Moves, Ended, Finished

LEMMA GoesOn ==
    ASSUME ProcessTypeOK, NEW r \in Req, NEW from, At(r, from),
           from \notin Ended \cup {"idle"},
           NEW where \in {"opened", "written", "count", "accepted", "done", "dead"},
           Go(r, where)
    PROVE  ProcessTypeOK' /\ Moves(r)
BY DEF ProcessTypeOK, At, Go, Moves, Ended, Finished

LEMMA MovesAndTypes ==
    ASSUME ProcessTypeOK, NEW r \in Req,
           \/ PostStep(r) \/ MessageStep(r) \/ AnnouncementStep(r)
           \/ ScoreStep(r) \/ FormStep(r) \/ Refuse(r) \/ Kill(r)
    PROVE  ProcessTypeOK' /\ Moves(r)
<1> USE DEF Ended, Finished
<1>1. CASE PostStep(r)
  <2>1. CASE SedRename(r)
    BY <2>1 DEF SedRename, ProcessTypeOK, Moves, process
  <2>2. CASE ReadMax(r)
    BY <2>2, Comes DEF ReadMax
  <2>3. CASE SedRead(r)
    BY <2>3, Comes DEF SedRead
  <2>4. CASE FindLine(r)
    <3>1. Go(r, "done") \/ Go(r, "found")
      BY <2>4 DEF FindLine
    <3>2. QED
      BY <2>4, <3>1, Comes DEF FindLine
  <2>5. CASE OpenText(r)
    BY <2>5, GoesOn DEF OpenText
  <2>6. CASE WriteText(r)
    BY <2>6, GoesOn DEF WriteText
  <2>7. CASE AppendPost(r) \/ RemoveText(r) \/ ReadText(r)
    BY <2>7, GoesOn DEF AppendPost, RemoveText, ReadText
  <2>8. QED
    BY <1>1, <2>1, <2>2, <2>3, <2>4, <2>5, <2>6, <2>7 DEF PostStep
<1>2. CASE MessageStep(r)
  <2>1. CASE RefuseMessage(r) \/ NextMessageId(r)
    BY <2>1, Comes DEF RefuseMessage, NextMessageId
  <2>2. CASE AppendMessage(r)
    BY <2>2, GoesOn DEF AppendMessage
  <2>3. QED
    BY <1>2, <2>1, <2>2 DEF MessageStep
<1>3. CASE AnnouncementStep(r)
  <2>1. CASE RefuseAnnouncement(r) \/ OpenAnnouncement(r)
    BY <2>1, Comes DEF RefuseAnnouncement, OpenAnnouncement
  <2>2. CASE WriteAnnouncement(r)
    BY <2>2, GoesOn DEF WriteAnnouncement
  <2>3. QED
    BY <1>3, <2>1, <2>2 DEF AnnouncementStep
<1>4. CASE ScoreStep(r)
  <2>1. CASE AppendScore(r)
    BY <2>1, Comes DEF AppendScore
  <2>2. CASE BeginPage(r)
    BY <2>2, Comes DEF BeginPage
  <2>3. CASE CountSubmissions(r)
    BY <2>3, GoesOn DEF CountSubmissions
  <2>4. CASE CountAccepted(r)
    <3>1. Go(r, "done") \/ Go(r, "count")
      BY <2>4 DEF CountAccepted
    <3>2. QED
      BY <2>4, <3>1, GoesOn DEF CountAccepted
  <2>5. QED
    BY <1>4, <2>1, <2>2, <2>3, <2>4 DEF ScoreStep
<1>5. CASE FormStep(r)
  <2>1. Arrive(r, query[r].op) /\ Go(r, "done")
    BY <1>5 DEF FormStep, Register, LogIn, Unregister, Appoint, Answer, Arrive
  <2>2. QED
    BY <2>1, Comes
<1>6. CASE Refuse(r)
  BY <1>6, Comes DEF Refuse
<1>7. CASE Kill(r)
  BY <1>7 DEF Kill, Go, ProcessTypeOK, Moves
<1>8. QED
  BY <1>1, <1>2, <1>3, <1>4, <1>5, <1>6, <1>7

LEMMA PastKept ==
    ASSUME ProcessTypeOK, Past, NEW r \in Req, Moves(r)
    PROVE  Past'
BY DEF ProcessTypeOK, Past, Moves, Ended, Finished

\* A request that has come, and one that had come before.
LEMMA Comers ==
    ASSUME ProcessTypeOK, NEW r \in Req, Moves(r), NEW ops
    PROVE  /\ \A q \in Those(ops) : (q \in Those(ops))' /\ before'[q] = before[q]
           /\ \A q \in Req : (q \in Those(ops))' /\ q \notin Those(ops) =>
                 q = r /\ pc[r] = "idle" /\ before'[r] = {p \in Req : pc[p] \in Finished}
BY DEF ProcessTypeOK, Moves, Ended, Finished, Those

\* Requests that had come one by one before a step too.
LEMMA OneByOneBefore ==
    ASSUME ProcessTypeOK, NEW r \in Req, Moves(r), NEW ops, OneByOne(Those(ops))'
    PROVE  OneByOne(Those(ops))
<1> SUFFICES ASSUME NEW p \in Those(ops), NEW q \in Those(ops), p # q
             PROVE  Apart(p, q)
  BY DEF OneByOne
<1>1. (p \in Those(ops))' /\ (q \in Those(ops))'
      /\ before'[p] = before[p] /\ before'[q] = before[q]
  BY Comers
<1>2. Apart(p, q)'
  BY <1>1 DEF OneByOne
<1>3. QED
  BY <1>1, <1>2 DEF Apart

\* A request that has just come after all others of its kinds.
LEMMA LastComer ==
    ASSUME ProcessTypeOK, Past, NEW r \in Req, Moves(r), NEW ops, pc[r] = "idle",
           (r \in Those(ops))', OneByOne(Those(ops))'
    PROVE  \A q \in Those(ops) : q \in before'[r] /\ pc[q] \in Finished /\ r \notin before[q]
<1> SUFFICES ASSUME NEW q \in Those(ops)
             PROVE  q \in before'[r] /\ pc[q] \in Finished /\ r \notin before[q]
  OBVIOUS
<1>1. (q \in Those(ops))' /\ before'[q] = before[q] /\ q # r /\ q \in Req
  <2>1. q # r /\ q \in Req
    BY DEF Those
  <2>2. QED
    BY <2>1, Comers
<1>2. Apart(q, r)'
  BY <1>1 DEF OneByOne
<1>3. r \notin before[q]
  BY <1>1 DEF Past, Finished
<1>4. q \in before'[r]
  BY <1>1, <1>2, <1>3 DEF Apart
<1>5. pc[q] \in Finished
  <2>1. (r \in Those(ops))' /\ r \notin Those(ops)
    BY DEF Those
  <2>2. before'[r] = {p \in Req : pc[p] \in Finished}
    BY <2>1, Comers
  <2>3. QED
    BY <1>4, <2>2
<1>6. QED
  BY <1>3, <1>4, <1>5

\* A request at work: the others of its kinds had ended when it came.
LEMMA AtWork ==
    ASSUME Past, NEW ops, OneByOne(Those(ops)), NEW r \in Those(ops), pc[r] \notin Finished
    PROVE  \A q \in Those(ops) : q # r => q \in before[r] /\ pc[q] \in Finished
                                          /\ r \notin before[q]
<1> SUFFICES ASSUME NEW q \in Those(ops), q # r
             PROVE  q \in before[r] /\ pc[q] \in Finished /\ r \notin before[q]
  OBVIOUS
<1>1. q \in Req /\ r \in Req
  BY DEF Those
<1>2. r \notin before[q]
  BY <1>1 DEF Past
<1>3. q \in before[r]
  BY <1>1, <1>2 DEF OneByOne, Apart
<1>4. pc[q] \in Finished
  BY <1>1, <1>3 DEF Past
<1>5. QED
  BY <1>2, <1>3, <1>4

---------------------------------------------------------------------------
\* Steps of the other parts

\* Nothing changes for the requests of some kinds.
Still(ops) ==
    /\ query' = query
    /\ \A q \in Req : (q \in Those(ops))' <=> q \in Those(ops)
    /\ \A q \in Those(ops) : pc'[q] = pc[q] /\ before'[q] = before[q]

LEMMA StillIs ==
    ASSUME ProcessTypeOK, NEW r \in Req, Moves(r), NEW ops,
           query[r].op \notin ops \/ pc'[r] = "refused" \/ pc' = pc
    PROVE  Still(ops)
BY DEF ProcessTypeOK, Moves, Still, Those, Ended, Finished

LEMMA StillOneByOne ==
    ASSUME NEW ops, Still(ops)
    PROVE  OneByOne(Those(ops))' <=> OneByOne(Those(ops))
<1>1. Those(ops)' = Those(ops)
  BY DEF Still, Those
<1>2. \A p, q \in Those(ops) : Apart(p, q)' <=> Apart(p, q)
  BY DEF Still, Apart
<1>3. QED
  BY <1>1, <1>2 DEF OneByOne

---------------------------------------------------------------------------
\* What requests ask for

LEMMA Queries ==
    ASSUME ProcessTypeOK, NEW r \in Req
    PROVE  /\ query[r].op = "create" <=> query[r] \in Creation
           /\ query[r].op = "delete" <=> query[r] \in Deletion
           /\ query[r].op = "view" <=> query[r] \in Reading
           /\ query[r].op \in {"delete", "view"} => query[r].number \in Number
           /\ query[r].op = "send" <=> query[r] \in Sending
           /\ query[r].op = "announce" <=> query[r] \in Saving
<1>1. query[r] \in Creation \cup Deletion \cup Reading \cup Sending \cup Saving
                  \cup Judging \cup Ranking \cup Profile
                  \cup Registering \cup LoggingIn \cup Removing \cup Appointing
  BY DEF ProcessTypeOK, Asked
<1>2. query[r] \in Deletion \cup Reading => query[r].number \in Number
  BY DEF ProcessTypeOK, Asked
<1>3. /\ query[r] \in Creation => query[r].op = "create"
      /\ query[r] \in Deletion => query[r].op = "delete"
      /\ query[r] \in Reading => query[r].op = "view"
      /\ query[r] \in Sending => query[r].op = "send"
      /\ query[r] \in Saving => query[r].op = "announce"
      /\ query[r] \in Judging => query[r].op = "submit"
      /\ query[r] \in Ranking => query[r].op = "rank"
      /\ query[r] \in Profile => query[r].op = "profile"
      /\ query[r] \in Registering => query[r].op = "register"
      /\ query[r] \in LoggingIn => query[r].op = "login"
      /\ query[r] \in Removing => query[r].op = "unregister"
      /\ query[r] \in Appointing => query[r].op = "appoint"
  BY DEF Creation, Deletion, Reading, Sending, Saving, Judging, Ranking, Profile,
         Registering, LoggingIn, Removing, Appointing
<1>4. QED
  BY <1>1, <1>2, <1>3

\* Where a request of some kind can be.
LEMMA Whereabouts ==
    ASSUME ProcessTypeOK, Control, NEW r \in Req
    PROVE  /\ pc[r] \in {"numbered", "opened", "written"} => query[r].op = "create"
           /\ pc[r] = "sed" => query[r].op = "delete"
           /\ pc[r] = "found" => query[r].op = "view"
           /\ pc[r] = "addressed" => query[r].op = "send"
           /\ pc[r] = "saving" => query[r].op = "announce"
           /\ pc[r] \in {"count", "accepted"} => query[r].op \in {"rank", "profile"}
BY Queries DEF Control

\* What FindLine finds is a post, and no request for none.
LEMMA PageFound ==
    ASSUME ProcessTypeOK, PostTypeOK, NEW r \in Req, FindLine(r)
    PROVE  /\ \/ pc' = [pc EXCEPT ![r] = "done"] /\ shown' = [shown EXCEPT ![r] = None]
              \/ /\ pc' = [pc EXCEPT ![r] = "found"]
                 /\ \E k \in DOMAIN posts :
                       /\ posts[k].number = query[r].number
                       /\ shown' = [shown EXCEPT ![r] = [post |-> posts[k], text |-> {}]]
           /\ pc'[r] = "found" => shown'[r] # None
<1> DEFINE K == {k \in DOMAIN posts : posts[k].number = query[r].number}
           n == FirstLine(query[r].number)
<1>1. n = IF K # {} THEN Min(K) ELSE 0
  <2>1. K = {k \in 1 .. Len(posts) : posts[k].number = query[r].number}
    BY DEF PostTypeOK
  <2>2. QED
    BY <2>1, Zenon DEF FirstLine, SelectInSeq
<1>2. K # {} => Min(K) \in K
  <2> SUFFICES ASSUME K # {}
               PROVE  Min(K) \in K
    OBVIOUS
  <2>1. K \in SUBSET Nat
    BY DEF PostTypeOK
  <2>2. PICK k \in K : \A j \in K : k <= j
    BY <2>1, LeastOf
  <2>3. QED
    BY <2>2 DEF Min
<1>3. 0 \notin K
  BY DEF PostTypeOK
<1>4. CASE n = 0
  BY <1>1, <1>2, <1>3, <1>4 DEF FindLine, Go, PostTypeOK, ProcessTypeOK
<1>5. CASE n # 0
  <2>1. n \in K
    BY <1>1, <1>2, <1>5
  <2>2. /\ pc' = [pc EXCEPT ![r] = "found"]
        /\ shown' = [shown EXCEPT ![r] = [post |-> posts[n], text |-> {}]]
    BY <1>5 DEF FindLine, Go
  <2>3. [post |-> posts[n], text |-> {}] # None
    <3>1. posts[n] \in Post
      BY <2>1 DEF PostTypeOK
    <3>2. [post |-> posts[n], text |-> {}] \in Shown
      BY <3>1 DEF Shown
    <3>3. QED
      BY <3>2, BoardsAssumption
  <2>4. shown'[r] # None
    BY <2>2, <2>3 DEF PostTypeOK
  <2>5. QED
    BY <2>1, <2>2, <2>4
<1>6. QED
  BY <1>4, <1>5

\* What a step of one request is for the posts, the messages and the announcement.
ForPosts(r) ==
    \/ PostStep(r)
    \/ UNCHANGED postVars /\ (Still({"create", "delete", "view"}) \/ Kill(r))
ForMessages(r) ==
    \/ MessageStep(r)
    \/ UNCHANGED messageVars /\ (Still({"send"}) \/ Kill(r))
ForAnnouncement(r) ==
    \/ AnnouncementStep(r)
    \/ UNCHANGED announcement /\ (Still({"announce"}) \/ Kill(r))

LEMMA StepIs ==
    ASSUME ProcessTypeOK, Control, NEW r \in Req, Step(r)
    PROVE  ProcessTypeOK' /\ Moves(r) /\ ForPosts(r) /\ ForMessages(r) /\ ForAnnouncement(r)
<1>2. ProcessTypeOK' /\ Moves(r)
  BY MovesAndTypes DEF Step
<1> USE DEF ForPosts, ForMessages, ForAnnouncement
<1>3. CASE PostStep(r) /\ UNCHANGED <<messageVars, announcement, scoreVars, formVars>>
  <2>1. pc' = pc \/ query[r].op \in {"create", "delete", "view"}
    BY <1>3, Whereabouts DEF PostStep, ReadMax, OpenText, WriteText, AppendPost, SedRead,
           SedRename, RemoveText, FindLine, ReadText, Arrive, At, process
  <2>2. Still({"send"}) /\ Still({"announce"})
    BY <1>2, <2>1, StillIs
  <2>3. QED
    BY <1>2, <1>3, <2>2
<1>4. CASE MessageStep(r) /\ UNCHANGED <<postVars, announcement, scoreVars, formVars>>
  <2>1. query[r].op = "send"
    BY <1>4, Whereabouts DEF MessageStep, RefuseMessage, NextMessageId, AppendMessage, Arrive, At
  <2>2. Still({"create", "delete", "view"}) /\ Still({"announce"})
    BY <1>2, <2>1, StillIs
  <2>3. QED
    BY <1>2, <1>4, <2>2
<1>5. CASE AnnouncementStep(r) /\ UNCHANGED <<postVars, messageVars, scoreVars, formVars>>
  <2>1. query[r].op = "announce"
    BY <1>5, Whereabouts DEF AnnouncementStep, RefuseAnnouncement, OpenAnnouncement,
                             WriteAnnouncement, Arrive, At
  <2>2. Still({"create", "delete", "view"}) /\ Still({"send"})
    BY <1>2, <2>1, StillIs
  <2>3. QED
    BY <1>2, <1>5, <2>2
<1>6. CASE /\ ScoreStep(r) \/ FormStep(r) \/ Refuse(r)
           /\ UNCHANGED <<postVars, messageVars, announcement>>
  <2>1. \/ pc'[r] = "refused"
        \/ query[r].op \in {"submit", "rank", "profile", "register", "login", "unregister",
                            "appoint"}
    <3>1. CASE ScoreStep(r)
      BY <3>1, Whereabouts DEF ScoreStep, AppendScore, BeginPage, CountSubmissions,
                               CountAccepted, Arrive, At
    <3>2. CASE FormStep(r)
      BY <3>2 DEF FormStep, Register, LogIn, Unregister, Appoint, Arrive
    <3>3. CASE Refuse(r)
      BY <3>3 DEF Refuse, Go, ProcessTypeOK
    <3>4. QED
      BY <1>6, <3>1, <3>2, <3>3
  <2>2. Still({"create", "delete", "view"}) /\ Still({"send"}) /\ Still({"announce"})
    BY <1>2, <2>1, StillIs
  <2>3. QED
    BY <1>2, <1>6, <2>2
<1>7. CASE Kill(r) /\ UNCHANGED <<postVars, messageVars, announcement>>
  BY <1>2, <1>7
<1>8. QED
  BY <1>3, <1>4, <1>5, <1>6, <1>7 DEF Step

---------------------------------------------------------------------------
\* The announcement

LEMMA AnnouncementKept ==
    ASSUME ProcessTypeOK, Past, Control, AnnouncementIsLast, NEW r \in Req, Moves(r),
           ForAnnouncement(r)
    PROVE  AnnouncementIsLast'
<1> SUFFICES ASSUME OneByOne(Savings)', NEW q \in Req, (q \in Savings)',
                    \A s \in Savings' : s # q => s \in before'[q]
             PROVE  announcement' = IF pc'[q] = "done" THEN {q} ELSE {}
  BY DEF AnnouncementIsLast, Savings, Those
<1> USE DEF Savings
<1>1. OneByOne(Savings)
  BY OneByOneBefore
<1>2. \A s \in Savings : (s \in Savings)' /\ before'[s] = before[s]
  BY Comers
<1>3. \A s \in Savings : (\A t \in Savings : t # s => t \in before[s]) =>
          announcement = IF pc[s] = "done" THEN {s} ELSE {}
  BY <1>1 DEF AnnouncementIsLast
<1>4. q \in Savings => announcement = IF pc[q] = "done" THEN {q} ELSE {}
  BY <1>2, <1>3
<1>5. CASE UNCHANGED announcement /\ Still({"announce"})
  BY <1>4, <1>5 DEF Still
<1>6. CASE UNCHANGED announcement /\ Kill(r)
  BY <1>4, <1>6 DEF Kill, Go, ProcessTypeOK, Those, Ended, Finished
<1>7. CASE RefuseAnnouncement(r)
  BY <1>4, <1>7 DEF RefuseAnnouncement, Arrive, Go, ProcessTypeOK, Those
<1>8. CASE OpenAnnouncement(r)
  <2>1. pc[r] = "idle" /\ pc'[r] = "saving" /\ announcement' = {} /\ (r \in Savings)'
    BY <1>8 DEF OpenAnnouncement, Arrive, Go, ProcessTypeOK, Those
  <2>2. \A s \in Savings : r \notin before[s] /\ s # r
    BY <1>1, <2>1, LastComer DEF Those
  <2>3. q = r
    BY <1>2, <2>1, <2>2, Comers
  <2>4. QED
    BY <2>1, <2>3
<1>9. CASE WriteAnnouncement(r)
  <2>1. pc[r] = "saving" /\ pc'[r] = "done" /\ r \in Savings
    BY <1>9, Whereabouts DEF WriteAnnouncement, At, Go, ProcessTypeOK, Those
  <2>2. \A s \in Savings : s # r => s \in before[r] /\ r \notin before[s]
    BY <1>1, <2>1, AtWork DEF Finished
  <2>3. announcement = {}
    BY <1>3, <2>1, <2>2
  <2>4. announcement' = {r}
    BY <1>9, <2>3 DEF WriteAnnouncement
  <2>5. q = r
    BY <1>2, <2>1, <2>2, Comers
  <2>6. QED
    BY <2>1, <2>4, <2>5
<1>10. QED
  BY <1>5, <1>6, <1>7, <1>8, <1>9 DEF ForAnnouncement, AnnouncementStep

---------------------------------------------------------------------------
LEMMA RangeFinite ==
    ASSUME NEW n \in Nat, NEW f \in [1 .. n -> Nat]
    PROVE  IsFiniteSet(Range(f))
<1>1. f \in Surjection(1 .. n, Range(f))
  BY DEF Surjection, Range
<1>2. IsFiniteSet(1 .. n)
  BY FS_Interval
<1>3. QED
  BY <1>1, <1>2, FS_Surjection

\* The next number: larger than all in use, and the next one, so that there are enough.

NextOf(f) == 1 + Max({0} \cup Range(f))

LEMMA NextNumber ==
    ASSUME NEW n \in Nat, NEW f \in [1 .. n -> Nat],
           NEW num \in [Req -> Nat], Dense(num), NEW r \in Req, num[r] = 0,
           \A k \in 1 .. n : \E p \in Req : num[p] = f[k]
    PROVE  /\ NextOf(f) \in 1 .. Cardinality(Req)
           /\ \A k \in 1 .. n : f[k] < NextOf(f)
           /\ \A i \in 1 .. NextOf(f) :
                 i = NextOf(f) \/ \E q \in Req : q # r /\ num[q] = i
<1> DEFINE S == {0} \cup Range(f)
           m == Max(S)
<1>1. IsFiniteSet(S)
  <2>1. IsFiniteSet(Range(f))
    BY RangeFinite
  <2>2. IsFiniteSet({0})
    BY FS_Singleton
  <2>3. QED
    BY <2>1, <2>2, FS_Union
<1>2. /\ S \in SUBSET Int /\ S # {} /\ S \subseteq Nat
      /\ \A k \in 1 .. n : f[k] \in S
      /\ \A x \in S : x = 0 \/ \E k \in 1 .. n : x = f[k]
  BY DEF Range
<1>3. PICK x \in S : \A y \in S : x >= y
  BY <1>1, <1>2, LargestOf
<1>4. m \in S /\ \A y \in S : m >= y
  BY <1>3 DEF Max
<1> HIDE DEF m, S
<1>5. m \in Nat /\ \A k \in 1 .. n : f[k] <= m
  BY <1>2, <1>4
<1>6. PICK p \in Req : num[p] = m
  BY <1>2, <1>4
<1>7. Cardinality(Req) \in Nat /\ m < Cardinality(Req)
  BY <1>6, DenseIsBounded, BoardsAssumption DEF Dense
<1>8. \A i \in 1 .. m : \E q \in Req : q # r /\ num[q] = i
  BY <1>5, <1>6 DEF Dense
<1>9. /\ 1 + m \in 1 .. Cardinality(Req)
      /\ \A k \in 1 .. n : f[k] < 1 + m
      /\ \A i \in 1 .. 1 + m : i = 1 + m \/ \E q \in Req : q # r /\ num[q] = i
  BY <1>5, <1>7, <1>8
<1>10. QED
  BY <1>9 DEF m, S, NextOf

LEMMA MessageNumber ==
    ASSUME ProcessTypeOK, MessageTypeOK, Dense(msgId), MessageLines, NEW r \in Req, NextMessageId(r)
    PROVE  /\ msgId' = [msgId EXCEPT ![r] = msgId'[r]]
           /\ msgId'[r] \in MessageId
           /\ \A k \in DOMAIN messages : messages[k].id < msgId'[r]
           /\ \A n \in 1 .. msgId'[r] : n = msgId'[r] \/ \E q \in Req : q # r /\ msgId[q] = n
<1> DEFINE given == [k \in 1 .. Len(messages) |-> messages[k].id]
           next == NextOf(given)
<1>1. \A k \in 1 .. Len(messages) : messages[k].id \in Nat
  <2>1. \A k \in 1 .. Len(messages) : messages[k] \in Message
    BY DEF MessageTypeOK
  <2>2. QED
    BY <2>1 DEF Message, MessageId
<1>2. msgId' = [msgId EXCEPT ![r] = next]
  <2>1. {messages[k].id : k \in DOMAIN messages} = Range(given)
    BY DEF Range, MessageTypeOK
  <2>2. QED
    BY <2>1 DEF NextMessageId, NextOf
<1>3. msgId \in [Req -> Nat] /\ msgId[r] = 0 /\ msgId'[r] = next
  BY <1>2 DEF NextMessageId, Arrive, MessageTypeOK, MessageId, Dense
<1>4. \A k \in 1 .. Len(messages) : \E p \in Req : msgId[p] = given[k]
  BY DEF MessageTypeOK, MessageLines, Sent, Those
<1>5. Len(messages) \in Nat /\ given \in [1 .. Len(messages) -> Nat]
  BY <1>1 DEF MessageTypeOK
<1> HIDE DEF given
<1>6. /\ next \in 1 .. Cardinality(Req)
      /\ \A k \in 1 .. Len(messages) : given[k] < next
      /\ \A n \in 1 .. next : n = next \/ \E q \in Req : q # r /\ msgId[q] = n
  BY <1>3, <1>4, <1>5, NextNumber
<1> HIDE DEF next
<1>7. \A k \in DOMAIN messages : messages[k].id < next
  BY <1>6 DEF given, MessageTypeOK
<1>8. QED
  BY <1>2, <1>3, <1>6, <1>7 DEF MessageId

LEMMA PostNumber ==
    ASSUME ProcessTypeOK, PostTypeOK, Dense(number), PostLines, NEW r \in Req, ReadMax(r)
    PROVE  /\ number' = [number EXCEPT ![r] = number'[r]]
           /\ number'[r] \in Number
           /\ \A k \in DOMAIN posts : posts[k].number < number'[r]
           /\ \A n \in 1 .. number'[r] : n = number'[r] \/ \E q \in Req : q # r /\ number[q] = n
<1> DEFINE given == [k \in 1 .. Len(posts) |-> posts[k].number]
           next == NextOf(given)
<1>1. \A k \in 1 .. Len(posts) : posts[k].number \in Nat
  <2>1. \A k \in 1 .. Len(posts) : posts[k] \in Post
    BY DEF PostTypeOK
  <2>2. QED
    BY <2>1 DEF Post, Number
<1>2. number' = [number EXCEPT ![r] = next]
  <2>1. {posts[k].number : k \in DOMAIN posts} = Range(given)
    BY DEF Range, PostTypeOK
  <2>2. QED
    BY <2>1 DEF ReadMax, NextOf
<1>3. number \in [Req -> Nat] /\ number[r] = 0 /\ number'[r] = next
  BY <1>2 DEF ReadMax, Arrive, PostTypeOK, Number, Dense
<1>4. \A k \in 1 .. Len(posts) : \E p \in Req : number[p] = given[k]
  BY DEF PostTypeOK, PostLines, IsPost, Creations, Those
<1>5. Len(posts) \in Nat /\ given \in [1 .. Len(posts) -> Nat]
  BY <1>1 DEF PostTypeOK
<1> HIDE DEF given
<1>6. /\ next \in 1 .. Cardinality(Req)
      /\ \A k \in 1 .. Len(posts) : given[k] < next
      /\ \A n \in 1 .. next : n = next \/ \E q \in Req : q # r /\ number[q] = n
  BY <1>3, <1>4, <1>5, NextNumber
<1> HIDE DEF next
<1>7. \A k \in DOMAIN posts : posts[k].number < next
  BY <1>6 DEF given, PostTypeOK
<1>8. QED
  BY <1>2, <1>3, <1>6, <1>7 DEF Number

---------------------------------------------------------------------------
\* What requests under way ask for, and their numbers

LEMMA OthersKeep ==
    ASSUME PostTypeOK, MessageTypeOK, NEW r \in Req, ForPosts(r), ForMessages(r),
           NEW q \in Req, q # r
    PROVE  shown'[q] = shown[q] /\ number'[q] = number[q] /\ msgId'[q] = msgId[q]
<1>1. shown'[q] = shown[q] /\ number'[q] = number[q]
  BY DEF ForPosts, PostStep, ReadMax, OpenText, WriteText, AppendPost, SedRead, SedRename,
         RemoveText, FindLine, ReadText, PostTypeOK, postLocal, postVars
<1>2. msgId'[q] = msgId[q]
  BY DEF ForMessages, MessageStep, RefuseMessage, NextMessageId, AppendMessage,
         MessageTypeOK, messageVars
<1>3. QED
  BY <1>1, <1>2

LEMMA ControlKept ==
    ASSUME ProcessTypeOK, Control, PostTypeOK, Dense(number), PostLines,
           MessageTypeOK, Dense(msgId), MessageLines, NEW r \in Req, Step(r)
    PROVE  Control'
<1> SUFFICES ASSUME NEW q \in Req
             PROVE  /\ pc'[q] \in {"numbered", "opened", "written"} =>
                          query'[q] \in Creation /\ number'[q] # 0
                    /\ pc'[q] = "sed" => query'[q] \in Deletion
                    /\ pc'[q] = "found" => query'[q] \in Reading /\ shown'[q] # None
                    /\ pc'[q] = "addressed" =>
                          query'[q] \in Sending /\ query'[q].to \in Account /\ msgId'[q] # 0
                    /\ pc'[q] = "saving" => query'[q] \in Saving
                    /\ pc'[q] \in {"count", "accepted"} =>
                          query'[q].op \in {"rank", "profile"}
  BY DEF Control
<1>1. Moves(r) /\ ForPosts(r) /\ ForMessages(r) /\ ForAnnouncement(r)
  BY StepIs
<1>2. query' = query
  BY <1>1 DEF Moves
<1>3. /\ query[q] \in Creation <=> query[q].op = "create"
      /\ query[q] \in Deletion <=> query[q].op = "delete"
      /\ query[q] \in Reading <=> query[q].op = "view"
      /\ query[q] \in Sending <=> query[q].op = "send"
      /\ query[q] \in Saving <=> query[q].op = "announce"
  BY Queries
<1>4. CASE q # r
  <2>1. pc'[q] = pc[q]
    BY <1>1, <1>4 DEF Moves
  <2>2. shown'[q] = shown[q] /\ number'[q] = number[q] /\ msgId'[q] = msgId[q]
    BY <1>1, <1>4, OthersKeep
  <2>3. QED
    BY <1>2, <2>1, <2>2 DEF Control
<1> USE DEF Go, Arrive, At, ProcessTypeOK, Ended, Finished
<1>5. CASE q = r /\ PostStep(r) /\ UNCHANGED messageVars
  <2>1. CASE ReadMax(r)
    <3>1. number'[r] # 0
      BY <2>1, PostNumber DEF Number
    <3>2. QED
      BY <2>1, <3>1, <1>2, <1>3, <1>5 DEF ReadMax
  <2>2. CASE OpenText(r) \/ WriteText(r) \/ AppendPost(r) \/ RemoveText(r) \/ ReadText(r)
    BY <2>2, <1>2, <1>5 DEF OpenText, WriteText, AppendPost, RemoveText, ReadText,
                            postLocal, Control
  <2>3. CASE SedRead(r)
    BY <2>3, <1>2, <1>3, <1>5 DEF SedRead
  <2>4. CASE SedRename(r)
    BY <2>4, <1>2, <1>5 DEF SedRename, process, messageVars, Control
  <2>5. CASE FindLine(r)
    BY <2>5, <1>2, <1>3, <1>5, PageFound DEF FindLine
  <2>6. QED
    BY <1>5, <2>1, <2>2, <2>3, <2>4, <2>5 DEF PostStep
<1>6. CASE q = r /\ MessageStep(r)
  <2>1. CASE RefuseMessage(r)
    BY <2>1, <1>6 DEF RefuseMessage
  <2>2. CASE NextMessageId(r)
    <3>1. msgId'[r] # 0
      BY <2>2, MessageNumber DEF MessageId
    <3>2. QED
      BY <2>2, <3>1, <1>2, <1>3, <1>6 DEF NextMessageId
  <2>3. CASE AppendMessage(r)
    BY <2>3, <1>6 DEF AppendMessage
  <2>4. QED
    BY <1>6, <2>1, <2>2, <2>3 DEF MessageStep
<1>7. CASE q = r /\ AnnouncementStep(r)
  BY <1>2, <1>3, <1>7 DEF AnnouncementStep, RefuseAnnouncement, OpenAnnouncement,
                          WriteAnnouncement
<1>8. CASE q = r /\ ScoreStep(r)
  BY <1>2, <1>8 DEF ScoreStep, AppendScore, BeginPage, CountSubmissions, CountAccepted, Control
<1>9. CASE q = r /\ FormStep(r)
  <2>1. Go(r, "done")
    BY <1>9 DEF FormStep, Register, LogIn, Unregister, Appoint, Answer
  <2>2. QED
    BY <2>1, <1>9
<1>10. CASE q = r /\ (Refuse(r) \/ Kill(r))
  BY <1>10 DEF Refuse, Kill
<1>11. QED
  BY <1>4, <1>5, <1>6, <1>7, <1>8, <1>9, <1>10 DEF Step

---------------------------------------------------------------------------
\* Messages

\* The invariant of the messages, for which `sent' are those who have sent.
MessageInv == MessageTypeOK /\ Dense(msgId) /\ MessageLines /\ MessageOrder

\* A step that neither begins nor ends the sending of a message.
LEMMA MessagesAside ==
    ASSUME ProcessTypeOK, Control, ProcessTypeOK', Control', MessageInv, NEW r \in Req, Moves(r),
           UNCHANGED messageVars, Still({"send"}) \/ Kill(r)
    PROVE  MessageInv'
<1> USE DEF MessageInv, messageVars
<1>1. query' = query /\ Sent' = Sent
  <2>1. query' = query /\ \A q \in Req : (q \in Sent)' <=> q \in Sent
    <3>1. CASE Still({"send"})
      BY <3>1 DEF Still, Sent
    <3>2. CASE Kill(r)
      BY <3>2 DEF Kill, Go, Sent, Those, ProcessTypeOK, Ended, Finished
    <3>3. QED
      BY <3>1, <3>2
  <2>2. QED
    BY <2>1 DEF Sent, Those
<1>2. \A q \in Req : pc'[q] = "addressed" => pc[q] = "addressed"
  <2>1. CASE Still({"send"})
    <3>1. ASSUME NEW q \in Req, pc'[q] = "addressed"
          PROVE  pc[q] = "addressed"
      <4>1. query'[q].op = "send"
        BY <3>1 DEF Control, Sending
      <4>2. (q \in Those({"send"}))'
        BY <3>1, <4>1 DEF Those
      <4>3. QED
        BY <2>1, <3>1, <4>2 DEF Still
    <3>2. QED
      BY <3>1
  <2>2. CASE Kill(r)
    BY <2>2 DEF Kill, Go, ProcessTypeOK
  <2>3. QED
    BY <2>1, <2>2
<1>3. MessageTypeOK'
  BY DEF MessageTypeOK
<1>4. Dense(msgId)'
  BY DEF Dense, Moves
<1>5. MessageLines'
  BY <1>1 DEF MessageLines
<1>6. MessageOrder'
  BY <1>2, OneByOneBefore DEF MessageOrder
<1>7. QED
  BY <1>3, <1>4, <1>5, <1>6

LEMMA MessageNumbered ==
    ASSUME ProcessTypeOK, Control, ProcessTypeOK', MessageInv, NEW r \in Req, Moves(r),
           NextMessageId(r)
    PROVE  MessageInv'
<1> USE DEF MessageInv
<1>1. /\ msgId' = [msgId EXCEPT ![r] = msgId'[r]]
      /\ msgId'[r] \in MessageId
      /\ \A k \in DOMAIN messages : messages[k].id < msgId'[r]
      /\ \A n \in 1 .. msgId'[r] : n = msgId'[r] \/ \E q \in Req : q # r /\ msgId[q] = n
  BY MessageNumber
<1>2. /\ pc[r] = "idle" /\ pc' = [pc EXCEPT ![r] = "addressed"] /\ query' = query
      /\ messages' = messages
  BY DEF NextMessageId, Arrive, Go
<1>3. MessageTypeOK'
  BY <1>1, <1>2 DEF MessageTypeOK
<1>4. Dense(msgId)'
  <2>1. \A q \in Req : q # r => msgId'[q] = msgId[q]
    BY <1>1 DEF MessageTypeOK
  <2>2. msgId[r] = 0
    BY <1>2 DEF Dense
  <2>3. ASSUME NEW q \in Req, q # r, NEW n \in 1 .. msgId[q]
        PROVE  \E p \in Req : msgId'[p] = n
    <3>1. PICK p \in Req : msgId[p] = n
      BY DEF Dense
    <3>2. p # r
      BY <2>2, <3>1, <2>3 DEF MessageTypeOK, MessageId
    <3>3. QED
      BY <2>1, <3>1, <3>2
  <2>4. \A n \in 1 .. msgId'[r] : \E p \in Req : msgId'[p] = n
    BY <1>1, <2>1
  <2>5. \A q \in Req : pc'[q] = "idle" => msgId'[q] = 0
    BY <1>2, <2>1 DEF Dense, ProcessTypeOK
  <2>6. QED
    BY <2>1, <2>3, <2>4, <2>5 DEF Dense
<1>5. MessageLines'
  <2>1. Sent' = Sent /\ r \notin Sent
    BY <1>2 DEF Sent, Those, ProcessTypeOK
  <2>2. \A q \in Sent : msgId'[q] = msgId[q]
    BY <1>1, <2>1 DEF MessageTypeOK, Sent, Those
  <2>3. QED
    BY <1>2, <2>1, <2>2 DEF MessageLines
<1>6. MessageOrder'
  <2>1. SUFFICES ASSUME OneByOne(Those({"send"}))'
                 PROVE  /\ \A j, k \in DOMAIN messages : j < k => messages[j].id < messages[k].id
                        /\ \A q \in Req : pc'[q] = "addressed" =>
                              \A k \in DOMAIN messages : messages[k].id < msgId'[q]
    BY <1>2 DEF MessageOrder
  <2>2. OneByOne(Those({"send"}))
    BY <2>1, OneByOneBefore
  <2>3. QED
    BY <1>1, <1>2, <2>2 DEF MessageOrder, ProcessTypeOK, MessageTypeOK
<1>7. QED
  BY <1>3, <1>4, <1>5, <1>6

LEMMA MessageAppended ==
    ASSUME ProcessTypeOK, Past, Control, ProcessTypeOK', MessageInv, NEW r \in Req, Moves(r),
           AppendMessage(r)
    PROVE  MessageInv'
<1> DEFINE l == [id |-> msgId[r], from |-> query[r].user, to |-> query[r].to,
                 content |-> query[r].content, req |-> r]
           n == Len(messages) + 1
<1> USE DEF MessageInv
<1>1. /\ pc[r] = "addressed" /\ pc' = [pc EXCEPT ![r] = "done"] /\ query' = query
      /\ before' = before /\ messages' = Append(messages, l) /\ msgId' = msgId
  BY DEF AppendMessage, At, Go
<1>2. l \in Message
  BY <1>1 DEF Control, Sending, MessageTypeOK, Message
<1>3. /\ messages' \in Seq(Message) /\ DOMAIN messages' = DOMAIN messages \cup {n}
      /\ n \notin DOMAIN messages /\ messages'[n] = l
      /\ \A k \in DOMAIN messages : messages'[k] = messages[k] /\ k < n
  BY <1>1, <1>2 DEF MessageTypeOK
<1> HIDE DEF n
<1>4. MessageTypeOK'
  BY <1>1, <1>3 DEF MessageTypeOK
<1>5. Dense(msgId)'
  BY <1>1 DEF Dense, ProcessTypeOK
<1>6. query[r].op = "send"
  BY <1>1, Whereabouts
<1>7. Sent' = Sent \cup {r} /\ r \notin Sent /\ r \in Those({"send"})
  BY <1>1, <1>6 DEF Sent, Those, ProcessTypeOK
<1>8. MessageLines'
  <2>1. l.req = r /\ l.from = query[r].user /\ l.to = query[r].to
        /\ l.content = query[r].content /\ l.id = msgId[r]
    OBVIOUS
  <2> HIDE DEF l
  <2>2. ASSUME NEW k \in DOMAIN messages'
        PROVE  /\ messages'[k].req \in Sent'
               /\ messages'[k].from = query'[messages'[k].req].user
               /\ messages'[k].to = query'[messages'[k].req].to
               /\ messages'[k].content = query'[messages'[k].req].content
               /\ messages'[k].id = msgId'[messages'[k].req]
    <3>1. CASE k = n
      BY <1>1, <1>3, <1>7, <2>1, <3>1
    <3>2. CASE k \in DOMAIN messages
      BY <1>1, <1>3, <1>7, <3>2 DEF MessageLines
    <3>3. QED
      BY <1>3, <3>1, <3>2
  <2>3. ASSUME NEW j \in DOMAIN messages', NEW k \in DOMAIN messages',
               messages'[j].req = messages'[k].req
        PROVE  j = k
    <3>1. \A h \in DOMAIN messages : messages[h].req \in Sent
      BY DEF MessageLines
    <3>2. QED
      BY <1>3, <1>7, <2>1, <2>3, <3>1 DEF MessageLines
  <2>4. ASSUME NEW q \in Sent'
        PROVE  \E k \in DOMAIN messages' : messages'[k].req = q
    <3>1. CASE q = r
      BY <1>3, <2>1, <3>1
    <3>2. CASE q \in Sent
      <4>1. PICK k \in DOMAIN messages : messages[k].req = q
        BY <3>2 DEF MessageLines
      <4>2. QED
        BY <1>3, <4>1
    <3>3. QED
      BY <1>7, <3>1, <3>2
  <2>5. QED
    BY <2>2, <2>3, <2>4 DEF MessageLines
<1>9. MessageOrder'
  <2>1. SUFFICES ASSUME OneByOne(Those({"send"}))'
                 PROVE  /\ \A j, k \in DOMAIN messages' : j < k => messages'[j].id < messages'[k].id
                        /\ \A q \in Req : pc'[q] = "addressed" =>
                              \A k \in DOMAIN messages' : messages'[k].id < msgId'[q]
    BY DEF MessageOrder
  <2>2. OneByOne(Those({"send"}))
    BY <2>1, OneByOneBefore
  <2>3. /\ \A j, k \in DOMAIN messages : j < k => messages[j].id < messages[k].id
        /\ \A k \in DOMAIN messages : messages[k].id < msgId[r]
    BY <1>1, <2>2 DEF MessageOrder
  <2>4. l.id = msgId[r]
    OBVIOUS
  <2> HIDE DEF l
  <2>5. \A j, k \in DOMAIN messages' : j < k => messages'[j].id < messages'[k].id
    <3>1. \A k \in DOMAIN messages : ~(n < k)
      BY <1>3 DEF MessageTypeOK, n
    <3>2. ~(n < n)
      BY DEF n, MessageTypeOK
    <3>3. QED
      BY <1>3, <2>3, <2>4, <3>1, <3>2
  <2>6. \A q \in Req : pc'[q] # "addressed"
    <3>1. \A q \in Those({"send"}) : q # r => pc[q] \in Finished
      BY <1>1, <1>7, <2>2, AtWork DEF Finished
    <3>2. \A q \in Req : pc[q] = "addressed" => q \in Those({"send"})
      BY Whereabouts DEF Those
    <3>3. QED
      BY <1>1, <3>1, <3>2 DEF ProcessTypeOK, Finished
  <2>7. QED
    BY <2>5, <2>6
<1>10. QED
  BY <1>4, <1>5, <1>8, <1>9

\* A page that keeps the line of a message has it once.
LEMMA RowOnce ==
    ASSUME MessageTypeOK, MessageLines, NEW K \in SUBSET DOMAIN messages,
           NEW k \in K, NEW r, messages[k].req = r
    PROVE  Cardinality(Rows(Keep(messages, K), r)) = 1
<1> DEFINE page == Keep(messages, K)
           i == Rank(K, k)
<1>1. /\ i \in DOMAIN page /\ page[i] = messages[k]
      /\ \A h \in DOMAIN page : \E j \in K : Rank(K, j) = h /\ page[h] = messages[j]
  BY KeepIs DEF MessageTypeOK
<1> HIDE DEF page
<1>2. Rows(page, r) = {i}
  <2>1. i \in Rows(page, r)
    BY <1>1 DEF Rows
  <2>2. ASSUME NEW h \in Rows(page, r)
        PROVE  h = i
    <3>1. h \in DOMAIN page /\ page[h].req = r
      BY DEF Rows
    <3>2. PICK j \in K : Rank(K, j) = h /\ page[h] = messages[j]
      BY <1>1, <3>1
    <3>3. j = k
      BY <3>1, <3>2 DEF MessageLines
    <3>4. QED
      BY <3>2, <3>3
  <2>3. QED
    BY <2>1, <2>2
<1>3. QED
  BY <1>2, FS_Singleton DEF page

LEMMA MessagesArrive ==
    ASSUME ProcessTypeOK, MessageInv
    PROVE  MessageArrives
<1> USE DEF MessageInv
<1>1. OneByOne(Those({"send"})) =>
          \A j, k \in DOMAIN messages : j < k => messages[j].id < messages[k].id
  BY DEF MessageOrder
<1>2. ASSUME NEW r \in Sent
      PROVE  Cardinality(Rows(Outbox(query[r].user), r)) = 1
  <2>1. PICK k \in DOMAIN messages : messages[k].req = r
    BY DEF MessageLines
  <2>2. messages[k].from = query[r].user
    BY <2>1 DEF MessageLines
  <2>3. QED
    BY <2>1, <2>2, RowOnce DEF Outbox
<1>3. ASSUME NEW r \in Sent,
             \A s \in {t \in Sent : query[t].to = query[r].to} :
                 query[s].content \notin {"empty", "lines"}
      PROVE  Cardinality(Rows(Inbox(query[r].to), r)) = 1
  <2> DEFINE K == {k \in DOMAIN messages : messages[k].to = query[r].to}
             page == Keep(messages, K)
  <2>1. PICK k \in DOMAIN messages : messages[k].req = r
    BY DEF MessageLines
  <2>2. k \in K
    BY <2>1 DEF MessageLines
  <2>3. Cardinality(Rows(page, r)) = 1
    BY <2>1, <2>2, RowOnce
  <2>4. \A h \in DOMAIN page : \E j \in K : page[h] = messages[j]
    <3>1. K \in SUBSET DOMAIN messages /\ messages \in Seq(Message)
      BY DEF MessageTypeOK
    <3> HIDE DEF K
    <3>2. QED
      BY <3>1, KeepIs
  <2>5. ASSUME NEW j \in K
        PROVE  HasFlag(messages[j])
    <3>1. messages[j].req \in Sent /\ query[messages[j].req].to = query[r].to
          /\ messages[j].content = query[messages[j].req].content
      BY DEF MessageLines
    <3>2. messages[j] \in Message
      BY DEF MessageTypeOK
    <3>3. messages[j].content \in Content
      BY <3>2 DEF Message
    <3>4. QED
      BY <1>3, <3>1, <3>3 DEF Content, HasFlag
  <2>6. \A h \in DOMAIN page : HasFlag(page[h])
    BY <2>4, <2>5
  <2>7. Inbox(query[r].to) = page
    BY <2>6 DEF Inbox
  <2>8. QED
    BY <2>3, <2>7
<1>4. QED
  BY <1>1, <1>2, <1>3 DEF MessageArrives

---------------------------------------------------------------------------
\* Posts: what a step changes

Changes == Creations \cup Deletions
Views   == Those({"view"})

\* What each step leaves as it was, and who comes to be where by it.
LEMMA PostFrame ==
    ASSUME ProcessTypeOK, Control, ProcessTypeOK', Control', NEW r \in Req, Moves(r), ForPosts(r)
    PROVE  /\ posts' = posts \/ AppendPost(r) \/ SedRename(r)
           /\ text' = text \/ OpenText(r) \/ WriteText(r) \/ RemoveText(r)
           /\ number' = number \/ ReadMax(r)
           /\ sed' = sed \/ SedRead(r) \/ SedRename(r)
           /\ opened' = opened \/ OpenText(r)
           /\ shown' = shown \/ FindLine(r) \/ ReadText(r)
<1> USE DEF postVars, postLocal
<1>1. CASE PostStep(r)
  BY <1>1 DEF PostStep, ReadMax, OpenText, WriteText, AppendPost, SedRead, SedRename,
              RemoveText, FindLine, ReadText
<1>2. QED
  BY <1>1 DEF ForPosts

LEMMA PostPlaces ==
    ASSUME ProcessTypeOK, Control, ProcessTypeOK', Control', NEW r \in Req, Moves(r), ForPosts(r),
           NEW q \in Req
    PROVE  /\ pc'[q] = "numbered" => pc[q] = "numbered" \/ (q = r /\ ReadMax(r))
           /\ pc'[q] = "opened" => pc[q] = "opened" \/ (q = r /\ OpenText(r))
           /\ pc'[q] = "written" => pc[q] = "written" \/ (q = r /\ WriteText(r))
           /\ pc'[q] = "sed" => pc[q] = "sed" \/ (q = r /\ SedRead(r))
           /\ pc'[q] = "found" => pc[q] = "found" \/ (q = r /\ FindLine(r))
           /\ pc[q] = "sed" => pc'[q] \in {"sed", "dead"} \/ (q = r /\ RemoveText(r))
<1>1. CASE PostStep(r)
  BY <1>1 DEF PostStep, ReadMax, OpenText, WriteText, AppendPost, SedRead, SedRename,
              RemoveText, FindLine, ReadText, Go, At, Arrive, process, ProcessTypeOK
<1>2. CASE Kill(r)
  BY <1>2 DEF Kill, Go, ProcessTypeOK
<1>3. CASE Still({"create", "delete", "view"})
  <2>1. pc'[q] \in {"numbered", "opened", "written", "sed", "found"} =>
            query'[q].op \in {"create", "delete", "view"}
    BY DEF Control, Creation, Deletion, Reading
  <2>2. pc[q] = "sed" => q \in Those({"create", "delete", "view"})
    BY Whereabouts DEF Those
  <2>3. pc'[q] \in {"numbered", "opened", "written", "sed", "found"} =>
            (q \in Those({"create", "delete", "view"}))'
    BY <2>1 DEF Those
  <2>4. QED
    BY <1>3, <2>2, <2>3 DEF Still
<1>4. QED
  BY <1>1, <1>2, <1>3 DEF ForPosts

\* Who comes, and who comes to an end.
LEMMA PostComers ==
    ASSUME ProcessTypeOK, Control, ProcessTypeOK', Control', NEW r \in Req, Moves(r), ForPosts(r),
           NEW q \in Req
    PROVE  /\ q \in Creations => (q \in Creations)' /\ before'[q] = before[q]
           /\ q \in Deletions => (q \in Deletions)' /\ before'[q] = before[q]
           /\ q \in Views => (q \in Views)' /\ before'[q] = before[q]
           /\ (q \in Creations)' => q \in Creations \/ (q = r /\ ReadMax(r))
           /\ (q \in Deletions)' => q \in Deletions \/ (q = r /\ SedRead(r))
           /\ (q \in Views)' => q \in Views \/ (q = r /\ FindLine(r))
           /\ (q \in Creations)' /\ pc'[q] = "done" => pc[q] = "done" \/ (q = r /\ AppendPost(r))
           /\ (q \in Deletions)' /\ pc'[q] = "done" => pc[q] = "done" \/ (q = r /\ RemoveText(r))
           /\ (q \in Views)' /\ pc'[q] = "done" =>
                 pc[q] = "done" \/ (q = r /\ (FindLine(r) \/ ReadText(r)))
<1> USE DEF Creations, Deletions, Views
<1>1. /\ q \in Creations => (q \in Creations)' /\ before'[q] = before[q]
      /\ q \in Deletions => (q \in Deletions)' /\ before'[q] = before[q]
      /\ q \in Views => (q \in Views)' /\ before'[q] = before[q]
  BY Comers
<1>2. CASE PostStep(r) /\ q = r
  <2>1. query' = query
    BY DEF Moves
  <2>2. query[r].op = "create" \/ query[r].op = "delete" \/ query[r].op = "view" \/ pc' = pc
    BY <1>2, Whereabouts DEF PostStep, ReadMax, OpenText, WriteText, AppendPost, SedRead,
           SedRename, RemoveText, FindLine, ReadText, Arrive, At, process
  <2>3. CASE ReadMax(r) \/ OpenText(r) \/ WriteText(r) \/ AppendPost(r)
    <3>1. query[r].op = "create"
      BY <2>3, Whereabouts DEF ReadMax, OpenText, WriteText, AppendPost, Arrive, At
    <3>2. QED
      BY <1>1, <1>2, <2>1, <2>3, <3>1 DEF ReadMax, OpenText, WriteText, AppendPost, Arrive, At, Go,
                               Those, ProcessTypeOK
  <2>4. CASE SedRead(r) \/ RemoveText(r)
    <3>1. query[r].op = "delete"
      BY <2>4, Whereabouts DEF SedRead, RemoveText, Arrive, At
    <3>2. QED
      BY <1>1, <1>2, <2>1, <2>4, <3>1 DEF SedRead, RemoveText, Arrive, At, Go, Those, ProcessTypeOK
  <2>5. CASE SedRename(r)
    BY <1>1, <1>2, <2>5 DEF SedRename, process, Those
  <2>6. CASE FindLine(r) \/ ReadText(r)
    <3>1. query[r].op = "view"
      BY <2>6, Whereabouts DEF FindLine, ReadText, Arrive, At
    <3>2. QED
      BY <1>1, <1>2, <2>1, <2>6, <3>1 DEF FindLine, ReadText, Arrive, At, Go, Those, ProcessTypeOK
  <2>7. QED
    BY <1>2, <2>3, <2>4, <2>5, <2>6 DEF PostStep
<1>3. CASE q # r
  BY <1>1, <1>3 DEF Moves, Those
<1>4. CASE Kill(r) /\ q = r
  BY <1>1, <1>4 DEF Kill, Go, ProcessTypeOK, Those, Ended
<1>5. CASE Still({"create", "delete", "view"})
  BY <1>1, <1>5 DEF Still, Those
<1>6. QED
  BY <1>2, <1>3, <1>4, <1>5 DEF ForPosts

---------------------------------------------------------------------------
\* Changes one after the other

LEMMA ChangesAre == Changes = Those({"create", "delete"}) /\ Changes' = Those({"create", "delete"})'
BY DEF Changes, Creations, Deletions, Those

LEMMA TurnsBefore ==
    ASSUME ProcessTypeOK, NEW r \in Req, Moves(r), PostsInTurn'
    PROVE  PostsInTurn /\ \A d \in Deletions : pc[d] # "dead"
<1>1. OneByOne(Changes)' /\ ~Killed(Deletions)'
  BY DEF PostsInTurn, Changes
<1>2. OneByOne(Those({"create", "delete"}))'
  BY <1>1, ChangesAre DEF OneByOne
<1>3. OneByOne(Those({"create", "delete"}))
  BY <1>2, OneByOneBefore
<1>4. OneByOne(Creations \cup Deletions)
  BY <1>3, ChangesAre DEF Changes
<1>5. \A d \in Deletions : pc[d] # "dead"
  <2>1. \A d \in Deletions : (d \in Deletions)'
    BY Comers DEF Deletions
  <2>2. \A d \in Deletions : pc[d] = "dead" => pc'[d] = "dead"
    BY DEF Moves, Ended, Finished, Deletions, Those
  <2>3. QED
    BY <1>1, <2>1, <2>2 DEF Killed
<1>6. QED
  BY <1>4, <1>5 DEF PostsInTurn, Killed

\* While one change is under way no other one is, nor has come after it.
LEMMA OnlyOne ==
    ASSUME ProcessTypeOK, Past, Control, PostLines, PostsInTurn, NEW w \in Req,
           pc[w] \in {"numbered", "opened", "written", "sed"} \/ sed[w] # None
    PROVE  /\ w \in Changes /\ pc[w] \notin Finished
           /\ \A q \in Changes : q # w => q \in before[w] /\ pc[q] \in Finished
           /\ \A q \in Req : w \notin before[q]
           /\ \A q \in Req : q # w =>
                 pc[q] \notin {"numbered", "opened", "written", "sed"} /\ sed[q] = None
<1>1. ASSUME NEW q \in Req
      PROVE  sed[q] # None => q \in Deletions /\ pc[q] = "sed"
  BY DEF PostLines, PostsInTurn, Killed
<1>2. ASSUME NEW q \in Req, pc[q] \in {"numbered", "opened", "written", "sed"}
      PROVE  q \in Changes /\ pc[q] \notin Finished
  BY <1>2, Whereabouts DEF Changes, Creations, Deletions, Those, Finished
<1>3. w \in Changes /\ pc[w] \notin Finished
  BY <1>1, <1>2
<1>4. \A q \in Changes : q # w => q \in before[w] /\ pc[q] \in Finished
  <2>1. OneByOne(Those({"create", "delete"}))
    BY ChangesAre DEF PostsInTurn, Changes
  <2>2. QED
    BY <2>1, <1>3, ChangesAre, AtWork
<1>5. \A q \in Req : w \notin before[q]
  BY <1>3 DEF Past
<1>6. QED
  BY <1>1, <1>2, <1>3, <1>4, <1>5

---------------------------------------------------------------------------
\* Posts: typing

PostInv ==
    /\ PostTypeOK /\ Dense(number) /\ PostLines /\ PostAtWork /\ TextBelongs
    /\ PostsLast /\ LineGone /\ ShownTogether /\ FoundStays

\* The files and the lines are what they should be, whatever step is taken.
LEMMA KeptIs ==
    ASSUME PostTypeOK, NEW r
    PROVE  /\ Kept(r) \in Seq(Post)
           /\ \A k \in DOMAIN posts : ~Matches(posts[k], query[r]) =>
                 \E i \in DOMAIN Kept(r) : Kept(r)[i] = posts[k]
           /\ \A i \in DOMAIN Kept(r) : \E k \in DOMAIN posts :
                 ~Matches(posts[k], query[r]) /\ Kept(r)[i] = posts[k]
           /\ (\A j, k \in DOMAIN posts : posts[j].number = posts[k].number => j = k) =>
                 \A i, h \in DOMAIN Kept(r) : Kept(r)[i].number = Kept(r)[h].number => i = h
<1> DEFINE K == {k \in DOMAIN posts : ~Matches(posts[k], query[r])}
<1>1. K \in SUBSET DOMAIN posts /\ posts \in Seq(Post) /\ Kept(r) = Keep(posts, K)
      /\ \A k \in DOMAIN posts : k \in K <=> ~Matches(posts[k], query[r])
  BY DEF PostTypeOK, Kept
<1> HIDE DEF K
<1>2. /\ Keep(posts, K) \in Seq(Post)
      /\ DOMAIN Keep(posts, K) = 1 .. Cardinality(K)
      /\ \A k \in K : Rank(K, k) \in 1 .. Cardinality(K) /\ Keep(posts, K)[Rank(K, k)] = posts[k]
      /\ \A i \in DOMAIN Keep(posts, K) :
             \E k \in K : Rank(K, k) = i /\ Keep(posts, K)[i] = posts[k]
  BY <1>1, KeepIs
<1>3. ASSUME \A j, k \in DOMAIN posts : posts[j].number = posts[k].number => j = k,
             NEW i \in DOMAIN Kept(r), NEW h \in DOMAIN Kept(r),
             Kept(r)[i].number = Kept(r)[h].number
      PROVE  i = h
  <2>1. PICK j \in K : Rank(K, j) = i /\ Kept(r)[i] = posts[j]
    BY <1>1, <1>2
  <2>2. PICK k \in K : Rank(K, k) = h /\ Kept(r)[h] = posts[k]
    BY <1>1, <1>2
  <2>3. j = k
    BY <1>1, <1>3, <2>1, <2>2
  <2>4. QED
    BY <2>1, <2>2, <2>3
<1>4. QED
  BY <1>1, <1>2, <1>3

\* A record with one field replaced.
LEMMA TextHolds ==
    ASSUME NEW t \in Text, NEW h \in SUBSET Req
    PROVE  /\ [t EXCEPT !.holds = h] \in Text
           /\ [t EXCEPT !.holds = h].file = t.file
           /\ [t EXCEPT !.holds = h].holds = h
           /\ [t EXCEPT !.holds = h] # None
<1>1. [t EXCEPT !.holds = h] \in Text
  BY DEF Text
<1>2. QED
  BY <1>1, BoardsAssumption DEF Text

LEMMA ShownText ==
    ASSUME NEW f \in [Req -> Shown \cup {None}], NEW r \in Req,
           f[r] # None, NEW h \in SUBSET (Req \cup {Outside})
    PROVE  /\ [f EXCEPT ![r].text = h] \in [Req -> Shown \cup {None}]
           /\ [f EXCEPT ![r].text = h][r].post = f[r].post
           /\ [f EXCEPT ![r].text = h][r].text = h
           /\ \A q \in Req : q # r => [f EXCEPT ![r].text = h][q] = f[q]
<1>1. f[r] \in Shown
  OBVIOUS
<1>2. [f[r] EXCEPT !.text = h] \in Shown
      /\ [f[r] EXCEPT !.text = h].post = f[r].post /\ [f[r] EXCEPT !.text = h].text = h
  BY <1>1 DEF Shown
<1>3. QED
  BY <1>2

\* What OpenText leaves: an empty file under the number, open.
LEMMA TextOpened ==
    ASSUME PostTypeOK, Control, NEW r \in Req, OpenText(r)
    PROVE  /\ number[r] \in Number
           /\ text' \in [Number -> Text \cup {None}] /\ opened' \in [Req -> Req \cup {None}]
           /\ text'[number[r]] # None /\ text'[number[r]].holds = {}
           /\ text'[number[r]].file = opened'[r]
           /\ \A i \in Number : i # number[r] => text'[i] = text[i]
           /\ \A q \in Req : q # r => opened'[q] = opened[q]
           /\ UNCHANGED <<posts, number, sed, shown>>
<1> DEFINE i == number[r]
           file == [file |-> IF text[i] = None THEN r ELSE text[i].file, holds |-> {}]
<1>1. i \in Number
  BY DEF PostTypeOK, Control, OpenText, At
<1>2. (IF text[i] = None THEN r ELSE text[i].file) \in Req
  <2>1. text[i] \in Text \cup {None}
    BY <1>1 DEF PostTypeOK
  <2>2. QED
    BY <2>1 DEF Text
<1>3. file \in Text /\ file.holds = {} /\ file.file \in Req
  BY <1>2 DEF Text
<1>4. text' = [text EXCEPT ![i] = file] /\ opened' = [opened EXCEPT ![r] = file.file]
      /\ UNCHANGED <<posts, number, sed, shown>>
  BY DEF OpenText
<1>5. file # None
  BY <1>3, BoardsAssumption
<1> HIDE DEF file
<1>6. QED
  BY <1>1, <1>3, <1>4, <1>5 DEF PostTypeOK

\* What WriteText leaves: the file as it was, or the text of the writer in it, with what
\* was there or without it.
LEMMA TextWritten ==
    ASSUME PostTypeOK, Control, NEW r \in Req, WriteText(r)
    PROVE  /\ number[r] \in Number
           /\ text' \in [Number -> Text \cup {None}]
           /\ \A i \in Number : i # number[r] => text'[i] = text[i]
           /\ \/ /\ text' = text
                 /\ text[number[r]] = None \/ text[number[r]].file # opened[r]
              \/ /\ text[number[r]] # None /\ text[number[r]].file = opened[r]
                 /\ text'[number[r]] # None
                 /\ text'[number[r]].holds \in {{r}, text[number[r]].holds \cup {r}}
           /\ UNCHANGED <<posts, postLocal>>
<1> DEFINE i == number[r]
<1>1. i \in Number
  BY DEF PostTypeOK, Control, WriteText, At
<1>2. text \in [Number -> Text \cup {None}]
  BY DEF PostTypeOK
<1>3. CASE text[i] # None /\ text[i].file = opened[r]
  <2>1. PICK rest \in {{}, text[i].holds} : text' = [text EXCEPT ![i].holds = rest \cup {r}]
    BY <1>3 DEF WriteText
  <2>2. text[i].holds \in SUBSET Req
    BY <1>1, <1>2, <1>3 DEF Text
  <2> DEFINE h == rest \cup {r}
  <2>3. h \in SUBSET Req /\ h \in {{r}, text[i].holds \cup {r}}
        /\ text' = [text EXCEPT ![i].holds = h]
    BY <2>1, <2>2
  <2> HIDE DEF h
  <2>4. /\ text' \in [Number -> Text \cup {None}]
        /\ text'[i].holds = h /\ text'[i] # None
        /\ \A j \in Number : j # i => text'[j] = text[j]
    <3> DEFINE t == [text[i] EXCEPT !.holds = h]
    <3>1. text[i] \in Text
      BY <1>1, <1>2, <1>3
    <3>2. t \in Text /\ t.holds = h /\ t # None
      BY <2>3, <3>1, TextHolds
    <3>3. text' = [text EXCEPT ![i] = t]
      BY <1>1, <1>2, <2>3
    <3> HIDE DEF t
    <3>4. QED
      BY <1>1, <1>2, <3>2, <3>3
  <2>5. QED
    BY <1>1, <1>3, <2>3, <2>4 DEF WriteText
<1>4. CASE ~(text[i] # None /\ text[i].file = opened[r])
  BY <1>1, <1>2, <1>4 DEF WriteText
<1>5. QED
  BY <1>3, <1>4

\* What ReadText shows: another file if the title names one, or nothing, or what the
\* file with the number of the post, or of its title, has in it.
LEMMA TextRead ==
    ASSUME PostTypeOK, Control, NEW r \in Req, ReadText(r)
    PROVE  /\ shown' \in [Req -> Shown \cup {None}]
           /\ shown[r] # None /\ shown[r].post \in Post
           /\ shown'[r].post = shown[r].post
           /\ \/ shown[r].post.title = Outside /\ shown'[r].text = {Outside}
              \/ /\ shown[r].post.title # Outside
                 /\ \/ shown'[r].text = {}
                    \/ /\ NamedFile(shown[r].post) \in Number
                       /\ text[NamedFile(shown[r].post)] # None
                       /\ shown'[r].text = text[NamedFile(shown[r].post)].holds
           /\ \A q \in Req : q # r => shown'[q] = shown[q]
           /\ UNCHANGED <<posts, text, number, opened, sed>>
<1> DEFINE p == shown[r].post
           i == NamedFile(p)
           h == IF p.title = Outside THEN {Outside} ELSE TextIn(i)
<1>1. shown[r] # None
  BY DEF ReadText, At, Control
<1>2. shown[r] \in Shown
  BY <1>1 DEF PostTypeOK
<1>3. p \in Post /\ (p.title # Outside => i \in Number \cup {0})
  BY <1>2 DEF Post, Shown, Title, NamedFile
<1>4. \/ p.title = Outside /\ h = {Outside}
      \/ /\ p.title # Outside
         /\ h = {} \/ (i \in Number /\ text[i] # None /\ h = text[i].holds)
  BY <1>3 DEF TextIn
<1>5. h \in SUBSET (Req \cup {Outside})
  <2>1. i \in Number /\ text[i] # None => text[i] \in Text
    BY DEF PostTypeOK
  <2>2. i \in Number /\ text[i] # None => text[i].holds \in SUBSET Req
    BY <2>1 DEF Text
  <2>3. QED
    BY <1>4, <2>2
<1>6. shown' = [shown EXCEPT ![r].text = h]
  BY DEF ReadText
<1> HIDE DEF h, i
<1>7. /\ shown' \in [Req -> Shown \cup {None}]
      /\ shown'[r].post = shown[r].post /\ shown'[r].text = h
      /\ \A q \in Req : q # r => shown'[q] = shown[q]
  <2>1. shown \in [Req -> Shown \cup {None}]
    BY DEF PostTypeOK
  <2>2. /\ [shown EXCEPT ![r].text = h] \in [Req -> Shown \cup {None}]
        /\ [shown EXCEPT ![r].text = h][r].post = shown[r].post
        /\ [shown EXCEPT ![r].text = h][r].text = h
        /\ \A q \in Req : q # r => [shown EXCEPT ![r].text = h][q] = shown[q]
    <3>1. shown[r] # None
      BY <1>1
    <3>2. h \in SUBSET (Req \cup {Outside})
      BY <1>5
    <3>3. QED
      BY <2>1, <3>1, <3>2, ShownText
  <2>3. QED
    BY <1>6, <2>2
<1>8. UNCHANGED <<posts, text, number, opened, sed>>
  BY DEF ReadText
<1>9. QED
  BY <1>1, <1>3, <1>4, <1>7, <1>8 DEF i

LEMMA PostTypeKept ==
    ASSUME ProcessTypeOK, Control, PostTypeOK, Dense(number), PostLines,
           NEW r \in Req, ForPosts(r)
    PROVE  PostTypeOK'
<1>1. CASE ReadMax(r)
  BY <1>1, PostNumber DEF ReadMax, PostTypeOK
<1>2. CASE OpenText(r)
  BY <1>2, TextOpened DEF PostTypeOK
<1>3. CASE WriteText(r)
  BY <1>3, TextWritten DEF PostTypeOK, postLocal
<1>4. CASE AppendPost(r)
  <2>1. number[r] \in Number /\ query[r].user \in User /\ query[r].title \in Title
    BY <1>4 DEF AppendPost, At, Control, Creation, PostTypeOK
  <2>2. [number |-> number[r], user |-> query[r].user, title |-> query[r].title, req |-> r] \in Post
    BY <2>1 DEF Post
  <2>3. QED
    BY <1>4, <2>2 DEF AppendPost, PostTypeOK, postLocal
<1>5. CASE SedRead(r)
  <2>1. sed' = [sed EXCEPT ![r] = Kept(r)]
    BY <1>5 DEF SedRead, Kept
  <2>2. QED
    BY <1>5, <2>1, KeptIs DEF SedRead, PostTypeOK
<1>6. CASE SedRename(r)
  BY <1>6 DEF SedRename, PostTypeOK
<1>7. CASE RemoveText(r)
  BY <1>7 DEF RemoveText, PostTypeOK, postLocal
<1>8. CASE FindLine(r)
  <2>1. \/ shown' = [shown EXCEPT ![r] = None]
        \/ \E k \in DOMAIN posts : shown' = [shown EXCEPT ![r] = [post |-> posts[k], text |-> {}]]
    BY <1>8, PageFound
  <2>2. \A k \in DOMAIN posts :
            [post |-> posts[k], text |-> {}] \in Shown
    BY DEF PostTypeOK, Shown
  <2>3. shown' \in [Req -> Shown \cup {None}]
    BY <2>1, <2>2 DEF PostTypeOK
  <2>4. QED
    BY <1>8, <2>3 DEF FindLine, PostTypeOK
<1>9. CASE ReadText(r)
  BY <1>9, TextRead DEF PostTypeOK
<1>10. CASE UNCHANGED postVars
  BY <1>10 DEF PostTypeOK, postVars, postLocal
<1>11. QED
  BY <1>1, <1>2, <1>3, <1>4, <1>5, <1>6, <1>7, <1>8, <1>9, <1>10 DEF ForPosts, PostStep

\* Numbers stay, once a request has come.
LEMMA NumberStays ==
    ASSUME ProcessTypeOK, Control, ProcessTypeOK', Control', PostTypeOK, Dense(number), PostLines,
           NEW r \in Req, Moves(r), ForPosts(r)
    PROVE  Dense(number)' /\ \A q \in Creations : number'[q] = number[q]
<1>1. CASE ReadMax(r)
  <2>1. /\ number' = [number EXCEPT ![r] = number'[r]]
        /\ \A n \in 1 .. number'[r] : n = number'[r] \/ \E q \in Req : q # r /\ number[q] = n
    BY <1>1, PostNumber
  <2>2. pc[r] = "idle" /\ pc' = [pc EXCEPT ![r] = "numbered"] /\ number[r] = 0
    BY <1>1 DEF ReadMax, Arrive, Go, Dense
  <2>3. \A q \in Req : q # r => number'[q] = number[q]
    BY <2>1 DEF PostTypeOK
  <2>4. ASSUME NEW q \in Req, q # r, NEW n \in 1 .. number[q]
        PROVE  \E p \in Req : number'[p] = n
    <3>1. PICK p \in Req : number[p] = n
      BY DEF Dense
    <3>2. p # r
      BY <2>2, <3>1, <2>4 DEF PostTypeOK, Number
    <3>3. QED
      BY <2>3, <3>1, <3>2
  <2>5. \A n \in 1 .. number'[r] : \E p \in Req : number'[p] = n
    BY <2>1, <2>3
  <2>6. \A q \in Req : pc'[q] = "idle" => number'[q] = 0
    BY <2>2, <2>3 DEF Dense, ProcessTypeOK
  <2>7. r \notin Creations
    BY <2>2 DEF Creations, Those
  <2>8. QED
    BY <2>3, <2>4, <2>5, <2>6, <2>7 DEF Dense, Creations, Those
<1>2. CASE number' = number
  BY <1>2 DEF Dense, Moves
<1>3. QED
  BY <1>1, <1>2, PostFrame

\* A line is one of a request that was confirmed, after the step.
IsPostThen(l) ==
    /\ l.req \in Creations' /\ pc'[l.req] = "done"
    /\ l.number = number'[l.req] /\ l.user = query'[l.req].user

LEMMA LineStays ==
    ASSUME ProcessTypeOK, Control, ProcessTypeOK', Control', PostTypeOK, Dense(number), PostLines,
           NEW r \in Req, Moves(r), ForPosts(r), NEW l, IsPost(l)
    PROVE  IsPostThen(l)
<1>1. l.req \in Creations /\ pc[l.req] = "done" /\ l.req \in Req
  BY DEF IsPost, Creations, Those
<1>2. (l.req \in Creations)' /\ number'[l.req] = number[l.req]
  BY <1>1, PostComers, NumberStays
<1>3. pc'[l.req] = "done" /\ query' = query
  BY <1>1 DEF Moves, Ended, Finished
<1>4. QED
  BY <1>2, <1>3 DEF IsPost, IsPostThen

---------------------------------------------------------------------------
\* Posts: where lines and texts come from

\* What AppendPost leaves.
LEMMA PostAppended ==
    ASSUME PostTypeOK, PostTypeOK', NEW r \in Req, AppendPost(r)
    PROVE  LET n == Len(posts) + 1
           IN /\ DOMAIN posts' = DOMAIN posts \cup {n} /\ n \notin DOMAIN posts
              /\ posts'[n].number = number[r] /\ posts'[n].user = query[r].user
              /\ posts'[n].req = r
              /\ \A k \in DOMAIN posts : posts'[k] = posts[k]
              /\ pc[r] = "written" /\ UNCHANGED <<query, before, text, postLocal>>
BY DEF AppendPost, At, PostTypeOK

LEMMA PostLinesKept ==
    ASSUME ProcessTypeOK, Past, Control, ProcessTypeOK', Control', PostTypeOK, PostTypeOK',
           Dense(number), PostLines, NEW r \in Req, Moves(r), ForPosts(r)
    PROVE  PostLines'
<1>1. ASSUME NEW l, IsPost(l)
      PROVE  IsPostThen(l)
  BY <1>1, LineStays
<1> USE DEF IsPost, IsPostThen
<1>2. ASSUME NEW k \in DOMAIN posts'
      PROVE  IsPostThen(posts'[k])
  <2>1. CASE posts' = posts
    BY <1>1, <2>1 DEF PostLines
  <2>2. CASE AppendPost(r)
    <3>1. CASE k \in DOMAIN posts
      BY <1>1, <2>2, <3>1, PostAppended DEF PostLines
    <3>2. CASE k = Len(posts) + 1
      <4>1. posts'[k].number = number[r] /\ posts'[k].user = query[r].user /\ posts'[k].req = r
            /\ pc[r] = "written" /\ number' = number /\ query' = query
        BY <2>2, <3>2, PostAppended DEF postLocal
      <4>2. r \in Creations
        BY <4>1, Whereabouts DEF Creations, Those
      <4>3. (r \in Creations)' /\ pc'[r] = "done"
        BY <2>2, <4>2, PostComers DEF AppendPost, Go, ProcessTypeOK
      <4>4. QED
        BY <4>1, <4>3 DEF IsPostThen
    <3>3. QED
      BY <2>2, <3>1, <3>2, PostAppended
  <2>3. CASE SedRename(r)
    <3>1. posts' = sed[r] /\ sed[r] # None
      BY <2>3 DEF SedRename
    <3>2. IsPost(posts'[k])
      BY <3>1 DEF PostLines
    <3>3. QED
      BY <1>1, <3>2
  <2>4. QED
    BY <2>1, <2>2, <2>3, PostFrame
<1>3. ASSUME NEW q \in Req, sed'[q] # None
      PROVE  /\ (q \in Deletions)' /\ pc'[q] \in {"sed", "dead"}
             /\ \A k \in DOMAIN sed'[q] : IsPostThen(sed'[q][k])
  <2>1. CASE sed[q] # None /\ sed'[q] = sed[q]
    <3>1. q \in Deletions /\ pc[q] \in {"sed", "dead"} /\ \A k \in DOMAIN sed[q] : IsPost(sed[q][k])
      BY <2>1 DEF PostLines
    <3>2. (q \in Deletions)'
      BY <3>1, PostComers
    <3>3. ~(q = r /\ RemoveText(r))
      BY <2>1 DEF RemoveText
    <3>4. pc'[q] \in {"sed", "dead"}
      BY <3>1, <3>3, PostPlaces DEF Moves, Ended, Finished
    <3>5. QED
      BY <1>1, <2>1, <3>1, <3>2, <3>4
  <2>2. CASE q = r /\ SedRead(r)
    <3>1. sed'[r] = Kept(r)
      BY <2>2 DEF SedRead, Kept, PostTypeOK
    <3>2. pc'[r] = "sed" /\ (r \in Deletions)'
      BY <2>2 DEF SedRead, Go, Arrive, ProcessTypeOK, Deletions, Those
    <3>3. ASSUME NEW k \in DOMAIN sed'[r]
          PROVE  IsPostThen(sed'[r][k])
      <4>1. PICK h \in DOMAIN posts : sed'[r][k] = posts[h]
        BY <3>1, KeptIs
      <4>2. IsPost(posts[h])
        BY DEF PostLines
      <4>3. QED
        BY <1>1, <4>1, <4>2
    <3>4. QED
      BY <2>2, <3>2, <3>3
  <2>3. sed'[q] = sed[q] \/ (q = r /\ SedRead(r)) \/ sed'[q] = None
    <3>1. CASE sed' = sed
      BY <3>1
    <3>2. CASE SedRead(r)
      BY <3>2 DEF SedRead, PostTypeOK
    <3>3. CASE SedRename(r)
      BY <3>3 DEF SedRename, PostTypeOK
    <3>4. QED
      BY <3>1, <3>2, <3>3, PostFrame
  <2>4. QED
    BY <1>3, <2>1, <2>2, <2>3
<1>4. ASSUME NEW i \in Number, text'[i] # None, NEW q \in text'[i].holds
      PROVE  (q \in Creations)' /\ number'[q] = i /\ pc'[q] \notin {"numbered", "opened"}
  <2>1. ASSUME text[i] # None, q \in text[i].holds
        PROVE  (q \in Creations)' /\ number'[q] = i /\ pc'[q] \notin {"numbered", "opened"}
    <3>1. q \in Creations /\ number[q] = i /\ pc[q] \notin {"numbered", "opened"} /\ q \in Req
      BY <2>1 DEF PostLines, Creations, Those
    <3>2. pc'[q] \notin {"numbered", "opened"}
      <4>1. pc[q] # "idle"
        BY <3>1 DEF Creations, Those
      <4>2. ~(q = r /\ (ReadMax(r) \/ OpenText(r)))
        BY <3>1, <4>1 DEF ReadMax, OpenText, Arrive, At
      <4>3. QED
        BY <3>1, <4>2, PostPlaces
    <3>3. QED
      BY <3>1, <3>2, PostComers, NumberStays
  <2>2. CASE text' = text
    BY <1>4, <2>1, <2>2
  <2>3. CASE OpenText(r)
    BY <1>4, <2>1, <2>3, TextOpened
  <2>4. CASE WriteText(r)
    <3>1. CASE text[i] # None /\ q \in text[i].holds
      BY <2>1, <3>1
    <3>2. CASE q = r /\ i = number[r]
      <4>1. pc[r] = "opened" /\ pc'[r] = "written" /\ number' = number
        BY <2>4 DEF WriteText, At, Go, ProcessTypeOK, postLocal
      <4>2. r \in Creations
        BY <4>1, Whereabouts DEF Creations, Those
      <4>3. QED
        BY <3>2, <4>1, <4>2, PostComers
    <3>3. QED
      BY <1>4, <2>4, <3>1, <3>2, TextWritten
  <2>5. CASE RemoveText(r)
    <3>1. text' = [text EXCEPT ![query[r].number] = None]
      BY <2>5 DEF RemoveText
    <3>2. text'[i] = text[i]
      BY <1>4, <3>1 DEF PostTypeOK
    <3>3. QED
      BY <1>4, <2>1, <3>2
  <2>6. QED
    BY <2>2, <2>3, <2>4, <2>5, PostFrame
<1>5. QED
  BY <1>2, <1>3, <1>4 DEF PostLines, IsPost, IsPostThen

---------------------------------------------------------------------------
\* Posts: what is under way

PostBase ==
    ProcessTypeOK /\ Past /\ Control /\ PostTypeOK /\ Dense(number) /\ PostLines

LEMMA PostAtWorkKept ==
    ASSUME PostBase, PostBase', PostAtWork, NEW r \in Req, Moves(r), ForPosts(r)
    PROVE  PostAtWork'
<1> USE DEF PostBase
<1> SUFFICES ASSUME PostsInTurn'
             PROVE  /\ \A j, k \in DOMAIN posts' : posts'[j].number = posts'[k].number => j = k
                    /\ \A q \in Req : sed'[q] # None => sed'[q] = Kept(q)'
                    /\ \A q \in Req :
                          LET i == number'[q] IN
                          /\ pc'[q] \in {"numbered", "opened", "written"} =>
                                \A k \in DOMAIN posts' : posts'[k].number < i
                          /\ pc'[q] = "opened" =>
                                /\ text'[i] # None /\ text'[i].file = opened'[q]
                                /\ text'[i].holds = {}
                          /\ pc'[q] = "written" => text'[i] # None /\ text'[i].holds = {q}
  BY DEF PostAtWork
<1>1. PostsInTurn
  BY TurnsBefore
<1>2. /\ \A j, k \in DOMAIN posts : posts[j].number = posts[k].number => j = k
      /\ \A q \in Req : sed[q] # None => sed[q] = Kept(q)
      /\ \A q \in Req :
            LET i == number[q] IN
            /\ pc[q] \in {"numbered", "opened", "written"} =>
                  \A k \in DOMAIN posts : posts[k].number < i
            /\ pc[q] = "opened" =>
                  text[i] # None /\ text[i].file = opened[q] /\ text[i].holds = {}
            /\ pc[q] = "written" => text[i] # None /\ text[i].holds = {q}
  BY <1>1 DEF PostAtWork
<1>3. query' = query
  BY DEF Moves
<1>4. \A q \in Req : posts' = posts => Kept(q)' = Kept(q)
  BY <1>3 DEF Kept, Matches
\* While r changes something no other request is at work.
<1>5. ASSUME pc[r] \in {"numbered", "opened", "written", "sed"} \/ sed[r] # None,
             NEW q \in Req, q # r
      PROVE  pc'[q] \notin {"numbered", "opened", "written"} /\ sed[q] = None
  BY <1>1, <1>5, OnlyOne DEF Moves
<1>6. ASSUME NEW j \in DOMAIN posts', NEW k \in DOMAIN posts', posts'[j].number = posts'[k].number
      PROVE  j = k
  <2>1. CASE posts' = posts
    BY <1>2, <1>6, <2>1
  <2>2. CASE AppendPost(r)
    <3>1. \A h \in DOMAIN posts : posts[h].number < number[r]
      BY <1>2, <2>2, PostAppended
    <3>2. \A h \in DOMAIN posts : posts[h] \in Post
      BY DEF PostTypeOK
    <3>3. \A h \in DOMAIN posts : posts[h].number # number[r]
      BY <3>1, <3>2 DEF PostTypeOK, Post, Number
    <3>4. QED
      BY <1>2, <1>6, <2>2, <3>3, PostAppended
  <2>3. CASE SedRename(r)
    <3>1. posts' = Kept(r)
      BY <1>2, <2>3 DEF SedRename
    <3>2. QED
      BY <1>2, <1>6, <3>1, KeptIs
  <2>4. QED
    BY <2>1, <2>2, <2>3, PostFrame
<1>7. ASSUME NEW q \in Req, sed'[q] # None
      PROVE  sed'[q] = Kept(q)'
  <2>1. CASE posts' = posts /\ sed' = sed
    BY <1>2, <1>4, <1>7, <2>1
  <2>2. CASE SedRead(r)
    <3>1. sed' = [sed EXCEPT ![r] = Kept(r)] /\ posts' = posts
      BY <2>2 DEF SedRead, Kept
    <3>2. QED
      BY <1>2, <1>4, <1>7, <3>1 DEF PostTypeOK
  <2>3. CASE AppendPost(r)
    <3>1. pc[r] = "written" /\ sed' = sed
      BY <2>3 DEF AppendPost, At, postLocal
    <3>2. sed[r] = None
      BY <3>1 DEF PostLines
    <3>3. QED
      BY <1>5, <1>7, <3>1, <3>2
  <2>4. CASE SedRename(r)
    BY <1>5, <1>7, <2>4 DEF SedRename, PostTypeOK
  <2>5. QED
    BY <2>1, <2>2, <2>3, <2>4, PostFrame
<1>8. ASSUME NEW q \in Req, pc'[q] \in {"numbered", "opened", "written"}
      PROVE  \A k \in DOMAIN posts' : posts'[k].number < number'[q]
  <2>1. CASE AppendPost(r) \/ SedRename(r)
    <3>1. pc[r] = "written" \/ sed[r] # None
      BY <2>1 DEF AppendPost, SedRename, At
    <3>2. q = r
      BY <1>5, <1>8, <3>1
    <3>3. sed[r] # None => pc[r] \in {"sed", "dead"}
      BY DEF PostLines
    <3>4. pc'[r] \in {"done", "sed", "dead"}
      BY <2>1, <3>3 DEF AppendPost, SedRename, Go, process, ProcessTypeOK
    <3>5. QED
      BY <1>8, <3>2, <3>4
  <2>2. CASE posts' = posts /\ q = r /\ ReadMax(r)
    BY <2>2, PostNumber
  <2>3. CASE posts' = posts /\ ~(q = r /\ ReadMax(r))
    <3>1. pc[q] \in {"numbered", "opened", "written"}
      BY <1>8, <2>3, PostPlaces DEF OpenText, WriteText, At
    <3>2. q \in Creations
      BY <3>1, Whereabouts DEF Creations, Those
    <3>3. number'[q] = number[q]
      BY <3>2, NumberStays
    <3>4. QED
      BY <1>2, <2>3, <3>1, <3>3
  <2>4. QED
    BY <2>1, <2>2, <2>3, PostFrame
\* The texts of others are let alone, and their numbers.
<1>9. ASSUME NEW q \in Req, pc[q] \in {"opened", "written"}, pc'[q] = pc[q]
      PROVE  text' = text /\ opened'[q] = opened[q] /\ number'[q] = number[q]
  <2>1. q \in Creations
    BY <1>9, Whereabouts DEF Creations, Those
  <2>2. number'[q] = number[q]
    BY <2>1, NumberStays
  <2>3. ~OpenText(r) /\ ~WriteText(r) /\ ~RemoveText(r)
    BY <1>5, <1>9 DEF OpenText, WriteText, RemoveText, At, Go, ProcessTypeOK
  <2>4. QED
    BY <2>2, <2>3, PostFrame
<1>10. ASSUME NEW q \in Req, pc'[q] = "opened"
       PROVE  /\ text'[number'[q]] # None /\ text'[number'[q]].file = opened'[q]
              /\ text'[number'[q]].holds = {}
  <2>1. CASE pc[q] = "opened"
    BY <1>2, <1>9, <1>10, <2>1
  <2>2. CASE q = r /\ OpenText(r)
    BY <2>2, TextOpened
  <2>3. QED
    BY <1>10, <2>1, <2>2, PostPlaces
<1>11. ASSUME NEW q \in Req, pc'[q] = "written"
       PROVE  text'[number'[q]] # None /\ text'[number'[q]].holds = {q}
  <2>1. CASE pc[q] = "written"
    BY <1>2, <1>9, <1>11, <2>1
  <2>2. CASE q = r /\ WriteText(r)
    <3>1. pc[r] = "opened"
      BY <2>2 DEF WriteText, At
    <3>2. text[number[r]] # None /\ text[number[r]].file = opened[r]
          /\ text[number[r]].holds = {}
      BY <1>2, <3>1
    <3>3. /\ text'[number[r]] # None
          /\ text'[number[r]].holds \in {{r}, text[number[r]].holds \cup {r}}
          /\ number' = number
      BY <2>2, <3>2, TextWritten DEF postLocal
    <3>4. QED
      BY <2>2, <3>2, <3>3
  <2>3. QED
    BY <1>11, <2>1, <2>2, PostPlaces
<1>12. QED
  BY <1>6, <1>7, <1>8, <1>10, <1>11

---------------------------------------------------------------------------
\* Posts: what lasts

\* What is in posts.txt after a step was there before, or has just been appended.
LEMMA LinesAre ==
    ASSUME PostBase, PostBase', PostAtWork, PostsInTurn, NEW r \in Req, ForPosts(r),
           NEW k \in DOMAIN posts'
    PROVE  \/ \E h \in DOMAIN posts : posts'[k] = posts[h]
           \/ AppendPost(r) /\ posts'[k].req = r /\ posts'[k].number = number[r]
<1> USE DEF PostBase
<1>1. CASE AppendPost(r)
  BY <1>1, PostAppended
<1>2. CASE SedRename(r)
  <2>1. posts' = Kept(r)
    BY <1>2 DEF SedRename, PostAtWork
  <2>2. QED
    BY <2>1, KeptIs
<1>3. CASE posts' = posts
  BY <1>3
<1>4. QED
  BY <1>1, <1>2, <1>3 DEF ForPosts, PostStep, ReadMax, OpenText, WriteText, SedRead, RemoveText,
                          FindLine, ReadText, postVars

\* The number a change is at is not that of any line, when it touches the text.
LEMMA TextBelongsKept ==
    ASSUME PostBase, PostBase', PostAtWork, TextBelongs, NEW r \in Req, Moves(r), ForPosts(r)
    PROVE  TextBelongs'
<1> USE DEF PostBase
<1> SUFFICES ASSUME PostsInTurn', NEW k \in DOMAIN posts', text'[posts'[k].number] # None
             PROVE  text'[posts'[k].number].holds \subseteq {posts'[k].req}
  BY DEF TextBelongs
<1>1. PostsInTurn
  BY TurnsBefore
<1>2. CASE AppendPost(r) /\ posts'[k].req = r /\ posts'[k].number = number[r]
  <2>1. pc[r] = "written" /\ text' = text
    BY <1>2 DEF AppendPost, At
  <2>2. QED
    BY <1>1, <1>2, <2>1 DEF PostAtWork
<1>3. ASSUME NEW h \in DOMAIN posts, posts'[k] = posts[h]
      PROVE  text'[posts'[k].number].holds \subseteq {posts'[k].req}
  <2> DEFINE i == posts[h].number
  <2>1. i \in Number
    <3>1. posts[h] \in Post
      BY DEF PostTypeOK
    <3>2. QED
      BY <3>1 DEF Post
  <2>2. CASE text'[i] = text[i]
    BY <1>1, <1>3, <2>2 DEF TextBelongs
  <2>3. CASE OpenText(r) \/ WriteText(r)
    <3>1. pc[r] \in {"numbered", "opened"}
      BY <2>3 DEF OpenText, WriteText, At
    <3>2. i < number[r]
      BY <1>1, <3>1 DEF PostAtWork
    <3>3. i # number[r]
      BY <2>1, <3>2 DEF Number
    <3>4. QED
      BY <2>1, <2>2, <2>3, <3>3, TextOpened, TextWritten
  <2>4. CASE RemoveText(r)
    BY <1>3, <2>1, <2>2, <2>4 DEF RemoveText, PostTypeOK
  <2>5. QED
    BY <2>2, <2>3, <2>4, PostFrame
<1>4. QED
  BY <1>1, <1>2, <1>3, LinesAre

\* A creation that came before a deletion had come before the step, and both are the same.
LEMMA DeletedBefore ==
    ASSUME PostBase, PostBase', NEW r \in Req, Moves(r), ForPosts(r),
           NEW d \in Deletions', NEW c \in Creations', c \in before'[d]
    PROVE  /\ c \in Req /\ d \in Req /\ number'[c] = number[c] /\ query' = query
           /\ c \in Creations /\ pc[c] \in Finished
           /\ d \in Deletions => before'[d] = before[d]
<1> USE DEF PostBase
<1>1. c \in Req /\ d \in Req /\ query' = query
  BY DEF Creations, Deletions, Those, Moves
<1>2. pc[c] \in Finished
  BY <1>1 DEF Past, Moves
<1>3. c \in Creations
  BY <1>1, <1>2, PostComers DEF ReadMax, Arrive, Finished
<1>4. QED
  BY <1>1, <1>2, <1>3, PostComers, NumberStays

LEMMA LineGoneKept ==
    ASSUME PostBase, PostBase', PostAtWork, LineGone, NEW r \in Req, Moves(r), ForPosts(r)
    PROVE  LineGone'
<1> USE DEF PostBase
<1> SUFFICES ASSUME PostsInTurn', NEW d \in Deletions', NEW c \in Creations',
                    pc'[d] \in {"sed", "done"}, sed'[d] = None, c \in before'[d],
                    number'[c] = query'[d].number, query'[c].user = query'[d].user,
                    NEW k \in DOMAIN posts'
             PROVE  posts'[k].req # c
  BY DEF LineGone
<1>1. PostsInTurn
  BY TurnsBefore
<1>2. /\ c \in Req /\ d \in Req /\ number'[c] = number[c] /\ query' = query
      /\ c \in Creations /\ pc[c] \in Finished
      /\ d \in Deletions => before'[d] = before[d]
  BY DeletedBefore
<1>3. CASE AppendPost(r) /\ posts'[k].req = r
  BY <1>2, <1>3 DEF AppendPost, At, Finished
<1>4. ASSUME NEW h \in DOMAIN posts, posts'[k] = posts[h]
      PROVE  posts'[k].req # c
  <2>1. ~(d = r /\ SedRead(r))
    <3>1. Kept(r) # None
      BY KeptIs, BoardsAssumption
    <3>2. SedRead(r) => sed'[r] = Kept(r)
      BY DEF SedRead, Kept, PostTypeOK
    <3>3. QED
      BY <3>1, <3>2
  <2>2. d \in Deletions
    BY <1>2, <2>1, PostComers
  <2>3. pc[d] \in {"sed", "done"}
    BY <1>2, <2>1, PostComers, PostPlaces DEF RemoveText, At
  <2>4. CASE sed[d] = None
    <3>1. posts[h].req # c
      BY <1>1, <1>2, <2>2, <2>3, <2>4 DEF LineGone
    <3>2. QED
      BY <1>4, <3>1
  <2>5. CASE sed[d] # None
    <3>1. SedRename(r) /\ r = d
      <4>1. sed' = sed \/ SedRead(r) \/ SedRename(r)
        BY PostFrame
      <4>2. sed \in [Req -> Range(sed)] /\ d \in Req /\ sed'[d] = None /\ sed[d] # None
        BY <1>2, <2>5 DEF PostTypeOK, Range
      <4>3. CASE SedRead(r)
        <5>1. r # d
          BY <2>1, <4>3
        <5>2. sed'[d] = sed[d]
          BY <4>2, <4>3, <5>1 DEF SedRead
        <5>3. QED
          BY <4>2, <5>2
      <4>4. CASE SedRename(r)
        <5>1. sed' = [sed EXCEPT ![r] = None]
          BY <4>4 DEF SedRename
        <5>2. r = d
          BY <4>2, <5>1
        <5>3. QED
          BY <4>4, <5>2
      <4>5. QED
        BY <4>1, <4>2, <4>3, <4>4
    <3>2. posts' = Kept(d)
      BY <1>1, <1>2, <3>1 DEF SedRename, PostAtWork
    <3>3. PICK j \in DOMAIN posts : ~Matches(posts[j], query[d]) /\ posts'[k] = posts[j]
      BY <3>2, KeptIs
    <3>4. IsPost(posts[j])
      BY DEF PostLines
    <3>5. QED
      BY <1>2, <3>3, <3>4 DEF IsPost, Matches
  <2>6. QED
    BY <2>4, <2>5
<1>5. QED
  BY <1>1, <1>3, <1>4, LinesAre

\* After the deletion the text is gone as well.
LEMMA DeletedKept ==
    ASSUME PostBase, PostBase', PostAtWork, DeletedPostGone, LineGone', NEW r \in Req, Moves(r),
           ForPosts(r)
    PROVE  DeletedPostGone'
<1> USE DEF PostBase
<1> SUFFICES ASSUME PostsInTurn', NEW d \in Deletions', NEW c \in Creations',
                    pc'[d] = "done", c \in before'[d],
                    number'[c] = query'[d].number, query'[c].user = query'[d].user
             PROVE  /\ \A k \in DOMAIN posts' : posts'[k].req # c
                    /\ \A i \in Number : text'[i] # None => c \notin text'[i].holds
  BY DEF DeletedPostGone
<1>1. PostsInTurn
  BY TurnsBefore
<1>2. /\ c \in Req /\ d \in Req /\ number'[c] = number[c] /\ query' = query
      /\ c \in Creations /\ pc[c] \in Finished
      /\ d \in Deletions => before'[d] = before[d]
  BY DeletedBefore
<1>3. \A k \in DOMAIN posts' : posts'[k].req # c
  <2>1. sed'[d] = None
    BY <1>2 DEF PostLines
  <2>2. QED
    BY <2>1 DEF LineGone
<1>4. ASSUME NEW i \in Number, text'[i] # None, c \in text'[i].holds
      PROVE  FALSE
  <2>1. d \in Deletions
    <3>1. ~(d = r /\ SedRead(r))
      BY DEF SedRead, Go, ProcessTypeOK
    <3>2. QED
      BY <1>2, <3>1, PostComers
  <2>2. CASE d = r /\ RemoveText(r)
    <3>1. text' = [text EXCEPT ![query[d].number] = None]
      BY <2>2 DEF RemoveText
    <3>2. number'[c] = i
      BY <1>4 DEF PostLines
    <3>3. QED
      BY <1>2, <1>4, <3>1, <3>2 DEF PostTypeOK
  <2>3. CASE pc[d] = "done"
    <3>1. text[i] = None \/ c \notin text[i].holds
      BY <1>1, <1>2, <2>1, <2>3 DEF DeletedPostGone
    <3>2. CASE OpenText(r)
      BY <1>4, <3>1, <3>2, TextOpened
    <3>3. CASE WriteText(r)
      <4>1. c # r
        BY <1>2, <3>3 DEF WriteText, At, Finished
      <4>2. QED
        BY <1>4, <3>1, <3>3, <4>1, TextWritten
    <3>4. CASE RemoveText(r)
      BY <1>4, <3>1, <3>4 DEF RemoveText, PostTypeOK
    <3>5. QED
      BY <1>4, <3>1, <3>2, <3>3, <3>4, PostFrame
  <2>4. QED
    BY <1>2, <2>1, <2>2, <2>3, PostComers
<1>5. QED
  BY <1>3, <1>4

\* Deletions since a request had ended are still that.
LEMMA SinceStays ==
    ASSUME PostBase, PostBase', NEW r \in Req, Moves(r), ForPosts(r), NEW c, NEW i
    PROVE  \A d \in DeletionsSince(c, i) : d \in DeletionsSince(c, i)' /\ d \in Req
BY PostComers DEF PostBase, DeletionsSince, Deletions, Those, Moves

LEMMA StaysKept ==
    ASSUME PostBase, PostBase', PostAtWork, PostStays, NEW r \in Req, Moves(r), ForPosts(r)
    PROVE  PostStays'
<1> USE DEF PostBase
<1> SUFFICES ASSUME PostsInTurn', NEW c \in Creations', pc'[c] = "done"
             PROVE  /\ (\A d \in DeletionsSince(c, number[c])' : query'[d].user # query'[c].user)
                          => \E k \in DOMAIN posts' : posts'[k].req = c
                    /\ DeletionsSince(c, number[c])' = {} =>
                          text'[number'[c]] # None /\ text'[number'[c]].holds = {c}
  BY DEF PostStays
<1>1. PostsInTurn
  BY TurnsBefore
<1>2. c \in Req /\ query' = query
  BY DEF Creations, Those, Moves
<1>3. CASE c = r /\ AppendPost(r)
  <2>1. pc[r] = "written" /\ text' = text /\ number' = number
    BY <1>3 DEF AppendPost, At, postLocal
  <2>2. \E k \in DOMAIN posts' : posts'[k].req = c
    BY <1>3, PostAppended
  <2>3. QED
    BY <1>1, <1>3, <2>1, <2>2 DEF PostAtWork
<1>4. CASE c \in Creations /\ pc[c] = "done"
  <2> DEFINE later == DeletionsSince(c, number[c])
  <2>1. number'[c] = number[c]
    BY <1>4, NumberStays
  <2>2. \A d \in later : d \in later'
    BY <2>1, SinceStays
  <2>3. /\ (\A d \in later : query[d].user # query[c].user) =>
              \E k \in DOMAIN posts : posts[k].req = c
        /\ later = {} => text[number[c]] # None /\ text[number[c]].holds = {c}
    BY <1>1, <1>4 DEF PostStays
  <2>4. ASSUME \A d \in later : query[d].user # query[c].user
        PROVE  \E k \in DOMAIN posts : posts[k].req = c /\ posts[k].number = number[c]
                                      /\ posts[k].user = query[c].user
    <3>1. PICK k \in DOMAIN posts : posts[k].req = c
      BY <2>3, <2>4
    <3>2. QED
      BY <3>1 DEF PostLines, IsPost
\* A deletion under way came after the creation had ended.
  <2>5. ASSUME pc[r] = "sed" \/ sed[r] # None, query[r].number = number[c]
        PROVE  r \in later
    <3>1. r \in Deletions
      BY <2>5, Whereabouts DEF PostLines, Deletions, Those
    <3>2. c # r
      BY <1>4, <2>5 DEF PostLines
    <3>3. c \in before[r]
      BY <1>1, <1>4, <2>5, <3>2, OnlyOne DEF Changes
    <3>4. QED
      BY <2>5, <3>1, <3>3 DEF DeletionsSince
  <2>6. ASSUME \A d \in later' : query'[d].user # query'[c].user
        PROVE  \E k \in DOMAIN posts' : posts'[k].req = c
    <3>1. \A d \in later : query[d].user # query[c].user
      BY <1>2, <2>2, <2>6
    <3>2. PICK k \in DOMAIN posts :
              posts[k].req = c /\ posts[k].number = number[c] /\ posts[k].user = query[c].user
      BY <2>4, <3>1
    <3>3. CASE posts' = posts
      BY <3>2, <3>3
    <3>4. CASE AppendPost(r)
      BY <3>2, <3>4, PostAppended
    <3>5. CASE SedRename(r)
      <4>1. sed[r] # None /\ posts' = Kept(r)
        BY <1>1, <3>5 DEF SedRename, PostAtWork
      <4>2. ~Matches(posts[k], query[r])
        BY <2>5, <3>1, <3>2, <4>1 DEF Matches
      <4>3. QED
        BY <3>2, <4>1, <4>2, KeptIs
    <3>6. QED
      BY <3>3, <3>4, <3>5, PostFrame
  <2>7. ASSUME later' = {}
        PROVE  text'[number'[c]] # None /\ text'[number'[c]].holds = {c}
    <3>1. later = {}
      BY <2>2, <2>7
    <3>2. PICK k \in DOMAIN posts : posts[k].number = number[c]
      BY <2>4, <3>1
    <3>3. number[c] \in Number
      <4>1. posts[k] \in Post
        BY DEF PostTypeOK
      <4>2. QED
        BY <3>2, <4>1 DEF Post
    <3>4. CASE text' = text
      BY <2>1, <2>3, <3>1, <3>4
    <3>5. CASE OpenText(r) \/ WriteText(r)
      <4>1. pc[r] \in {"numbered", "opened"}
        BY <3>5 DEF OpenText, WriteText, At
      <4>2. number[c] < number[r]
        BY <1>1, <3>2, <4>1 DEF PostAtWork
      <4>3. number[c] # number[r]
        BY <3>3, <4>2 DEF Number
      <4>4. QED
        BY <2>1, <2>3, <3>1, <3>3, <3>5, <4>3, TextOpened, TextWritten
    <3>6. CASE RemoveText(r)
      <4>1. query[r].number # number[c]
        BY <2>5, <3>1, <3>6 DEF RemoveText, At
      <4>2. QED
        BY <2>1, <2>3, <3>1, <3>3, <3>6, <4>1 DEF RemoveText, PostTypeOK
    <3>7. QED
      BY <3>4, <3>5, <3>6, PostFrame
  <2>8. QED
    BY <2>6, <2>7
<1>5. (c \in Creations /\ pc[c] = "done") \/ (c = r /\ AppendPost(r))
  <2>1. ~(c = r /\ ReadMax(r))
    BY DEF ReadMax, Go, ProcessTypeOK
  <2>2. c \in Creations
    BY <1>2, <2>1, PostComers
  <2>3. QED
    BY <1>2, <2>2, PostComers
<1>6. QED
  BY <1>3, <1>4, <1>5

\* Changes apart from a page after the step were so before.
LEMMA ApartBefore ==
    ASSUME PostBase, NEW r \in Req, Moves(r), ForPosts(r), PostBase', NEW v \in Views,
           \A c \in Changes' : Apart(c, v)'
    PROVE  \A c \in Changes : Apart(c, v)
<1> USE DEF PostBase
<1> SUFFICES ASSUME NEW c \in Changes
             PROVE  Apart(c, v)
  OBVIOUS
<1>1. c \in Changes' /\ before'[c] = before[c]
  BY PostComers DEF Changes, Creations, Deletions, Those
<1>2. before'[v] = before[v]
  BY PostComers DEF Views, Those
<1>3. QED
  BY <1>1, <1>2 DEF Apart

LEMMA FoundKept ==
    ASSUME PostBase, PostBase', PostAtWork, FoundStays, NEW r \in Req, Moves(r), ForPosts(r)
    PROVE  FoundStays'
<1> USE DEF PostBase
<1> SUFFICES ASSUME PostsInTurn', NEW v \in Views', pc'[v] = "found",
                    \A c \in Changes' : Apart(c, v)'
             PROVE  \E k \in DOMAIN posts' : shown'[v].post = posts'[k]
  BY DEF FoundStays, Views, Changes
<1>1. PostsInTurn
  BY TurnsBefore
<1>2. v \in Req
  BY DEF Views, Those
<1>3. CASE v = r /\ FindLine(r)
  <2>1. posts' = posts
    BY <1>3 DEF FindLine
  <2>2. PICK k \in DOMAIN posts : shown' = [shown EXCEPT ![r] = [post |-> posts[k], text |-> {}]]
    <3>1. pc'[r] # "done"
      BY <1>3
    <3>2. QED
      BY <1>3, <3>1, PageFound DEF ProcessTypeOK
  <2>3. QED
    BY <1>3, <2>1, <2>2 DEF PostTypeOK
<1>4. CASE v \in Views /\ pc[v] = "found"
  <2>1. PICK k \in DOMAIN posts : shown[v].post = posts[k]
    BY <1>1, <1>4, ApartBefore DEF FoundStays, Views, Changes
  <2>2. shown'[v] = shown[v]
    <3>1. CASE v = r
      <4>1. ~FindLine(r) /\ ~ReadText(r)
        BY <1>4, <3>1 DEF FindLine, ReadText, Arrive, Go, ProcessTypeOK
      <4>2. QED
        BY <3>1, <4>1, PostFrame
    <3>2. CASE v # r
      BY <1>2, <3>2, PostFrame DEF FindLine, ReadText, PostTypeOK
    <3>3. QED
      BY <3>1, <3>2
  <2>3. CASE posts' = posts
    BY <2>1, <2>2, <2>3
  <2>4. CASE AppendPost(r)
    BY <2>1, <2>2, <2>4, PostAppended
  <2>5. CASE SedRename(r)
    <3>1. sed[r] # None
      BY <2>5 DEF SedRename
    <3>2. r \in Changes /\ pc[r] \notin Finished /\ r \notin before[v]
      BY <1>1, <1>2, <3>1, OnlyOne
    <3>3. v \notin before[r]
      BY <1>4 DEF Past, Finished
    <3>4. QED
      BY <1>4, <3>2, <3>3, ApartBefore DEF Apart
  <2>6. QED
    BY <2>3, <2>4, <2>5, PostFrame
<1>5. QED
  <2>1. v \in Views \/ (v = r /\ FindLine(r))
    BY <1>2, PostComers
  <2>2. pc[v] = "found" \/ (v = r /\ FindLine(r))
    BY <1>2, PostPlaces
  <2>3. QED
    BY <1>3, <1>4, <2>1, <2>2

LEMMA ShownKept ==
    ASSUME PostBase, PostBase', PostAtWork, TextBelongs, FoundStays, ShownTogether,
           NEW r \in Req, Moves(r), ForPosts(r)
    PROVE  ShownTogether'
<1> USE DEF PostBase
<1> SUFFICES ASSUME PostsInTurn', NEW v \in Views', pc'[v] = "done", shown'[v] # None,
                    \A c \in Changes' : Apart(c, v)'
             PROVE  shown'[v].text \subseteq Belongs(shown[v].post)'
  BY DEF ShownTogether, Views, Changes
<1>1. PostsInTurn
  BY TurnsBefore
<1>2. v \in Req
  BY DEF Views, Those
<1>3. CASE v = r /\ ReadText(r)
  <2>1. v \in Views /\ pc[v] = "found"
    BY <1>3, Whereabouts DEF ReadText, At, Views, Those
  <2>2. PICK k \in DOMAIN posts : shown[v].post = posts[k]
    BY <1>1, <2>1, ApartBefore DEF FoundStays, Views, Changes
  <2> DEFINE p == shown[v].post
             i == NamedFile(p)
  <2>3. p.title # None /\ i \in Number /\ text[i] # None
            => text[i].holds \subseteq {c \in Creations : number[c] = i}
    BY DEF PostLines, PostBase
  <2>4. /\ shown'[v].post = p /\ Creations' = Creations /\ number' = number
        /\ \/ p.title = Outside /\ shown'[v].text = {Outside}
           \/ /\ p.title # Outside
              /\ \/ shown'[v].text = {}
                 \/ i \in Number /\ text[i] # None /\ shown'[v].text = text[i].holds
    <3>1. Creations' = Creations
      BY <1>3 DEF ReadText, At, Go, Creations, Those, ProcessTypeOK
    <3>2. QED
      BY <1>3, <3>1, TextRead
  <2>5. CASE p.title = None
    <3>1. i = posts[k].number /\ text[i] # None => text[i].holds \subseteq {p.req}
      BY <1>1, <2>2, <2>5 DEF TextBelongs, NamedFile
    <3>2. i = posts[k].number
      BY <2>2, <2>5 DEF NamedFile
    <3>3. shown'[v].text \subseteq {p.req}
      BY <2>4, <2>5, <3>1, <3>2, BoardsAssumption
    <3>4. Belongs(shown[v].post)' = {p.req}
      BY <2>4, <2>5, BoardsAssumption DEF Belongs
    <3>5. QED
      BY <3>3, <3>4
  <2>6. CASE p.title = Outside
    BY <2>4, <2>6, BoardsAssumption DEF Belongs
  <2>7. CASE p.title \notin {None, Outside}
    <3>1. i = p.title
      BY <2>7 DEF NamedFile
    <3>2. shown'[v].text \subseteq {c \in Creations : number[c] = i}
      BY <2>3, <2>4, <2>7
    <3>3. Belongs(shown[v].post)' = {c \in Creations : number[c] = i}
      BY <2>4, <2>7, <3>1 DEF Belongs
    <3>4. QED
      BY <3>2, <3>3
  <2>8. QED
    BY <2>5, <2>6, <2>7
<1>4. CASE v = r /\ FindLine(r)
  BY <1>4, PageFound DEF PostTypeOK, ProcessTypeOK
<1>5. CASE v \in Views /\ pc[v] = "done"
  <2>1. shown'[v] = shown[v]
    <3>1. CASE v = r
      <4>1. ~FindLine(r) /\ ~ReadText(r)
        BY <1>5, <3>1 DEF FindLine, ReadText, Arrive, At
      <4>2. QED
        BY <3>1, <4>1, PostFrame
    <3>2. CASE v # r
      BY <1>2, <3>2, PostFrame, TextRead DEF FindLine, PostTypeOK
    <3>3. QED
      BY <3>1, <3>2
  <2>2. shown[v].text \subseteq Belongs(shown[v].post)
    BY <1>1, <1>5, <2>1, ApartBefore DEF ShownTogether, Views, Changes
  <2>3. ASSUME NEW c \in Creations
        PROVE  c \in Creations' /\ number'[c] = number[c]
    <3>1. number'[c] = number[c]
      BY NumberStays
    <3>2. c \in Creations'
      BY DEF Creations, Those, Moves
    <3>3. QED
      BY <3>1, <3>2
  <2>4. Belongs(shown[v].post) \subseteq Belongs(shown[v].post)'
    BY <2>1, <2>3 DEF Belongs
  <2>5. QED
    BY <2>1, <2>2, <2>4
<1>6. QED
  BY <1>2, <1>3, <1>4, <1>5, PostComers

---------------------------------------------------------------------------
\* The invariant of all of them

LEMMA InitOK == Init => IInv
<1> SUFFICES ASSUME Init
             PROVE  IInv
  OBVIOUS
<1> USE DEF Init, ProcessInit
<1>1. \A ops : Those(ops) = {}
  BY DEF Those
<1>2. ProcessTypeOK /\ Past /\ Control
  BY BoardsAssumption DEF ProcessTypeOK, Past, Control, Ended
<1>3. AnnouncementTypeOK /\ AnnouncementIsLast
  BY <1>1 DEF AnnouncementInit, AnnouncementTypeOK, AnnouncementIsLast, Savings
<1>4. MessageTypeOK /\ Dense(msgId)
  BY DEF MessageInit, MessageTypeOK, Dense
<1>5. MessageLines /\ MessageOrder
  <2>1. DOMAIN messages = {}
    BY DEF MessageInit
  <2>2. Sent = {}
    BY <1>1 DEF Sent
  <2>3. QED
    BY <2>1, <2>2 DEF MessageLines, MessageOrder
<1>6. PostTypeOK /\ Dense(number)
  BY DEF PostInit, PostTypeOK, Dense
<1>7. DOMAIN posts = {} /\ \A i \in Number : text[i] = None
  BY DEF PostInit
<1>8. \A r \in Req : sed[r] = None
  BY DEF PostInit
<1>9. PostLines /\ PostAtWork /\ TextBelongs
  BY <1>7, <1>8 DEF PostLines, PostAtWork, TextBelongs
<1>10. PostsLast /\ LineGone /\ ShownTogether /\ FoundStays
  BY <1>1 DEF PostsLast, PostStays, DeletedPostGone, LineGone, ShownTogether, FoundStays,
              Creations, Deletions
<1>11. QED
  BY <1>2, <1>3, <1>4, <1>5, <1>6, <1>9, <1>10 DEF IInv

LEMMA StutterOK ==
    ASSUME IInv, UNCHANGED vars
    PROVE  IInv'
<1> USE DEF vars, process, postVars, postLocal, messageVars
<1>1. (ProcessTypeOK /\ Past /\ Control /\ AnnouncementTypeOK)'
  BY DEF IInv, ProcessTypeOK, Past, Control, AnnouncementTypeOK
<1>2. AnnouncementIsLast'
  BY DEF IInv, AnnouncementIsLast, Savings, Those, OneByOne, Apart
<1>3. (MessageTypeOK /\ Dense(msgId) /\ MessageLines /\ MessageOrder)'
  BY DEF IInv, MessageTypeOK, Dense, MessageLines, MessageOrder, Sent, Those, OneByOne, Apart
<1>4. (PostTypeOK /\ Dense(number) /\ PostLines)'
  BY DEF IInv, PostTypeOK, Dense, PostLines, IsPost, Creations, Deletions, Those
<1>5. PostsInTurn' <=> PostsInTurn
  BY DEF PostsInTurn, Killed, Creations, Deletions, Those, OneByOne, Apart
<1>6. (PostAtWork /\ TextBelongs)'
  BY <1>5 DEF IInv, PostAtWork, TextBelongs, Kept, Matches
<1>7. (PostsLast /\ LineGone)'
  BY <1>5 DEF IInv, PostsLast, PostStays, DeletedPostGone, LineGone, DeletionsSince,
              Creations, Deletions, Those
<1>8. (ShownTogether /\ FoundStays)'
  BY <1>5 DEF IInv, ShownTogether, FoundStays, Belongs, Creations, Deletions, Those, Apart
<1>9. QED
  BY <1>1, <1>2, <1>3, <1>4, <1>6, <1>7, <1>8 DEF IInv

LEMMA AnnouncementTypeKept ==
    ASSUME AnnouncementTypeOK, NEW r \in Req, ForAnnouncement(r)
    PROVE  AnnouncementTypeOK'
BY DEF AnnouncementTypeOK, ForAnnouncement, AnnouncementStep, RefuseAnnouncement,
       OpenAnnouncement, WriteAnnouncement

LEMMA MessagesKept ==
    ASSUME ProcessTypeOK, Past, Control, ProcessTypeOK', Control', MessageInv, NEW r \in Req,
           Moves(r), ForMessages(r)
    PROVE  MessageInv'
<1>1. CASE UNCHANGED messageVars /\ (Still({"send"}) \/ Kill(r))
  BY <1>1, MessagesAside
<1>2. CASE RefuseMessage(r)
  <2>1. pc'[r] = "refused" /\ UNCHANGED messageVars
    BY <1>2 DEF RefuseMessage, Go, ProcessTypeOK
  <2>2. QED
    BY <2>1, StillIs, MessagesAside
<1>3. QED
  BY <1>1, <1>2, MessageNumbered, MessageAppended DEF ForMessages, MessageStep

LEMMA PostsKept ==
    ASSUME ProcessTypeOK, Past, Control, ProcessTypeOK', Past', Control', PostInv,
           NEW r \in Req, Moves(r), ForPosts(r)
    PROVE  PostInv'
<1>1. PostBase
  BY DEF PostBase, PostInv
<1>2. PostTypeOK'
  BY PostTypeKept DEF PostInv
<1>3. Dense(number)'
  BY NumberStays DEF PostInv
<1>4. PostLines'
  BY <1>2, PostLinesKept DEF PostInv
<1>5. PostBase'
  BY <1>2, <1>3, <1>4 DEF PostBase
<1>6. PostAtWork /\ TextBelongs /\ PostStays /\ DeletedPostGone /\ LineGone /\ ShownTogether
      /\ FoundStays
  BY DEF PostInv, PostsLast
<1>7. PostAtWork' /\ TextBelongs' /\ LineGone' /\ FoundStays'
  BY <1>1, <1>5, <1>6, PostAtWorkKept, TextBelongsKept, LineGoneKept, FoundKept
<1>8. DeletedPostGone' /\ PostStays' /\ ShownTogether'
  BY <1>1, <1>5, <1>6, <1>7, DeletedKept, StaysKept, ShownKept
<1>9. QED
  BY <1>2, <1>3, <1>4, <1>7, <1>8 DEF PostInv, PostsLast

LEMMA StepOK ==
    ASSUME IInv, Next
    PROVE  IInv'
<1>1. PICK r \in Req : Step(r)
  BY DEF Next
<1>2. /\ ProcessTypeOK /\ Past /\ Control /\ AnnouncementTypeOK /\ AnnouncementIsLast
      /\ MessageInv /\ PostInv
  BY DEF IInv, MessageInv, PostInv
<1>3. ProcessTypeOK' /\ Moves(r) /\ ForPosts(r) /\ ForMessages(r) /\ ForAnnouncement(r)
  BY <1>1, <1>2, StepIs
<1>4. Past'
  BY <1>2, <1>3, PastKept
<1>5. Control'
  BY <1>1, <1>2, ControlKept DEF MessageInv, PostInv
<1>6. AnnouncementTypeOK' /\ AnnouncementIsLast'
  BY <1>2, <1>3, AnnouncementTypeKept, AnnouncementKept
<1>7. MessageInv'
  BY <1>2, <1>3, <1>5, MessagesKept
<1>8. PostInv'
  BY <1>2, <1>3, <1>4, <1>5, PostsKept
<1>9. QED
  BY <1>3, <1>4, <1>5, <1>6, <1>7, <1>8 DEF IInv, MessageInv, PostInv

\* What requests are at, the lines they have left, and their numbers: from the first state
\* on, whatever step is taken (IInv of Boards).
THEOREM BoardsInvariance == Spec => []IInv
<1>1. IInv /\ [Next]_vars => IInv'
  BY StepOK, StutterOK
<1>2. QED
  BY InitOK, <1>1, PTL DEF Spec

\* The announcement is the one that was saved last (admin_announcement.c).
THEOREM AnnouncementTheorem == Spec => []AnnouncementIsLast
<1>1. IInv => AnnouncementIsLast
  BY DEF IInv
<1>2. QED
  BY BoardsInvariance, <1>1, PTL

\* A confirmed message is once in the outbox of its sender and in the inbox of its
\* receiver, and numbers ascend (send_message.c, inbox.c, outbox.c).
THEOREM MessageTheorem == Spec => []MessageArrives
<1>1. IInv => MessageArrives
  BY MessagesArrive DEF IInv, MessageInv
<1>2. QED
  BY BoardsInvariance, <1>1, PTL

\* What an author was told of a post lasts (create_post.c, delete_post.c).
THEOREM PostsTheorem == Spec => []PostsLast
<1>1. IInv => PostsLast
  BY DEF IInv
<1>2. QED
  BY BoardsInvariance, <1>1, PTL

\* A page shows the text of the post whose title it shows (view_post.c).
THEOREM ShownTheorem == Spec => []ShownTogether
<1>1. IInv => ShownTogether
  BY DEF IInv
<1>2. QED
  BY BoardsInvariance, <1>1, PTL

---------------------------------------------------------------------------
\* The ranking and the profiles

\* How many lines of a user there are grows with the number of lines looked at.
LEMMA OwnBounds ==
    ASSUME NEW u, NEW m \in Nat, NEW n \in 0 .. m
    PROVE  /\ Cardinality(Own(u, n)) \in Nat /\ Cardinality(Own(u, m)) \in Nat
           /\ Cardinality(OwnAccepted(u, n)) \in Nat /\ Cardinality(OwnAccepted(u, m)) \in Nat
           /\ Cardinality(Own(u, n)) <= Cardinality(Own(u, m))
           /\ Cardinality(OwnAccepted(u, n)) <= Cardinality(OwnAccepted(u, m))
<1>1. IsFiniteSet(1 .. m)
  BY FS_Interval
<1>2. /\ Own(u, n) \subseteq Own(u, m) /\ Own(u, m) \subseteq 1 .. m
      /\ OwnAccepted(u, n) \subseteq OwnAccepted(u, m) /\ OwnAccepted(u, m) \subseteq 1 .. m
  BY DEF Own, OwnAccepted
<1>3. IsFiniteSet(Own(u, m)) /\ IsFiniteSet(OwnAccepted(u, m))
  BY <1>1, <1>2, FS_Subset
<1>4. QED
  BY <1>2, <1>3, FS_Subset, FS_CardinalityType

OwnGrows ==
    \A u : \A m \in Nat : \A n \in 0 .. m :
        /\ Cardinality(Own(u, n)) \in Nat /\ Cardinality(OwnAccepted(u, n)) \in Nat
        /\ Cardinality(Own(u, n)) <= Cardinality(Own(u, m))
        /\ Cardinality(OwnAccepted(u, n)) <= Cardinality(OwnAccepted(u, m))

LEMMA OwnGrowsAlways == OwnGrows
BY OwnBounds DEF OwnGrows

LEMMA OwnGrowsNext == OwnGrows'
BY OwnGrowsAlways, PTL

\* The first lines stay as they are.
LEMMA OwnStays ==
    ASSUME submissions \in Seq(Judging), NEW l \in Judging,
           submissions' = Append(submissions, l)
    PROVE  /\ Len(submissions') = Len(submissions) + 1
           /\ \A n \in 0 .. Len(submissions) : \A u :
                 Own(u, n)' = Own(u, n) /\ OwnAccepted(u, n)' = OwnAccepted(u, n)
<1>1. /\ Len(submissions') = Len(submissions) + 1
      /\ \A k \in 1 .. Len(submissions) : submissions'[k] = submissions[k]
  OBVIOUS
<1>2. QED
  BY <1>1 DEF Own, OwnAccepted

\* What a step is for the ranking.
Pages == {"rank", "profile"}

ForRanking(r) ==
    \/ ScoreStep(r)
    \/ UNCHANGED scoreVars /\ (query[r].op \in Pages => pc'[r] \in {pc[r], "dead", "refused"})

LEMMA RankingStepIs ==
    ASSUME ProcessTypeOK, Control, NEW r \in Req, Step(r)
    PROVE  ForRanking(r)
<1> USE DEF ForRanking
<1>1. CASE PostStep(r) /\ UNCHANGED <<messageVars, announcement, scoreVars, formVars>>
  <2>1. query[r].op \notin Pages \/ pc' = pc
    BY <1>1, Whereabouts DEF PostStep, ReadMax, OpenText, WriteText, AppendPost, SedRead,
           SedRename, RemoveText, FindLine, ReadText, Arrive, At, process, Pages
  <2>2. QED
    BY <1>1, <2>1
<1>2. CASE MessageStep(r) /\ UNCHANGED <<postVars, announcement, scoreVars, formVars>>
  <2>1. query[r].op \notin Pages
    BY <1>2, Whereabouts DEF MessageStep, RefuseMessage, NextMessageId, AppendMessage, Arrive,
                             At, Pages
  <2>2. QED
    BY <1>2, <2>1
<1>3. CASE AnnouncementStep(r) /\ UNCHANGED <<postVars, messageVars, scoreVars, formVars>>
  <2>1. query[r].op \notin Pages
    BY <1>3, Whereabouts DEF AnnouncementStep, RefuseAnnouncement, OpenAnnouncement,
                             WriteAnnouncement, Arrive, At, Pages
  <2>2. QED
    BY <1>3, <2>1
<1>4. CASE FormStep(r) /\ UNCHANGED <<postVars, messageVars, announcement, scoreVars>>
  <2>1. query[r].op \notin Pages
    BY <1>4 DEF FormStep, Register, LogIn, Unregister, Appoint, Arrive, Pages
  <2>2. QED
    BY <1>4, <2>1
<1>5. CASE (Refuse(r) \/ Kill(r)) /\ UNCHANGED scoreVars
  BY <1>5 DEF Refuse, Kill, Go, ProcessTypeOK
<1>6. QED
  BY <1>1, <1>2, <1>3, <1>4, <1>5 DEF Step

LEMMA PageQueries ==
    ASSUME ProcessTypeOK, NEW r \in Req
    PROVE  /\ query[r].op = "submit" => query[r] \in Judging
           /\ query[r].op \in Pages =>
                 Listed(r) \in Seq(ScoreUser) /\ Listed(r) # <<>>
           /\ query[r].op = "rank" => Listed(r) = Accounts
           /\ query[r].op = "profile" => query[r].of \in ScoreUser /\ Listed(r) = <<query[r].of>>
<1>1. query[r] \in Creation \cup Deletion \cup Reading \cup Sending \cup Saving
                  \cup Judging \cup Ranking \cup Profile
                  \cup Registering \cup LoggingIn \cup Removing \cup Appointing
  BY DEF ProcessTypeOK, Asked
<1>2. /\ query[r] \in Creation => query[r].op = "create"
      /\ query[r] \in Deletion => query[r].op = "delete"
      /\ query[r] \in Reading => query[r].op = "view"
      /\ query[r] \in Sending => query[r].op = "send"
      /\ query[r] \in Saving => query[r].op = "announce"
      /\ query[r] \in Ranking => query[r].op = "rank"
      /\ query[r] \in Profile => query[r].op = "profile" /\ query[r].of \in ScoreUser
      /\ query[r] \in Judging => query[r].op = "submit"
      /\ query[r] \in Registering => query[r].op = "register"
      /\ query[r] \in LoggingIn => query[r].op = "login"
      /\ query[r] \in Removing => query[r].op = "unregister"
      /\ query[r] \in Appointing => query[r].op = "appoint"
  BY DEF Creation, Deletion, Reading, Sending, Saving, Judging, Ranking, Profile,
         Registering, LoggingIn, Removing, Appointing
<1>3. QED
  BY <1>1, <1>2, BoardsAssumption DEF Listed, Pages

LEMMA RowsInit == Init => RowsCounted
<1> SUFFICES ASSUME Init
             PROVE  RowsCounted
  OBVIOUS
<1>1. /\ submissions = <<>> /\ first = [r \in Req |-> 0] /\ rows = [r \in Req |-> <<>>]
      /\ pc = [r \in Req |-> "idle"]
  BY DEF Init, ScoreInit, ProcessInit
<1>2. \A r \in Req : RowsSoFar(r)
  BY <1>1 DEF RowsSoFar
<1>3. QED
  BY <1>1, <1>2 DEF RowsCounted
Counted == [user : ScoreUser, sub : Nat, ac : Nat]

\* Nothing, or a line is appended.
Grown == submissions' = submissions \/ \E l \in Judging : submissions' = Append(submissions, l)

LEMMA GrownIs ==
    ASSUME RowsCounted, Grown
    PROVE  /\ submissions' \in Seq(Judging)
           /\ Len(submissions) \in Nat /\ Len(submissions') \in Nat
           /\ Len(submissions) <= Len(submissions')
           /\ \A n \in 0 .. Len(submissions) : \A u :
                 Own(u, n)' = Own(u, n) /\ OwnAccepted(u, n)' = OwnAccepted(u, n)
<1>1. submissions \in Seq(Judging)
  BY DEF RowsCounted
<1>2. CASE submissions' = submissions
  BY <1>1, <1>2 DEF Own, OwnAccepted
<1>3. CASE \E l \in Judging : submissions' = Append(submissions, l)
  <2>1. PICK l \in Judging : submissions' = Append(submissions, l)
    BY <1>3
  <2>2. QED
    BY <1>1, <2>1, OwnStays
<1>4. QED
  BY <1>2, <1>3 DEF Grown

\* A row stays right when lines are appended.
LEMMA RowStays ==
    ASSUME RowsCounted, Grown, NEW q \in Req, NEW k \in DOMAIN rows[q],
           rows'[q] = rows[q], first'[q] = first[q], query'[q] = query[q],
           pc[q] \in {"accepted", "dead"} => pc'[q] \in {"accepted", "dead"}
    PROVE  RowRight(q, k)'
<1>1. PICK row \in Counted, f \in 0 .. Len(submissions) : row = rows[q][k] /\ f = first[q]
  <2>1. rows[q] \in Seq(Counted) /\ first[q] \in 0 .. Len(submissions)
    BY DEF RowsCounted, Counted
  <2>2. rows[q][k] \in Counted
    BY <2>1
  <2>3. QED
    BY <2>1, <2>2
<1>2. PICK n \in Nat, m \in Nat : n = Len(submissions) /\ m = Len(submissions') /\ n <= m
  BY GrownIs
<1> DEFINE u == row.user
<1>3. /\ Own(u, f)' = Own(u, f) /\ OwnAccepted(u, f)' = OwnAccepted(u, f)
      /\ Own(u, n)' = Own(u, n) /\ OwnAccepted(u, n)' = OwnAccepted(u, n)
  BY <1>1, <1>2, GrownIs
<1>4. /\ Cardinality(Own(u, n)') \in Nat /\ Cardinality(OwnAccepted(u, n)') \in Nat
      /\ Cardinality(Own(u, m)') \in Nat /\ Cardinality(OwnAccepted(u, m)') \in Nat
      /\ Cardinality(Own(u, n)') <= Cardinality(Own(u, m)')
      /\ Cardinality(OwnAccepted(u, n)') <= Cardinality(OwnAccepted(u, m)')
  BY <1>2, OwnGrowsNext DEF OwnGrows
<1>5. Cardinality(OwnAccepted(u, f)) \in Nat
  BY <1>1, <1>2, OwnGrowsAlways DEF OwnGrows
<1>6. Listed(q)' = Listed(q)
  BY DEF Listed
<1>7. RowRight(q, k)
  BY DEF RowsCounted
<1>8. row.sub \in Nat /\ row.ac \in Nat
  BY DEF Counted
<1>9. /\ rows'[q][k] = row /\ first'[q] = f /\ query'[q] = query[q]
      /\ Len(rows'[q]) = Len(rows[q])
  BY <1>1
<1>10. /\ u = Listed(q)[k]
       /\ row.sub >= Cardinality(Own(u, f))
       /\ query[q].op = "profile" \/ u \notin Problem => row.sub <= Cardinality(Own(u, n))
       /\ \/ pc[q] \in {"accepted", "dead"} /\ k = Len(rows[q])
          \/ row.ac \in Cardinality(OwnAccepted(u, f)) .. Cardinality(OwnAccepted(u, n))
  BY <1>1, <1>2, <1>7 DEF RowRight
<1> HIDE DEF u
<1>11. /\ row.user = Listed(q)'[k]
       /\ row.sub >= Cardinality(Own(u, f)')
       /\ query'[q].op = "profile" \/ u \notin Problem => row.sub <= Cardinality(Own(u, m)')
       /\ \/ pc'[q] \in {"accepted", "dead"} /\ k = Len(rows'[q])
          \/ row.ac \in Cardinality(OwnAccepted(u, f)') .. Cardinality(OwnAccepted(u, m)')
  <2>1. row.user = Listed(q)'[k] /\ row.sub >= Cardinality(Own(u, f)')
    BY <1>3, <1>6, <1>10 DEF u
  <2>2. ASSUME query'[q].op = "profile" \/ u \notin Problem
        PROVE  row.sub <= Cardinality(Own(u, m)')
    <3>1. row.sub <= Cardinality(Own(u, n)')
      BY <1>3, <1>10, <2>2
    <3>2. QED
      BY <1>4, <1>8, <3>1
  <2>3. CASE pc[q] \in {"accepted", "dead"} /\ k = Len(rows[q])
    BY <2>1, <2>2, <2>3, <1>9
  <2>4. CASE row.ac \in Cardinality(OwnAccepted(u, f)) .. Cardinality(OwnAccepted(u, n))
    <3>1. row.ac \in Cardinality(OwnAccepted(u, f)') .. Cardinality(OwnAccepted(u, m)')
      BY <1>3, <1>4, <1>5, <1>8, <2>4
    <3>2. QED
      BY <2>1, <2>2, <3>1
  <2>5. QED
    BY <1>10, <2>3, <2>4
<1>12. QED
  BY <1>2, <1>9, <1>11 DEF RowRight, u

\* What a step leaves of the rows of a request that it is not about.
LEMMA RowsStay ==
    ASSUME RowsCounted, Grown, NEW q \in Req, query'[q] = query[q],
           rows'[q] = rows[q], pc[q] # "idle" => first'[q] = first[q],
           pc'[q] = pc[q] \/ pc'[q] \notin {"idle", "count", "accepted"},
           query[q].op \in Pages => pc'[q] \in {pc[q], "dead", "refused"},
           pc[q] = "dead" => pc'[q] = "dead",
           pc[q] = "accepted" => query[q].op \in Pages /\ pc'[q] # "refused"
    PROVE  RowsSoFar(q)' /\ \A k \in DOMAIN rows'[q] : RowRight(q, k)'
<1>1. RowsSoFar(q) /\ Listed(q)' = Listed(q)
  BY DEF RowsCounted, Listed
<1>2. RowsSoFar(q)'
  BY <1>1 DEF RowsSoFar, Pages
<1>3. ASSUME NEW k \in DOMAIN rows[q]
      PROVE  RowRight(q, k)'
  <2>1. rows[q] # <<>>
    <3>1. rows[q] \in Seq(Counted)
      BY DEF RowsCounted, Counted
    <3>2. QED
      BY <1>3, <3>1
  <2>2. pc[q] # "idle"
    BY <1>1, <2>1 DEF RowsSoFar
  <2>3. pc[q] \in {"accepted", "dead"} => pc'[q] \in {"accepted", "dead"}
    OBVIOUS
  <2>4. QED
    BY <1>3, <2>2, <2>3, RowStays
<1>4. QED
  BY <1>2, <1>3

\* Where rows and lines are, and what other requests have counted.
LEMMA OthersCount ==
    ASSUME ProcessTypeOK, Control, RowsCounted, Grown, NEW r \in Req, Moves(r),
           NEW q \in Req, q # r, rows'[q] = rows[q], first'[q] = first[q]
    PROVE  RowsSoFar(q)' /\ \A k \in DOMAIN rows'[q] : RowRight(q, k)'
<1>1. pc'[q] = pc[q] /\ query'[q] = query[q]
  BY DEF Moves
<1>2. pc[q] = "accepted" => query[q].op \in Pages /\ pc'[q] # "refused"
  BY <1>1, Whereabouts DEF Pages
<1>3. QED
  BY <1>1, <1>2, RowsStay

LEMMA CountedIs ==
    ASSUME RowsCounted, NEW r \in Req
    PROVE  /\ rows[r] \in Seq(Counted) /\ first[r] \in 0 .. Len(submissions)
           /\ Len(submissions) \in Nat
           /\ DOMAIN rows = Req /\ DOMAIN first = Req
<1>1. submissions \in Seq(Judging)
  BY DEF RowsCounted
<1>2. Len(submissions) \in Nat
  BY <1>1
<1>3. first \in [Req -> 0 .. Len(submissions)] /\ rows \in [Req -> Seq(Counted)]
  BY DEF RowsCounted, Counted
<1>4. QED
  BY <1>2, <1>3

LEMMA LineAppended ==
    ASSUME ProcessTypeOK, Control, RowsCounted, NEW r \in Req, Moves(r), AppendScore(r)
    PROVE  RowsCounted'
<1>1. /\ query[r].op = "submit" /\ pc[r] = "idle" /\ pc'[r] = "done"
      /\ submissions' = Append(submissions, query[r]) /\ rows' = rows /\ first' = first
  BY DEF AppendScore, Arrive, Go, ProcessTypeOK
<1>2. query[r] \in Judging
  BY <1>1, PageQueries
<1>3. Grown
  BY <1>1, <1>2 DEF Grown
<1>4. ASSUME NEW q \in Req
      PROVE  RowsSoFar(q)' /\ \A k \in DOMAIN rows'[q] : RowRight(q, k)'
  <2>1. CASE q = r
    BY <1>1, <1>3, <2>1, RowsStay DEF Pages, Moves
  <2>2. CASE q # r
    BY <1>1, <1>3, <2>2, OthersCount
  <2>3. QED
    BY <2>1, <2>2
<1>5. first' \in [Req -> 0 .. Len(submissions')]
  BY <1>1, <1>3, GrownIs DEF RowsCounted
<1>6. submissions' \in Seq(Judging)
  BY <1>3, GrownIs
<1>7. rows' \in [Req -> Seq([user : ScoreUser, sub : Nat, ac : Nat])]
  BY <1>1 DEF RowsCounted
<1>8. QED
  BY <1>4, <1>5, <1>6, <1>7 DEF RowsCounted

LEMMA PageBegun ==
    ASSUME ProcessTypeOK, Control, RowsCounted, NEW r \in Req, Moves(r), BeginPage(r)
    PROVE  RowsCounted'
<1>1. /\ query[r].op \in Pages /\ pc[r] = "idle" /\ pc'[r] = "count"
      /\ first' = [first EXCEPT ![r] = Len(submissions)]
      /\ submissions' = submissions /\ rows' = rows /\ query'[r] = query[r]
  BY DEF BeginPage, Arrive, Go, ProcessTypeOK, Pages
<1>2. Grown
  BY <1>1 DEF Grown
<1>3. Listed(r) \in Seq(ScoreUser) /\ Listed(r) # <<>> /\ Listed(r)' = Listed(r)
  <2>1. Listed(r) \in Seq(ScoreUser) /\ Listed(r) # <<>>
    BY <1>1, PageQueries
  <2>2. QED
    BY <1>1, <2>1 DEF Listed
<1>4. rows[r] = <<>>
  BY <1>1 DEF RowsCounted, RowsSoFar
<1>5. RowsSoFar(r)' /\ DOMAIN rows'[r] = {}
  BY <1>1, <1>3, <1>4 DEF RowsSoFar
<1>6. ASSUME NEW q \in Req
      PROVE  RowsSoFar(q)' /\ \A k \in DOMAIN rows'[q] : RowRight(q, k)'
  <2>1. CASE q = r
    BY <1>5, <2>1
  <2>2. CASE q # r
    <3>1. first'[q] = first[q]
      BY <1>1, <2>2, CountedIs
    <3>2. QED
      BY <1>1, <1>2, <2>2, <3>1, OthersCount
  <2>3. QED
    BY <2>1, <2>2
<1>7. first' \in [Req -> 0 .. Len(submissions')]
  BY <1>1, CountedIs DEF RowsCounted
<1>8. QED
  BY <1>1, <1>6, <1>7 DEF RowsCounted

\* Only the process moves.
LEMMA OnlyMoves ==
    ASSUME ProcessTypeOK, Control, RowsCounted, NEW r \in Req, Moves(r), Control', ProcessTypeOK',
           UNCHANGED scoreVars, query[r].op \in Pages => pc'[r] \in {pc[r], "dead", "refused"}
    PROVE  RowsCounted'
<1>1. submissions' = submissions /\ rows' = rows /\ first' = first /\ Grown
  BY DEF scoreVars, Grown
<1>2. ASSUME NEW q \in Req
      PROVE  RowsSoFar(q)' /\ \A k \in DOMAIN rows'[q] : RowRight(q, k)'
  <2>1. CASE q = r
    <3>1. query'[r] = query[r] /\ (pc'[r] = "idle" => pc[r] = "idle")
          /\ (pc[r] = "dead" => pc'[r] = "dead")
          /\ (pc'[r] = "refused" => pc[r] \in {"idle", "refused"})
      BY DEF Moves, Ended, Finished
    <3>2. pc[r] = "accepted" => query[r].op \in Pages
      BY Whereabouts DEF Pages
    <3>3. pc'[r] \in {"count", "accepted"} => query[r].op \in Pages
      <4>1. pc'[r] \in {"count", "accepted"} => query'[r].op \in Pages
        BY DEF Control, Pages
      <4>2. QED
        BY <3>1, <4>1
    <3>4. pc'[r] = pc[r] \/ pc'[r] \notin {"idle", "count", "accepted"}
      BY <3>1, <3>3
    <3>5. QED
      BY <1>1, <2>1, <3>1, <3>2, <3>4, RowsStay
  <2>2. CASE q # r
    BY <1>1, <2>2, OthersCount
  <2>3. QED
    BY <2>1, <2>2
<1>3. QED
  BY <1>1, <1>2 DEF RowsCounted

\* The number of lines of a user is counted: a row more.
LEMMA SubmissionsCounted ==
    ASSUME ProcessTypeOK, Control, RowsCounted, NEW r \in Req, Moves(r), CountSubmissions(r)
    PROVE  RowsCounted'
<1> DEFINE n == Len(rows[r])
           u == Listed(r)[n + 1]
           mine == {k \in DOMAIN submissions :
                        \/ submissions[k].user = u
                        \/ query[r].op = "rank" /\ submissions[k].problem = u}
           new == [user |-> u, sub |-> Cardinality(mine), ac |-> 0]
<1>1. /\ pc[r] = "count" /\ pc'[r] = "accepted" /\ query'[r] = query[r] /\ first' = first
      /\ submissions' = submissions /\ rows' = [rows EXCEPT ![r] = Append(@, new)]
  BY DEF CountSubmissions, At, Go, ProcessTypeOK
<1>2. query[r].op \in Pages
  BY <1>1, Whereabouts DEF Pages
<1>3. Listed(r) \in Seq(ScoreUser) /\ Listed(r)' = Listed(r) /\ n < Len(Listed(r))
  BY <1>1, <1>2, PageQueries DEF Listed, RowsCounted, RowsSoFar
<1>4. rows[r] \in Seq(Counted) /\ n \in Nat
  BY CountedIs
<1>5. u \in ScoreUser
  BY <1>3, <1>4
<1>6. PICK f \in Nat, m \in Nat : f = first[r] /\ m = Len(submissions) /\ f <= m
  BY CountedIs
<1>7. IsFiniteSet(mine) /\ Own(u, m) \subseteq mine
      /\ (query[r].op = "profile" \/ u \notin Problem => mine = Own(u, m))
  <2>1. submissions \in Seq(Judging)
    BY DEF RowsCounted
  <2>2. DOMAIN submissions = 1 .. m
    BY <1>6, <2>1
  <2>3. IsFiniteSet(1 .. m)
    BY FS_Interval
  <2>4. IsFiniteSet(mine)
    BY <2>2, <2>3, FS_Subset
  <2>5. \A k \in 1 .. m : submissions[k].problem \in Problem
    <3>1. \A k \in 1 .. m : submissions[k] \in Judging
      BY <2>1, <2>2
    <3>2. QED
      BY <3>1, Zenon DEF Judging
  <2>6. QED
    BY <2>2, <2>4, <2>5 DEF Own
<1>8. /\ Cardinality(mine) \in Nat /\ Cardinality(Own(u, f)) <= Cardinality(mine)
      /\ query[r].op = "profile" \/ u \notin Problem
            => Cardinality(mine) <= Cardinality(Own(u, m))
  <2>1. PICK v : v = u
    OBVIOUS
  <2>2. /\ Cardinality(Own(v, f)) \in Nat /\ Cardinality(Own(v, m)) \in Nat
        /\ Cardinality(Own(v, f)) <= Cardinality(Own(v, m))
    BY <1>6, OwnGrowsAlways DEF OwnGrows
  <2>3. Cardinality(mine) \in Nat /\ Cardinality(Own(u, m)) <= Cardinality(mine)
    BY <1>7, FS_Subset, FS_CardinalityType
  <2> HIDE DEF u, mine
  <2>4. QED
    BY <1>7, <2>1, <2>2, <2>3
<1>9. new \in Counted
  BY <1>5, <1>8 DEF Counted
<1> HIDE DEF new
<1>10. /\ rows'[r] = Append(rows[r], new) /\ rows'[r] \in Seq(Counted)
       /\ Len(rows'[r]) = n + 1 /\ rows'[r][n + 1] = new
       /\ \A k \in 1 .. n : rows'[r][k] = rows[r][k]
  BY <1>1, <1>4, <1>9, CountedIs
<1>11. Grown
  BY <1>1 DEF Grown
<1>12. RowsSoFar(r)'
  BY <1>1, <1>3, <1>4, <1>10 DEF RowsSoFar
<1>13. ASSUME NEW k \in DOMAIN rows'[r]
       PROVE  RowRight(r, k)'
  <2>1. CASE k = n + 1
    <3>1. /\ new.user = Listed(r)'[k]
          /\ new.sub >= Cardinality(Own(u, f))
          /\ query[r].op = "profile" \/ u \notin Problem => new.sub <= Cardinality(Own(u, m))
          /\ new.user = u
      BY <1>3, <1>8, <2>1 DEF new
    <3>2. PICK v : v = u
      OBVIOUS
    <3>3. Own(v, f)' = Own(v, f) /\ Own(v, m)' = Own(v, m)
      BY <1>1 DEF Own
    <3>4. /\ first'[r] = f /\ Len(submissions') = m
          /\ rows'[r][k] = new /\ pc'[r] \in {"accepted", "dead"} /\ k = Len(rows'[r])
          /\ new.sub >= Cardinality(Own(v, f)')
          /\ query'[r].op = "profile" \/ v \notin Problem => new.sub <= Cardinality(Own(v, m)')
      BY <1>1, <1>6, <1>10, <2>1, <3>1, <3>2, <3>3
    <3> HIDE DEF u
    <3>5. QED
      BY <3>1, <3>2, <3>4 DEF RowRight
  <2>2. CASE k # n + 1
    <3>1. k \in DOMAIN rows[r] /\ rows'[r][k] = rows[r][k]
      BY <1>4, <1>10, <2>2
    <3>2. PICK row \in Counted : row = rows[r][k]
      BY <1>4, <3>1
    <3>3. RowRight(r, k) /\ pc[r] \notin {"accepted", "dead"}
      BY <1>1, <3>1 DEF RowsCounted
    <3>4. /\ Own(row.user, f)' = Own(row.user, f) /\ Own(row.user, m)' = Own(row.user, m)
          /\ OwnAccepted(row.user, f)' = OwnAccepted(row.user, f)
          /\ OwnAccepted(row.user, m)' = OwnAccepted(row.user, m)
      BY <1>1 DEF Own, OwnAccepted
    <3>5. /\ first'[r] = f /\ Len(submissions') = m /\ rows'[r][k] = row
      BY <1>1, <1>6, <3>1, <3>2
    <3>6. /\ row.user = Listed(r)[k]
          /\ row.sub >= Cardinality(Own(row.user, f))
          /\ query[r].op = "profile" \/ row.user \notin Problem
                => row.sub <= Cardinality(Own(row.user, m))
          /\ row.ac \in Cardinality(OwnAccepted(row.user, f))
                             .. Cardinality(OwnAccepted(row.user, m))
      BY <1>6, <3>2, <3>3 DEF RowRight
    <3>7. QED
      BY <1>1, <1>3, <3>4, <3>5, <3>6 DEF RowRight
  <2>3. QED
    BY <2>1, <2>2
<1>14. ASSUME NEW q \in Req, q # r
       PROVE  RowsSoFar(q)' /\ \A k \in DOMAIN rows'[q] : RowRight(q, k)'
  <2>1. rows'[q] = rows[q] /\ first'[q] = first[q]
    BY <1>1, <1>14, CountedIs
  <2>2. QED
    BY <1>11, <1>14, <2>1, OthersCount
<1>15. rows' \in [Req -> Seq(Counted)]
  <2>1. rows \in [Req -> Seq(Counted)]
    BY DEF RowsCounted, Counted
  <2>2. QED
    BY <1>1, <1>10, <2>1
<1>16. submissions' \in Seq(Judging) /\ first' \in [Req -> 0 .. Len(submissions')]
  BY <1>1 DEF RowsCounted
<1>17. \A q \in Req : RowsSoFar(q)' /\ \A k \in DOMAIN rows'[q] : RowRight(q, k)'
  BY <1>12, <1>13, <1>14
<1>18. QED
  BY <1>15, <1>16, <1>17 DEF RowsCounted, Counted

\* The accepted ones among them are counted.
LEMMA AcceptedCounted ==
    ASSUME ProcessTypeOK, Control, RowsCounted, NEW r \in Req, Moves(r), CountAccepted(r)
    PROVE  RowsCounted'
<1> DEFINE n == Len(rows[r])
           old == rows[r][n]
           mine == {j \in DOMAIN submissions :
                        submissions[j].user = old.user /\ Accepted(submissions[j])}
           new == [old EXCEPT !.ac = Cardinality(mine)]
<1>1. /\ pc[r] = "accepted" /\ query'[r] = query[r] /\ first' = first
      /\ pc'[r] = IF n = Len(Listed(r)) THEN "done" ELSE "count"
      /\ submissions' = submissions /\ rows' = [rows EXCEPT ![r][n].ac = Cardinality(mine)]
  BY DEF CountAccepted, At, Go, ProcessTypeOK
<1>2. query[r].op \in Pages
  BY <1>1, Whereabouts DEF Pages
<1>3. Listed(r) \in Seq(ScoreUser) /\ Listed(r)' = Listed(r) /\ n \in 1 .. Len(Listed(r))
  BY <1>1, <1>2, PageQueries DEF Listed, RowsCounted, RowsSoFar
<1>4. rows[r] \in Seq(Counted) /\ n \in Nat /\ n \in DOMAIN rows[r]
  BY <1>3, CountedIs
<1>5. old \in Counted
  BY <1>4
<1>6. PICK f \in Nat, m \in Nat, u \in {old.user} :
          f = first[r] /\ m = Len(submissions) /\ f <= m
  BY CountedIs
<1>7. mine = OwnAccepted(u, m)
  <2>1. submissions \in Seq(Judging)
    BY DEF RowsCounted
  <2>2. DOMAIN submissions = 1 .. m
    BY <1>6, <2>1
  <2>3. QED
    BY <1>6, <2>2 DEF OwnAccepted, Own, Accepted
<1>8. /\ Cardinality(OwnAccepted(u, f)) \in Nat /\ Cardinality(OwnAccepted(u, m)) \in Nat
      /\ Cardinality(OwnAccepted(u, f)) <= Cardinality(OwnAccepted(u, m))
  BY <1>6, OwnGrowsAlways DEF OwnGrows
<1>9. new \in Counted /\ new.user = u /\ new.sub = old.sub
      /\ new.ac = Cardinality(OwnAccepted(u, m))
  <2>1. Cardinality(mine) \in Nat
    BY <1>7, <1>8
  <2> HIDE DEF mine
  <2>2. new \in Counted /\ new.user = old.user /\ new.sub = old.sub
        /\ new.ac = Cardinality(mine)
    BY <1>5, <2>1 DEF Counted
  <2>3. QED
    BY <1>6, <1>7, <2>2
<1>10. rows'[r] = [rows[r] EXCEPT ![n] = new]
  BY <1>1, CountedIs
<1> HIDE DEF new
<1>11. /\ rows'[r] \in Seq(Counted) /\ Len(rows'[r]) = n /\ rows'[r][n] = new
       /\ \A k \in 1 .. n : k # n => rows'[r][k] = rows[r][k]
       /\ DOMAIN rows'[r] = 1 .. n
  BY <1>4, <1>9, <1>10
<1>12. RowsSoFar(r)'
  BY <1>1, <1>3, <1>4, <1>11 DEF RowsSoFar
<1>13. ASSUME NEW k \in DOMAIN rows'[r]
       PROVE  RowRight(r, k)'
  <2>1. PICK row \in Counted, upd \in Counted : row = rows[r][k] /\ upd = rows'[r][k]
    <3>1. k \in DOMAIN rows[r]
      BY <1>4, <1>11
    <3>2. QED
      BY <1>4, <1>11, <3>1
  <2>2. upd.user = row.user /\ upd.sub = row.sub
    BY <1>6, <1>9, <1>11, <2>1
  <2>3. k \in DOMAIN rows[r] /\ RowRight(r, k)
    BY <1>4, <1>11 DEF RowsCounted
  <2>4. /\ Own(row.user, f)' = Own(row.user, f) /\ Own(row.user, m)' = Own(row.user, m)
        /\ OwnAccepted(row.user, f)' = OwnAccepted(row.user, f)
        /\ OwnAccepted(row.user, m)' = OwnAccepted(row.user, m)
    BY <1>1 DEF Own, OwnAccepted
  <2>5. /\ row.user = Listed(r)[k]
        /\ row.sub >= Cardinality(Own(row.user, f))
        /\ query[r].op = "profile" \/ row.user \notin Problem
              => row.sub <= Cardinality(Own(row.user, m))
        /\ \/ k = n
           \/ row.ac \in Cardinality(OwnAccepted(row.user, f))
                              .. Cardinality(OwnAccepted(row.user, m))
    BY <1>6, <2>1, <2>3 DEF RowRight
  <2>6. upd.ac \in Cardinality(OwnAccepted(row.user, f))
                        .. Cardinality(OwnAccepted(row.user, m))
    <3>1. CASE k = n
      BY <1>6, <1>8, <1>9, <1>11, <2>1, <3>1
    <3>2. CASE k # n
      BY <1>11, <2>1, <2>5, <3>2
    <3>3. QED
      BY <3>1, <3>2
  <2>7. first'[r] = f /\ Len(submissions') = m
    BY <1>1, <1>6
  <2>8. QED
    BY <1>1, <1>3, <2>1, <2>2, <2>4, <2>5, <2>6, <2>7 DEF RowRight
<1>14. Grown
  BY <1>1 DEF Grown
<1>15. ASSUME NEW q \in Req, q # r
       PROVE  RowsSoFar(q)' /\ \A k \in DOMAIN rows'[q] : RowRight(q, k)'
  <2>1. rows'[q] = rows[q] /\ first'[q] = first[q]
    BY <1>1, <1>15, CountedIs
  <2>2. QED
    BY <1>14, <1>15, <2>1, OthersCount
<1>16. rows' \in [Req -> Seq(Counted)]
  <2>1. rows \in [Req -> Seq(Counted)]
    BY DEF RowsCounted, Counted
  <2>2. QED
    BY <1>1, <1>11, <2>1
<1>17. submissions' \in Seq(Judging) /\ first' \in [Req -> 0 .. Len(submissions')]
  BY <1>1 DEF RowsCounted
<1>18. \A q \in Req : RowsSoFar(q)' /\ \A k \in DOMAIN rows'[q] : RowRight(q, k)'
  BY <1>12, <1>13, <1>15
<1>19. QED
  BY <1>16, <1>17, <1>18 DEF RowsCounted, Counted

LEMMA RowsKept ==
    ASSUME IInv, RowsCounted, Next
    PROVE  RowsCounted'
<1>1. PICK r \in Req : Step(r)
  BY DEF Next
<1>2. ProcessTypeOK /\ Control /\ Control' /\ ProcessTypeOK'
  BY StepOK DEF IInv
<1>3. Moves(r) /\ ForRanking(r)
  BY <1>1, <1>2, StepIs, RankingStepIs
<1>4. CASE ScoreStep(r)
  BY <1>2, <1>3, <1>4, LineAppended, PageBegun, SubmissionsCounted, AcceptedCounted DEF ScoreStep
<1>5. QED
  BY <1>2, <1>3, <1>4, OnlyMoves DEF ForRanking

LEMMA RowsStutter ==
    ASSUME RowsCounted, UNCHANGED vars
    PROVE  RowsCounted'
<1>1. submissions' = submissions /\ rows' = rows /\ first' = first /\ query' = query /\ pc' = pc
  BY DEF vars, process, scoreVars
<1>2. \A r \in Req : RowsSoFar(r)' <=> RowsSoFar(r)
  BY <1>1 DEF RowsSoFar, Listed
<1>3. \A r \in Req : \A k : RowRight(r, k)' <=> RowRight(r, k)
  BY <1>1 DEF RowRight, Listed, Own, OwnAccepted
<1>4. QED
  BY <1>1, <1>2, <1>3 DEF RowsCounted

\* What the pages that count submissions have counted, while submissions come.
THEOREM RankingInvariance == Spec => [](IInv /\ RowsCounted)
<1>1. IInv /\ RowsCounted /\ [Next]_vars => (IInv /\ RowsCounted)'
  BY StepOK, StutterOK, RowsKept, RowsStutter
<1>2. QED
  BY InitOK, RowsInit, <1>1, PTL DEF Spec

\* The loop over the sorted rows: what it has seen after one more row ...
SeenNext(seen, row, page) ==
    IF seen.rank \in (page - 1) * PageSize + 1 .. page * PageSize
    THEN IF row.sub = 0 THEN seen
         ELSE [rank |-> seen.rank + 1, shown |-> Append(seen.shown, row)]
    ELSE [seen EXCEPT !.rank = @ + 1]

Fresh == [rank |-> 1, shown |-> <<>>]

\* ... and after the rows of a set.
SeenStep(sorted, page, f) ==
    [S \in SUBSET DOMAIN sorted |->
        IF S = {} THEN Fresh ELSE SeenNext(f[S \ {Max(S)}], sorted[Max(S)], page)]

LEMMA PageIs ==
    ASSUME NEW sorted, NEW page
    PROVE  Page(sorted, page) =
               (CHOOSE f : f = SeenStep(sorted, page, f))[DOMAIN sorted].shown
BY Zenon DEF Page, FoldLeft, MapThenFoldSet, SeenStep, SeenNext, Fresh

Seen == [rank : Nat, shown : Seq(Counted)]

LEMMA SeenNextIn ==
    ASSUME NEW seen \in Seen, NEW row \in Counted, NEW page
    PROVE  SeenNext(seen, row, page) \in Seen
<1>1. seen.rank \in Nat /\ seen.shown \in Seq(Counted)
  BY DEF Seen
<1>2. Append(seen.shown, row) \in Seq(Counted)
  <2> HIDE DEF Counted
  <2>1. QED
    BY <1>1
<1>3. [rank |-> seen.rank + 1, shown |-> Append(seen.shown, row)] \in Seen
  BY <1>1, <1>2 DEF Seen
<1>4. [seen EXCEPT !.rank = @ + 1] \in Seen
  BY <1>1 DEF Seen
<1>5. QED
  BY <1>3, <1>4 DEF SeenNext

LEMMA LatestIsMax ==
    ASSUME NEW s, NEW S \in SUBSET DOMAIN s
    PROVE  Latest(s)[S] = Max(S)
BY Zenon DEF Latest, Max

\* The loop has a result, which its steps make from one row after the other.
LEMMA SeenExists ==
    ASSUME NEW sorted \in Seq(Counted), NEW page
    PROVE  \E f : /\ f = SeenStep(sorted, page, f)
                  /\ Page(sorted, page) = f[DOMAIN sorted].shown
<1> DEFINE D == DOMAIN sorted
           V == Seen
           c == Latest(sorted)
           after(f) == SeenStep(sorted, page, f)
<1>1. /\ IsFiniteSet(D) /\ Chooses(c, D)
      /\ \A S \in SUBSET D : S # {} => c[S] = Max(S)
  <2> HIDE DEF Counted
  <2>1. QED
    BY LatestIs, LatestIsMax
<1>2. ASSUME NEW s \in V, NEW k \in D
      PROVE  SeenNext(s, sorted[k], page) \in V
  <2>1. sorted[k] \in Counted
    <3> HIDE DEF Counted
    <3>1. QED
      OBVIOUS
  <2>2. QED
    BY <2>1, SeenNextIn
<1>3. Fresh \in V
  <2>1. <<>> \in Seq(Counted)
    OBVIOUS
  <2>2. QED
    BY <2>1 DEF Fresh, Seen
<1> HIDE DEF V, c
<1>4. \E f : f = after(f)
  <2> DEFINE G == [x \in V \X D |-> SeenNext(x[1], sorted[x[2]], page)]
  <2>1. G \in [V \X D -> V]
    BY <1>2
  <2>2. \A s \in V, k \in D : G[<<s, k>>] = SeenNext(s, sorted[k], page)
    OBVIOUS
  <2> HIDE DEF D, G
  <2>3. PICK f : FoldOf(f, D, c, V, Fresh, G)
    BY <1>1, <1>3, <2>1, FoldExists
  <2>4. ASSUME NEW S \in SUBSET D
        PROVE  f[S] = after(f)[S]
    <3>1. CASE S = {}
      BY <2>3, <3>1 DEF SeenStep, FoldOf, D
    <3>2. CASE S # {}
      <4> DEFINE rest == f[S \ {c[S]}]
      <4>1. c[S] = Max(S) /\ c[S] \in D /\ rest \in V
        BY <1>1, <2>3, <3>2 DEF FoldOf, Chooses
      <4>2. f[S] = G[<<rest, c[S]>>]
        BY <2>3, <3>2 DEF FoldOf
      <4>3. G[<<rest, c[S]>>] = SeenNext(rest, sorted[Max(S)], page)
        <5> HIDE DEF rest
        <5>1. QED
          BY <2>2, <4>1
      <4>4. after(f)[S] = SeenNext(rest, sorted[Max(S)], page)
        BY <3>2, <4>1 DEF SeenStep, D
      <4>5. QED
        BY <4>2, <4>3, <4>4
    <3>3. QED
      BY <3>1, <3>2
  <2>5. f = after(f)
    BY <2>3, <2>4 DEF SeenStep, FoldOf, D
  <2>6. QED
    BY <2>5
<1> DEFINE f == CHOOSE f : f = after(f)
<1>5. f = after(f)
  BY <1>4
<1>6. Page(sorted, page) = f[D].shown
  BY PageIs, Zenon
<1> HIDE DEF f
<1>7. QED
  BY <1>5, <1>6

\* What the loop has seen after the first k rows, of which it shows the places lo + 1
\* to hi.
SeenUpto(sorted, lo, hi, k, seen) ==
    /\ seen \in Seen
    /\ k <= lo => seen = [rank |-> k + 1, shown |-> <<>>]
    /\ k >= lo => seen.rank > lo /\ Len(seen.shown) = IF seen.rank <= hi THEN seen.rank - lo - 1
                                                      ELSE hi - lo
    /\ seen.rank <= k + 1
    /\ \A j \in lo + 1 .. hi : j <= k /\ sorted[j].sub > 0
          => \E i \in DOMAIN seen.shown : seen.shown[i] = sorted[j]
    /\ \A i \in DOMAIN seen.shown : \E j \in lo + 1 .. k :
          /\ seen.shown[i] = sorted[j]
          /\ (\A m \in DOMAIN sorted : sorted[m].sub > 0) => j <= hi
    /\ (\A m \in DOMAIN sorted : sorted[m].sub > 0) => seen.rank = k + 1

LEMMA NextSeen ==
    ASSUME NEW sorted \in Seq(Counted), NEW page, NEW lo \in Nat, NEW hi \in Nat, lo < hi,
           lo = (page - 1) * PageSize, hi = page * PageSize,
           NEW k \in Nat, k + 1 \in DOMAIN sorted, NEW seen, SeenUpto(sorted, lo, hi, k, seen)
    PROVE  SeenUpto(sorted, lo, hi, k + 1, SeenNext(seen, sorted[k + 1], page))
<1> DEFINE row == sorted[k + 1]
           new == SeenNext(seen, row, page)
           all == \A m \in DOMAIN sorted : sorted[m].sub > 0
<1>1. seen \in Seen /\ seen.rank \in Nat /\ seen.shown \in Seq(Counted)
  BY DEF SeenUpto, Seen
<1>2. row \in Counted
  <2> HIDE DEF Counted
  <2>1. QED
    OBVIOUS
<1>3. row.sub \in Nat
  BY <1>2 DEF Counted
<1>4. new \in Seen
  BY <1>1, <1>2, SeenNextIn
<1>5. CASE seen.rank \in lo + 1 .. hi /\ row.sub = 0
  <2>1. new = seen
    BY <1>5 DEF SeenNext
  <2>2. ~all
    BY <1>5
  <2>3. k >= lo
    BY <1>1, <1>5 DEF SeenUpto
  <2> HIDE DEF new, all
  <2>4. \A j \in lo + 1 .. hi : j <= k + 1 /\ sorted[j].sub > 0
          => \E i \in DOMAIN seen.shown : seen.shown[i] = sorted[j]
    BY <1>5 DEF SeenUpto
  <2>5. \A i \in DOMAIN seen.shown : \E j \in lo + 1 .. k + 1 : seen.shown[i] = sorted[j]
    <3>1. lo + 1 .. k \subseteq lo + 1 .. k + 1
      OBVIOUS
    <3>2. QED
      BY <3>1 DEF SeenUpto
  <2>6. SeenUpto(sorted, lo, hi, k + 1, seen)
    BY <1>1, <2>2, <2>3, <2>4, <2>5 DEF SeenUpto, all
  <2>7. QED
    BY <2>1, <2>6 DEF new
<1>6. CASE seen.rank \in lo + 1 .. hi /\ row.sub # 0
  <2>1. new = [rank |-> seen.rank + 1, shown |-> Append(seen.shown, row)]
    BY <1>6 DEF SeenNext
  <2>2. k >= lo
    BY <1>1, <1>6 DEF SeenUpto
  <2>3. new.rank = seen.rank + 1 /\ new.shown = Append(seen.shown, row)
    BY <2>1
  <2> HIDE DEF new, Counted
  <2>4. /\ DOMAIN new.shown = 1 .. Len(seen.shown) + 1
        /\ Len(new.shown) = Len(seen.shown) + 1
        /\ Len(seen.shown) \in Nat
        /\ new.shown[Len(seen.shown) + 1] = row
        /\ \A i \in DOMAIN seen.shown : i \in DOMAIN new.shown /\ new.shown[i] = seen.shown[i]
    BY <1>1, <1>2, <2>3
  <2>5. Len(new.shown) = IF new.rank <= hi THEN new.rank - lo - 1 ELSE hi - lo
    <3>1. Len(seen.shown) = seen.rank - lo - 1
      BY <1>1, <1>6, <2>2 DEF SeenUpto
    <3>2. QED
      BY <1>1, <1>6, <2>3, <2>4, <3>1
  <2>6. ASSUME NEW j \in lo + 1 .. hi, j <= k + 1, sorted[j].sub > 0
        PROVE  \E i \in DOMAIN new.shown : new.shown[i] = sorted[j]
    <3>1. CASE j = k + 1
      BY <2>4, <3>1
    <3>2. CASE j # k + 1
      <4>1. PICK i \in DOMAIN seen.shown : seen.shown[i] = sorted[j]
        BY <2>6, <3>2 DEF SeenUpto
      <4>2. QED
        BY <2>4, <4>1
    <3>3. QED
      BY <3>1, <3>2
  <2>7. all => seen.rank = k + 1
    BY DEF SeenUpto
  <2>8. ASSUME NEW i \in DOMAIN new.shown
        PROVE  \E j \in lo + 1 .. k + 1 : new.shown[i] = sorted[j] /\ (all => j <= hi)
    <3>1. CASE i = Len(seen.shown) + 1
      <4>1. new.shown[i] = sorted[k + 1] /\ k + 1 \in lo + 1 .. k + 1
        BY <2>2, <2>4, <3>1
      <4>2. all => k + 1 <= hi
        BY <1>6, <2>7
      <4>3. QED
        BY <4>1, <4>2
    <3>2. CASE i # Len(seen.shown) + 1
      <4>1. i \in DOMAIN seen.shown
        BY <1>1, <2>4, <3>2
      <4>2. PICK j \in lo + 1 .. k : seen.shown[i] = sorted[j] /\ (all => j <= hi)
        BY <4>1 DEF SeenUpto
      <4>3. j \in lo + 1 .. k + 1
        OBVIOUS
      <4>4. QED
        BY <2>4, <4>1, <4>2, <4>3
    <3>3. QED
      BY <3>1, <3>2
  <2>9. all => new.rank = k + 2
    BY <2>3, <2>7
  <2>10. new.rank <= k + 2
    BY <1>1, <2>3 DEF SeenUpto
  <2>11. new.rank > lo
    BY <1>1, <1>6, <2>3
  <2>12. SeenUpto(sorted, lo, hi, k + 1, new)
    <3> HIDE DEF row
    <3>1. QED
      BY <1>4, <2>2, <2>5, <2>6, <2>8, <2>9, <2>10, <2>11 DEF SeenUpto
  <2>13. QED
    BY <2>12 DEF new
<1>7. CASE seen.rank \notin lo + 1 .. hi
  <2>1. new = [seen EXCEPT !.rank = @ + 1]
    BY <1>7 DEF SeenNext
  <2>2. new.rank = seen.rank + 1 /\ new.shown = seen.shown
    BY <1>1, <2>1 DEF Seen
  <2>3. CASE k < lo
    <3>1. seen = [rank |-> k + 1, shown |-> <<>>]
      BY <2>3 DEF SeenUpto
    <3>2. new = [rank |-> k + 2, shown |-> <<>>]
      BY <2>1, <3>1
    <3> HIDE DEF new
    <3>3. new.rank = k + 2 /\ new.shown = <<>> /\ Len(new.shown) = 0 /\ DOMAIN new.shown = {}
      BY <3>2
    <3>4. k + 1 <= lo /\ (k + 1 >= lo => k + 1 = lo /\ new.rank = lo + 1)
      BY <2>3, <3>3
    <3>5. k + 1 + 1 = k + 2
      OBVIOUS
    <3>6. k + 1 <= lo => new = [rank |-> (k + 1) + 1, shown |-> <<>>]
      BY <3>2, <3>5
    <3>7. k + 1 >= lo => new.rank > lo /\ Len(new.shown) = IF new.rank <= hi THEN new.rank - lo - 1
                                                          ELSE hi - lo
      BY <3>3, <3>4
    <3>8. new.rank <= (k + 1) + 1 /\ new.rank = (k + 1) + 1
      BY <3>3
    <3>9. \A j \in lo + 1 .. hi : ~ j <= k + 1
      BY <3>4
    <3>10. SeenUpto(sorted, lo, hi, k + 1, new)
      BY <1>4, <3>3, <3>6, <3>7, <3>8, <3>9, Zenon DEF SeenUpto
    <3>11. QED
      BY <3>10 DEF new
  <2>4. CASE k >= lo
    <3>1. seen.rank > hi /\ Len(seen.shown) = hi - lo
      BY <1>1, <1>7, <2>4 DEF SeenUpto
    <3>2. all => seen.rank = k + 1
      BY DEF SeenUpto
    <3>3. k + 1 > hi
      BY <1>1, <3>1 DEF SeenUpto
    <3> HIDE DEF new
    <3>4. \A j \in lo + 1 .. hi : j <= k + 1 /\ sorted[j].sub > 0
          => \E i \in DOMAIN new.shown : new.shown[i] = sorted[j]
      BY <2>2, <3>3 DEF SeenUpto
    <3>5. \A i \in DOMAIN new.shown : \E j \in lo + 1 .. k + 1 :
            new.shown[i] = sorted[j] /\ (all => j <= hi)
      <4>1. lo + 1 .. k \subseteq lo + 1 .. k + 1
        OBVIOUS
      <4>2. QED
        BY <2>2, <4>1 DEF SeenUpto
    <3>6. all => new.rank = k + 2
      BY <2>2, <3>2
    <3>7. new.rank <= k + 2 /\ new.rank > hi
      BY <1>1, <2>2, <3>1 DEF SeenUpto
    <3>8. SeenUpto(sorted, lo, hi, k + 1, new)
      <4>1. ~ k + 1 <= lo /\ (k + 1) + 1 = k + 2
        BY <2>4
      <4>2. new.rank > lo /\ Len(new.shown) = IF new.rank <= hi THEN new.rank - lo - 1 ELSE hi - lo
        BY <1>1, <2>2, <3>1, <3>7
      <4>3. QED
        BY <1>4, <3>4, <3>5, <3>6, <3>7, <4>1, <4>2, Zenon DEF SeenUpto, all
    <3>9. QED
      BY <3>8 DEF new
  <2>5. QED
    BY <2>3, <2>4
<1>8. QED
  BY <1>3, <1>5, <1>6, <1>7

\* What is on a page.
LEMMA PageShows ==
    ASSUME NEW sorted \in Seq(Counted), NEW page \in Nat \ {0}
    PROVE  \E seen : /\ SeenUpto(sorted, (page - 1) * PageSize, page * PageSize, Len(sorted), seen)
                     /\ Page(sorted, page) = seen.shown
<1> DEFINE lo == (page - 1) * PageSize
           hi == page * PageSize
           n == Len(sorted)
<1>1. lo \in Nat /\ hi \in Nat /\ lo < hi
  <2>1. PageSize \in Nat \ {0}
    BY BoardsAssumption
  <2>2. page - 1 \in Nat
    OBVIOUS
  <2>3. lo \in Nat /\ hi = lo + PageSize
    BY <2>1, <2>2
  <2>4. QED
    BY <2>1, <2>3
<1>2. n \in Nat /\ DOMAIN sorted = 1 .. n
  OBVIOUS
<1>3. PICK f : f = SeenStep(sorted, page, f) /\ Page(sorted, page) = f[DOMAIN sorted].shown
  BY SeenExists
<1> DEFINE T == {k \in Nat : k <= n => SeenUpto(sorted, lo, hi, k, f[1 .. k])}
<1>4. 0 \in T
  <2>1. 1 .. 0 = {} /\ {} \in SUBSET DOMAIN sorted
    OBVIOUS
  <2>2. SeenStep(sorted, page, f)[{}] = Fresh
    BY <2>1, Zenon DEF SeenStep
  <2>3. f[{}] = Fresh
    BY <1>3, <2>2, Zenon
  <2>4. Fresh \in Seen /\ Fresh.rank = 1 /\ Fresh.shown = <<>> /\ DOMAIN Fresh.shown = {}
    <3>1. <<>> \in Seq(Counted)
      OBVIOUS
    <3>2. QED
      BY <3>1 DEF Fresh, Seen
  <2> HIDE DEF lo, hi
  <2>5. 0 >= lo => lo = 0
    BY <1>1
  <2>6. SeenUpto(sorted, lo, hi, 0, Fresh)
    <3>1. Len(Fresh.shown) = 0 /\ Fresh = [rank |-> 0 + 1, shown |-> <<>>]
      BY <2>4 DEF Fresh
    <3>2. QED
      BY <1>1, <2>4, <2>5, <3>1 DEF SeenUpto
  <2>7. QED
    BY <2>1, <2>3, <2>6
<1>5. ASSUME NEW k \in Nat, k \in T, k + 1 <= n
      PROVE  SeenUpto(sorted, lo, hi, k + 1, f[1 .. k + 1])
  <2> DEFINE S == 1 .. k + 1
  <2>1. S \in SUBSET DOMAIN sorted /\ S # {}
    BY <1>2, <1>5
  <2>2. Max(S) = k + 1
    <3>1. k + 1 \in S /\ \A y \in S : k + 1 >= y
      OBVIOUS
    <3>2. \A x \in S : (\A y \in S : x >= y) => x = k + 1
      OBVIOUS
    <3> HIDE DEF S
    <3>3. QED
      BY <3>1, <3>2, Zenon DEF Max
  <2>3. S \ {k + 1} = 1 .. k
    OBVIOUS
  <2> HIDE DEF S
  <2>4. SeenStep(sorted, page, f)[S] = SeenNext(f[S \ {Max(S)}], sorted[Max(S)], page)
    BY <2>1, Zenon DEF SeenStep
  <2>5. f[S] = SeenNext(f[1 .. k], sorted[k + 1], page)
    <3>1. f[S] = SeenStep(sorted, page, f)[S]
      BY <1>3, Zenon
    <3>2. QED
      BY <2>2, <2>3, <2>4, <3>1, Zenon
  <2>6. SeenUpto(sorted, lo, hi, k, f[1 .. k])
    BY <1>5
  <2>7. k + 1 \in DOMAIN sorted
    BY <1>2, <1>5
  <2>8. SeenUpto(sorted, lo, hi, k + 1, SeenNext(f[1 .. k], sorted[k + 1], page))
    BY <1>1, <2>6, <2>7, NextSeen
  <2>9. QED
    BY <2>5, <2>8 DEF S
<1>6. Nat \subseteq T
  <2>1. \A k \in Nat : k \in T => k + 1 \in T
    BY <1>5
  <2> HIDE DEF T
  <2>2. QED
    BY <1>4, <2>1, SetInduction
<1>7. SeenUpto(sorted, lo, hi, n, f[1 .. n])
  BY <1>2, <1>6
<1>8. QED
  BY <1>2, <1>3, <1>7

\* Which page a place is on, and how many pages there are.
LEMMA TimesMonotone ==
    ASSUME NEW a \in Nat, NEW b \in Nat, NEW c \in Nat, a <= b
    PROVE  a * c <= b * c
<1>1. PICK d \in Nat : b = a + d
  <2>1. b - a \in Nat /\ b = a + (b - a)
    OBVIOUS
  <2>2. QED
    BY <2>1
<1>2. b * c = a * c + d * c
  BY <1>1
<1>3. a * c \in Nat /\ d * c \in Nat
  OBVIOUS
<1>4. QED
  BY <1>2, <1>3

LEMMA Quotient ==
    ASSUME NEW a \in Nat, NEW c \in Nat \ {0}
    PROVE  a \div c \in Nat /\ (a \div c) * c <= a /\ a < (a \div c) * c + c
OBVIOUS

LEMMA PageOfPlace ==
    ASSUME NEW n \in Nat, NEW c \in Nat \ {0}, NEW i \in 1 .. n
    PROVE  \E p \in 1 .. (n + c - 1) \div c : i \in (p - 1) * c + 1 .. p * c
<1> DEFINE q == (i - 1) \div c
           t == (n + c - 1) \div c
           On(p) == i \in (p - 1) * c + 1 .. p * c
<1>1. q \in Nat /\ q * c <= i - 1 /\ i - 1 < q * c + c
  <2>1. i - 1 \in Nat
    OBVIOUS
  <2>2. QED
    BY <2>1, Quotient
<1>2. t \in Nat /\ t * c <= n + c - 1 /\ n + c - 1 < t * c + c
  <2>1. n + c - 1 \in Nat
    OBVIOUS
  <2>2. QED
    BY <2>1, Quotient
<1> HIDE DEF q, t
<1>3. (q + 1) * c = q * c + c /\ q * c \in Nat /\ t * c \in Nat
  BY <1>1, <1>2
<1>4. q + 1 <= t
  <2>1. SUFFICES ASSUME t <= q
                 PROVE  FALSE
    BY <1>1, <1>2
  <2>2. t * c <= q * c
    BY <1>1, <1>2, <2>1, TimesMonotone
  <2>3. QED
    BY <1>1, <1>2, <1>3, <2>2
<1>5. PICK p \in Nat : p = q + 1
  BY <1>1
<1>6. On(p)
  <2>1. p - 1 = q
    BY <1>1, <1>5
  <2>2. (p - 1) * c = q * c /\ p * c = q * c + c
    BY <1>3, <1>5, <2>1
  <2>3. i \in q * c + 1 .. q * c + c
    BY <1>1, <1>3
  <2> DEFINE lo == (p - 1) * c
             hi == p * c
  <2>4. lo = q * c /\ hi = q * c + c
    BY <2>2
  <2> HIDE DEF lo, hi
  <2>5. i \in lo + 1 .. hi
    BY <2>3, <2>4
  <2>6. QED
    BY <2>5 DEF lo, hi
<1>7. p \in 1 .. t
  BY <1>1, <1>2, <1>4, <1>5
<1>8. \E k \in 1 .. t : On(k)
  <2> HIDE DEF On
  <2>1. QED
    BY <1>6, <1>7
<1>9. QED
  BY <1>8 DEF t

LEMMA OnePageOnly ==
    ASSUME NEW c \in Nat \ {0}, NEW i \in Nat, NEW p \in Nat \ {0}, NEW q \in Nat \ {0},
           i \in (p - 1) * c + 1 .. p * c, i \in (q - 1) * c + 1 .. q * c
    PROVE  p = q
<1>1. p - 1 \in Nat /\ q - 1 \in Nat
  OBVIOUS
<1>2. (p - 1) * c \in Nat /\ p * c \in Nat /\ (q - 1) * c \in Nat /\ q * c \in Nat
  BY <1>1
<1>3. ~ p <= q - 1
  BY <1>1, <1>2, TimesMonotone
<1>4. ~ q <= p - 1
  BY <1>1, <1>2, TimesMonotone
<1>5. QED
  BY <1>3, <1>4

---------------------------------------------------------------------------
\* What a page says when it is finished.

LEMMA NumbersAreRight ==
    ASSUME RowsCounted
    PROVE  NumbersWereRight
<1>1. ASSUME NEW r \in Made("rank") \cup Made("profile"), NEW k \in DOMAIN rows[r]
      PROVE  LET row == rows[r][k]
                 now == Len(submissions)
             IN /\ row.ac \in Cardinality(OwnAccepted(row.user, first[r]))
                              .. Cardinality(OwnAccepted(row.user, now))
                /\ row.sub >= Cardinality(Own(row.user, first[r]))
                /\ query[r].op = "profile" \/ row.user \notin Problem
                      => row.sub <= Cardinality(Own(row.user, now))
  <2>1. r \in Req /\ pc[r] = "done"
    BY DEF Made, Those
  <2>2. RowRight(r, k)
    BY <1>1, <2>1 DEF RowsCounted
  <2>3. QED
    BY <2>1, <2>2 DEF RowRight
<1>2. QED
  BY <1>1, Zenon DEF NumbersWereRight

\* A finished ranking has one row for each account, in that order ...
LEMMA RankingIs ==
    ASSUME RowsCounted, NEW r \in Made("rank")
    PROVE  /\ r \in Req /\ rows[r] \in Seq(Counted)
           /\ Len(rows[r]) = Len(Accounts)
           /\ \A k \in DOMAIN rows[r] : rows[r][k].user = Accounts[k]
           /\ \A k \in DOMAIN rows[r] : rows[r][k] \in Counted
           /\ \A j, k \in DOMAIN rows[r] : rows[r][j].user = rows[r][k].user => j = k
           /\ \A u \in ScoreUser : \E k \in DOMAIN rows[r] : rows[r][k].user = u
<1>1. r \in Req /\ pc[r] = "done" /\ query[r].op = "rank"
  BY DEF Made, Those
<1>2. rows[r] \in Seq(Counted)
  BY <1>1 DEF RowsCounted, Counted
<1>3. Listed(r) = Accounts
  BY <1>1 DEF Listed
<1>4. Len(rows[r]) = Len(Accounts)
  BY <1>1, <1>3 DEF RowsCounted, RowsSoFar
<1>5. \A k \in DOMAIN rows[r] : rows[r][k].user = Accounts[k]
  BY <1>1, <1>3 DEF RowsCounted, RowRight
<1>6. \A k \in DOMAIN rows[r] : rows[r][k] \in Counted
  <2> HIDE DEF Counted
  <2>1. QED
    BY <1>2
<1>7. DOMAIN rows[r] = DOMAIN Accounts
  <2>1. DOMAIN rows[r] = 1 .. Len(rows[r])
    <3> HIDE DEF Counted
    <3>1. QED
      BY <1>2
  <2>2. DOMAIN Accounts = 1 .. Len(Accounts)
    BY BoardsAssumption
  <2>3. QED
    BY <1>4, <2>1, <2>2
<1>8. \A j, k \in DOMAIN Accounts : Accounts[j] = Accounts[k] => j = k
  BY BoardsAssumption
<1>9. \A u \in ScoreUser : \E k \in DOMAIN Accounts : Accounts[k] = u
  BY DEF ScoreUser, Range
<1>10. QED
  BY <1>1, <1>2, <1>4, <1>5, <1>6, <1>7, <1>8, <1>9

\* ... and however it is sorted, each of them once.
LEMMA SortingIs ==
    ASSUME RowsCounted, NEW r \in Made("rank"), NEW s \in Sortings(rows[r])
    PROVE  /\ s \in Seq(Counted) /\ Len(s) = Len(rows[r])
           /\ DOMAIN s = 1 .. Len(rows[r]) /\ Len(rows[r]) \in Nat
           /\ \A i \in DOMAIN s : \E k \in DOMAIN rows[r] : s[i] = rows[r][k]
           /\ \A i, j \in DOMAIN s : s[i].user = s[j].user => i = j
           /\ \A u \in ScoreUser : \E i \in DOMAIN s : s[i].user = u
<1> DEFINE table == rows[r]
           n == Len(table)
           R == Range(table)
<1>1. /\ table \in Seq(Counted)
      /\ \A k \in DOMAIN table : table[k] \in Counted
      /\ \A j, k \in DOMAIN table : table[j].user = table[k].user => j = k
      /\ \A u \in ScoreUser : \E k \in DOMAIN table : table[k].user = u
  BY RankingIs
<1>2. s \in SetToSeqs(R)
  BY DEF Sortings
<1> HIDE DEF table, Counted
<1>3. n \in Nat /\ DOMAIN table = 1 .. n
  BY <1>1
<1> HIDE DEF n, R
<1>4. table \in Surjection(1 .. n, R) /\ table \in Injection(1 .. n, R)
  <2>1. table \in [1 .. n -> R]
    <3>1. \A k \in 1 .. n : table[k] \in R
      BY <1>3 DEF R, Range
    <3>2. table = [k \in 1 .. n |-> table[k]]
      BY <1>1, <1>3
    <3>3. QED
      BY <3>1, <3>2
  <2>2. \A x \in R : \E k \in 1 .. n : table[k] = x
    BY <1>3 DEF R, Range
  <2>3. \A j, k \in 1 .. n : table[j] = table[k] => j = k
    BY <1>1, <1>3
  <2>4. QED
    BY <2>1, <2>2, <2>3 DEF Surjection, Injection, IsInjective
<1>5. IsFiniteSet(1 .. n) /\ Cardinality(1 .. n) = n
  BY <1>3, FS_Interval
<1>6. IsFiniteSet(R) /\ Cardinality(R) = n
  BY <1>4, <1>5, FS_Surjection
<1>7. s \in [1 .. n -> R] /\ \A i, j \in 1 .. n : i # j => s[i] # s[j]
  BY <1>2, <1>6, Zenon DEF SetToSeqs
<1>8. s \in Injection(1 .. n, R)
  BY <1>7 DEF Injection, IsInjective
<1>9. s \in Surjection(1 .. n, R)
  BY <1>5, <1>6, <1>8, FS_Injection
<1>10. DOMAIN s = 1 .. n /\ Len(s) = n
  BY <1>3, <1>7
<1>11. ASSUME NEW i \in 1 .. n
       PROVE  s[i] \in R /\ \E k \in 1 .. n : s[i] = table[k]
  BY <1>3, <1>7 DEF R, Range
<1>12. s \in Seq(Counted)
  <2>1. \A i \in 1 .. n : s[i] \in Counted
    BY <1>1, <1>3, <1>11
  <2>2. QED
    BY <1>3, <1>7, <1>10, <2>1
<1>13. ASSUME NEW i \in 1 .. n, NEW j \in 1 .. n, s[i].user = s[j].user
       PROVE  i = j
  <2>1. PICK k \in 1 .. n : s[i] = table[k]
    BY <1>11
  <2>2. PICK m \in 1 .. n : s[j] = table[m]
    BY <1>11
  <2>3. k = m
    BY <1>1, <1>3, <1>13, <2>1, <2>2
  <2>4. QED
    BY <1>7, <2>1, <2>2, <2>3
<1>14. ASSUME NEW u \in ScoreUser
       PROVE  \E i \in 1 .. n : s[i].user = u
  <2>1. PICK k \in 1 .. n : table[k].user = u
    BY <1>1, <1>3
  <2>2. table[k] \in R
    BY <1>3 DEF R, Range
  <2>3. PICK i \in 1 .. n : s[i] = table[k]
    BY <1>9, <2>2 DEF Surjection
  <2>4. QED
    BY <2>1, <2>3
<1>15. QED
  BY <1>3, <1>10, <1>11, <1>12, <1>13, <1>14 DEF table, n

LEMMA EverybodyShown ==
    ASSUME RowsCounted
    PROVE  RankingComplete
<1> SUFFICES ASSUME NEW r \in Made("rank"), NEW s \in Sortings(rows[r])
             PROVE  LET pages(u) == {p \in 1 .. TotalPages(rows[r]) :
                                       \E k \in DOMAIN Page(s, p) : Page(s, p)[k].user = u}
                    IN /\ \A u \in ScoreUser : Own(u, first[r]) # {} => pages(u) # {}
                       /\ (\A k \in DOMAIN s : s[k].sub > 0)
                             => \A u \in ScoreUser : Cardinality(pages(u)) = 1
                       /\ \A p \in 1 .. TotalPages(rows[r]) : Len(Page(s, p)) <= PageSize
  BY Zenon DEF RankingComplete
<1> DEFINE n == Len(rows[r])
           total == TotalPages(rows[r])
           pages(u) == {p \in 1 .. total : \E k \in DOMAIN Page(s, p) : Page(s, p)[k].user = u}
           all == \A k \in DOMAIN s : s[k].sub > 0
           On(p) == (p - 1) * PageSize + 1 .. p * PageSize
<1>1. /\ s \in Seq(Counted) /\ Len(s) = n
      /\ DOMAIN s = 1 .. n /\ n \in Nat
      /\ \A i \in DOMAIN s : \E k \in DOMAIN rows[r] : s[i] = rows[r][k]
      /\ \A i, j \in DOMAIN s : s[i].user = s[j].user => i = j
      /\ \A u \in ScoreUser : \E i \in DOMAIN s : s[i].user = u
  BY SortingIs
<1>2. PageSize \in Nat \ {0}
  BY BoardsAssumption
<1>3. ASSUME NEW i \in DOMAIN s
      PROVE  \E p \in 1 .. total : i \in On(p)
  BY <1>1, <1>2, PageOfPlace DEF TotalPages
<1>4. total \in Nat
  <2>1. n + PageSize - 1 \in Nat
    BY <1>1, <1>2
  <2>2. QED
    BY <1>2, <2>1, Quotient DEF TotalPages
<1>5. ASSUME NEW p \in 1 .. total
      PROVE  /\ \A j \in On(p) : j <= n /\ s[j].sub > 0
                   => \E i \in DOMAIN Page(s, p) : Page(s, p)[i] = s[j]
             /\ \A i \in DOMAIN Page(s, p) : \E j \in 1 .. n :
                   Page(s, p)[i] = s[j] /\ (all => j \in On(p))
             /\ Len(Page(s, p)) <= PageSize
  <2> DEFINE lo == (p - 1) * PageSize
             hi == p * PageSize
  <2>1. p \in Nat \ {0}
    BY <1>4
  <2>2. PICK seen : SeenUpto(s, lo, hi, n, seen) /\ Page(s, p) = seen.shown
    BY <1>1, <2>1, PageShows
  <2>3. lo \in Nat /\ hi \in Nat /\ hi = lo + PageSize
    BY <1>2, <2>1
  <2> HIDE DEF lo, hi
  <2>4. seen.rank \in Nat /\ seen.shown \in Seq(Counted)
    BY <2>2 DEF SeenUpto, Seen
  <2>5. \A j \in lo + 1 .. hi : j <= n /\ s[j].sub > 0
                   => \E i \in DOMAIN Page(s, p) : Page(s, p)[i] = s[j]
    BY <2>2 DEF SeenUpto
  <2>6. ASSUME NEW i \in DOMAIN Page(s, p)
        PROVE  \E j \in 1 .. n : Page(s, p)[i] = s[j] /\ (all => j \in lo + 1 .. hi)
    <3>1. PICK j \in lo + 1 .. n : seen.shown[i] = s[j] /\ (all => j <= hi)
      BY <2>2, <2>6 DEF SeenUpto
    <3>2. j \in 1 .. n /\ (j <= hi => j \in lo + 1 .. hi)
      BY <1>1, <2>3
    <3>3. QED
      BY <2>2, <3>1, <3>2
  <2>7. Len(seen.shown) <= PageSize
    <3>1. CASE n < lo
      <4>1. seen = [rank |-> n + 1, shown |-> <<>>]
        BY <1>1, <2>2, <2>3, <3>1 DEF SeenUpto
      <4>2. Len(seen.shown) = 0
        BY <4>1
      <4>3. QED
        BY <1>2, <4>2
    <3>2. CASE n >= lo
      <4>1. Len(seen.shown) = IF seen.rank <= hi THEN seen.rank - lo - 1 ELSE hi - lo
        BY <2>2, <3>2 DEF SeenUpto
      <4>2. QED
        BY <1>2, <2>3, <2>4, <4>1
    <3>3. QED
      BY <1>1, <2>3, <3>1, <3>2
  <2>8. QED
    BY <2>2, <2>5, <2>6, <2>7 DEF lo, hi
<1>6. ASSUME NEW i \in DOMAIN s, s[i].sub > 0
      PROVE  \E p \in 1 .. total : i \in On(p) /\ p \in pages(s[i].user)
  <2>1. PICK p \in 1 .. total : i \in On(p)
    BY <1>3
  <2>2. i <= n
    BY <1>1
  <2>3. PICK k \in DOMAIN Page(s, p) : Page(s, p)[k] = s[i]
    BY <1>5, <1>6, <2>1, <2>2
  <2>4. QED
    BY <2>1, <2>3
<1> HIDE DEF On, total
<1>7. ASSUME NEW u \in ScoreUser, Own(u, first[r]) # {}
      PROVE  pages(u) # {}
  <2>1. PICK i \in DOMAIN s : s[i].user = u
    BY <1>1
  <2>2. PICK k \in DOMAIN rows[r] : s[i] = rows[r][k]
    BY <1>1
  <2>3. r \in Req
    BY RankingIs
  <2>4. s[i].sub >= Cardinality(Own(u, first[r]))
    BY <2>1, <2>2, <2>3 DEF RowsCounted, RowRight
  <2>5. first[r] \in Nat
    BY <2>3 DEF RowsCounted
  <2>6. IsFiniteSet(Own(u, first[r]))
    <3>1. Own(u, first[r]) \subseteq 1 .. first[r] /\ IsFiniteSet(1 .. first[r])
      BY <2>5, FS_Interval DEF Own
    <3>2. QED
      BY <3>1, FS_Subset
  <2>7. Cardinality(Own(u, first[r])) \in Nat \ {0}
    BY <1>7, <2>6, FS_CardinalityType, FS_EmptySet
  <2>8. s[i] \in Counted
    <3> HIDE DEF Counted
    <3>1. QED
      BY <1>1
  <2>9. s[i].sub > 0
    BY <2>4, <2>7, <2>8 DEF Counted
  <2>10. QED
    BY <1>6, <2>1, <2>9
<1>8. ASSUME all, NEW u \in ScoreUser
      PROVE  Cardinality(pages(u)) = 1
  <2>1. PICK i \in DOMAIN s : s[i].user = u
    BY <1>1
  <2>2. PICK p \in 1 .. total : i \in On(p) /\ p \in pages(u)
    BY <1>6, <1>8, <2>1
  <2>3. ASSUME NEW q \in pages(u)
        PROVE  q = p
    <3>1. q \in 1 .. total
      OBVIOUS
    <3>2. PICK k \in DOMAIN Page(s, q) : Page(s, q)[k].user = u
      OBVIOUS
    <3>3. PICK j \in 1 .. n : Page(s, q)[k] = s[j] /\ j \in On(q)
      BY <1>5, <1>8, <3>1
    <3>4. j = i
      BY <1>1, <2>1, <3>2, <3>3
    <3>5. p \in Nat \ {0} /\ q \in Nat \ {0} /\ i \in Nat
      BY <1>1, <1>4, <3>1
    <3>6. QED
      BY <1>2, <2>2, <3>3, <3>4, <3>5, OnePageOnly DEF On
  <2> HIDE DEF pages
  <2>4. pages(u) = {p}
    BY <2>2, <2>3
  <2>5. QED
    BY <2>4, FS_Singleton
<1>9. \A p \in 1 .. total : Len(Page(s, p)) <= PageSize
  BY <1>5
<1>10. QED
  BY <1>7, <1>8, <1>9, Zenon DEF pages, all, total

\* A finished ranking shows, on the pages it announces, everybody who had submitted
\* before it was begun, and its numbers were right at some moment while it was made,
\* as are those of a profile (rank.cgi, profile.c).
THEOREM RankingTheorem == Spec => []RankingTrue
<1>1. RowsCounted => RankingTrue
  BY NumbersAreRight, EverybodyShown DEF RankingTrue
<1>2. QED
  BY RankingInvariance, <1>1, PTL
==============================================================================
