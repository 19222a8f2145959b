--------------------------- MODULE ContestsProofs ---------------------------
(***************************************************************************)
(* Proofs about Contests: for any number of requests and users, whatever   *)
(* they ask for and in whatever order the steps of the requests happen.    *)
(***************************************************************************)
EXTENDS Contests, ListsProofs

-----------------------------------------------------------------------------
(* Forms and lines.                                                        *)

LEMMA Forms ==
    ASSUME TypeOK, NEW r \in Req
    PROVE  /\ query[r] \in Creation \cup Entry \cup Attempt
           /\ query[r].op = "create" => query[r] \in Creation
           /\ query[r].op = "join" => query[r] \in Entry
           /\ query[r].op = "submit" => query[r] \in Attempt
<1>1. query[r] \in Creation \cup Entry \cup Attempt
  BY ContestsAssumption DEF TypeOK
<1>2. QED
  BY <1>1 DEF Creation, Entry, Attempt

LEMMA LineTypes ==
    ASSUME TypeOK
    PROVE  /\ \A k \in DOMAIN contests :
                 contests[k] \in Contest /\ contests[k].id \in Nat /\ contests[k].req \in Req
           /\ \A k \in DOMAIN participants :
                 participants[k] \in Participant /\ participants[k].req \in Req
<1>1. /\ \A k \in DOMAIN contests : contests[k] \in Contest
      /\ \A k \in DOMAIN participants : participants[k] \in Participant
  BY DEF TypeOK
<1>2. QED
  BY <1>1 DEF Contest, Participant

LEMMA FirstIsUnique ==
    ASSUME NEW c, NEW i, NEW k, IsFirst(c, i), IsFirst(c, k), TypeOK
    PROVE  i = k
<1>1. i \in Nat \ {0} /\ k \in Nat \ {0}
  BY DEF IsFirst, TypeOK
<1>2. ~(i < k) /\ ~(k < i)
  BY <1>1 DEF IsFirst
<1>3. QED
  BY <1>1, <1>2

LEMMA LineOfFirst ==
    ASSUME NEW c, NEW k, IsFirst(c, k), TypeOK
    PROVE  LineOf(c) = contests[k]
<1>1. k \in DOMAIN contests
  BY DEF IsFirst
<1>2. (CHOOSE i \in DOMAIN contests : IsFirst(c, i)) = k
  BY <1>1, FirstIsUnique
<1>3. QED
  BY <1>2 DEF LineOf

\* The number a new contest gets is larger than all that are there.
LEMMA NextIdIsLarger ==
    ASSUME TypeOK, Numbering
    PROVE  /\ NextId \in Nat
           /\ \A k \in DOMAIN contests : contests[k].id < NextId
<1>1. \E n \in {0} \cup {contests[k].id : k \in DOMAIN contests} :
         \A k \in DOMAIN contests : contests[k].id <= n
  BY DEF Numbering
<1>2. PICK n \in {0} \cup {contests[k].id : k \in DOMAIN contests} :
         \A k \in DOMAIN contests : contests[k].id <= n
  BY <1>1
<1> DEFINE ids == {0} \cup {contests[k].id : k \in DOMAIN contests}
           top == CHOOSE i \in ids : \A m \in ids : m <= i
<1>3. top \in ids /\ \A m \in ids : m <= top
  <2>1. n \in ids /\ n \in Nat
    BY LineTypes
  <2>2. \A m \in ids : m <= n
    BY <1>2, <2>1
  <2>3. \E i \in ids : \A m \in ids : m <= i
    BY <2>1, <2>2
  <2>4. QED
    BY <2>3
<1>4. NextId = 1 + top
  BY DEF NextId
<1>5. \A k \in DOMAIN contests : contests[k].id \in ids /\ contests[k].id \in Nat
  BY LineTypes
<1>6. top \in Nat
  BY <1>3, LineTypes
<1> HIDE DEF top
<1>7. \A k \in DOMAIN contests : contests[k].id <= top
  BY <1>3, <1>5
<1>8. QED
  BY <1>4, <1>5, <1>6, <1>7

-----------------------------------------------------------------------------
(* Types.                                                                  *)

LEMMA NextCases ==
    ASSUME [Next]_vars
    PROVE  \/ UNCHANGED vars
           \/ Tick
           \/ \E u \in User : RemoveAccount(u) \/ RegisterAgain(u)
           \/ \E r \in Req :
                 \/ Refuse(r) \/ CreateRead(r) \/ CreateAppend(r)
                 \/ JoinOpen(r) \/ JoinClosed(r) \/ JoinCheck(r) \/ JoinAppend(r)
                 \/ SubmitTake(r) \/ SubmitRecord(r)
BY DEF Next

LEMMA TypesKept ==
    ASSUME TypeOK, Control, Numbering, [Next]_vars
    PROVE  TypeOK'
<1> USE DEF TypeOK, Ended
<1>1. CASE UNCHANGED vars
  BY <1>1 DEF vars, lines, local
<1>2. CASE Tick
  BY <1>2, ContestsAssumption DEF Tick, lines, local, Time
<1>3. ASSUME NEW u \in User, RemoveAccount(u) \/ RegisterAgain(u) PROVE TypeOK'
  <2>1. SecondId[u] \in Nat
    BY ContestsAssumption
  <2>2. /\ account' \in [User -> Nat]
        /\ UNCHANGED <<clock, lines, query, pc, local, before>>
    <3>1. CASE RemoveAccount(u)
      BY <3>1 DEF RemoveAccount
    <3>2. CASE RegisterAgain(u)
      BY <3>2, <2>1 DEF RegisterAgain
    <3>3. QED
      BY <1>3, <3>1, <3>2
  <2>3. QED
    BY <2>2 DEF lines, local
<1>4. ASSUME NEW r \in Req, Refuse(r) PROVE TypeOK'
  BY <1>4 DEF Refuse, Arrive, lines, local
<1>5. ASSUME NEW r \in Req, CreateRead(r) PROVE TypeOK'
  <2>1. NextId \in Nat
    BY NextIdIsLarger
  <2>2. QED
    BY <1>5, <2>1 DEF CreateRead, Arrive, lines, local
<1>6. ASSUME NEW r \in Req, CreateAppend(r) PROVE TypeOK'
  <2>1. query[r] \in Creation
    BY <1>6 DEF CreateAppend, Control
  <2>2. next[r] \in Nat
    OBVIOUS
  <2>3. [id |-> next[r], start |-> query[r].start, end |-> query[r].end,
         duration |-> query[r].duration, described |-> query[r].described,
         req |-> r] \in Contest
    BY <2>1, <2>2 DEF Creation, Contest
  <2>4. contests' \in Seq(Contest)
    BY <1>6, <2>3 DEF CreateAppend
  <2>5. QED
    BY <1>6, <2>4 DEF CreateAppend, lines, local
<1>7. ASSUME NEW r \in Req, JoinOpen(r) PROVE TypeOK'
  BY <1>7 DEF JoinOpen, Arrive, lines, local, Time
<1>8. ASSUME NEW r \in Req, JoinClosed(r) PROVE TypeOK'
  BY <1>8 DEF JoinClosed, Arrive, lines, local
<1>9. ASSUME NEW r \in Req, JoinCheck(r) PROVE TypeOK'
  <2>1. query[r] \in Entry
    BY <1>9 DEF JoinCheck, Control
  <2>2. account[query[r].user] \in Nat
    BY <2>1 DEF Entry
  <2>3. QED
    BY <1>9, <2>2 DEF JoinCheck, lines, local
<1>10. ASSUME NEW r \in Req, JoinAppend(r) PROVE TypeOK'
  <2>1. query[r] \in Entry
    BY <1>10 DEF JoinAppend, Control
  <2>2. [contest |-> query[r].contest, user |-> query[r].user, uid |-> uid[r],
         since |-> now[r], req |-> r] \in Participant
    BY <2>1 DEF Entry, Participant
  <2>3. participants' \in Seq(Participant)
    BY <1>10, <2>2 DEF JoinAppend
  <2>4. QED
    BY <1>10, <2>3 DEF JoinAppend, lines, local
<1>11. ASSUME NEW r \in Req, SubmitTake(r) PROVE TypeOK'
  BY <1>11 DEF SubmitTake, Arrive, lines, local
<1>12. ASSUME NEW r \in Req, SubmitRecord(r) PROVE TypeOK'
  <2>1. query[r] \in Attempt
    BY <1>12 DEF SubmitRecord, Control
  <2>2. ASSUME NEW v \in {"AC", "WA"}
        PROVE  [contest |-> query[r].contest, uid |-> account[query[r].user],
                problem |-> query[r].problem, time |-> clock, verdict |-> v,
                by |-> query[r].user, req |-> r] \in Verdict
    BY <2>1 DEF Attempt, Verdict, Time
  <2>3. submissions' \in Seq(Verdict)
    BY <1>12, <2>2 DEF SubmitRecord
  <2>4. QED
    BY <1>12, <2>3 DEF SubmitRecord, lines, local
<1>13. QED
  BY NextCases, <1>1, <1>2, <1>3, <1>4, <1>5, <1>6, <1>7, <1>8, <1>9, <1>10, <1>11, <1>12

-----------------------------------------------------------------------------
(* Who moves, and what the others keep.                                    *)

Act(r) ==
    \/ Refuse(r) \/ CreateRead(r) \/ CreateAppend(r)
    \/ JoinOpen(r) \/ JoinClosed(r) \/ JoinCheck(r) \/ JoinAppend(r)
    \/ SubmitTake(r) \/ SubmitRecord(r)

LEMMA Frame ==
    ASSUME TypeOK, NEW r \in Req, Act(r)
    PROVE  /\ query' = query
           /\ pc[r] \notin Ended
           /\ pc[r] = "idle" => before'[r] = {q \in Req : pc[q] \in Ended}
           /\ pc[r] # "idle" => before'[r] = before[r]
           /\ \A q \in Req \ {r} :
                 /\ pc'[q] = pc[q] /\ before'[q] = before[q]
                 /\ next'[q] = next[q] /\ now'[q] = now[q]
<1> USE DEF TypeOK, Ended, local
<1>1. CASE Refuse(r)
  BY <1>1 DEF Refuse, Arrive
<1>2. CASE CreateRead(r)
  BY <1>2 DEF CreateRead, Arrive
<1>3. CASE CreateAppend(r)
  BY <1>3 DEF CreateAppend
<1>4. CASE JoinOpen(r)
  BY <1>4 DEF JoinOpen, Arrive
<1>5. CASE JoinClosed(r)
  BY <1>5 DEF JoinClosed, Arrive
<1>6. CASE JoinCheck(r)
  BY <1>6 DEF JoinCheck
<1>7. CASE JoinAppend(r)
  BY <1>7 DEF JoinAppend
<1>8. CASE SubmitTake(r)
  BY <1>8 DEF SubmitTake, Arrive
<1>9. CASE SubmitRecord(r)
  BY <1>9 DEF SubmitRecord
<1>10. QED
  BY <1>1, <1>2, <1>3, <1>4, <1>5, <1>6, <1>7, <1>8, <1>9 DEF Act

\* The steps that no request takes.
Rest == UNCHANGED vars \/ Tick \/ (\E u \in User : RemoveAccount(u) \/ RegisterAgain(u))

LEMMA RestFrame ==
    ASSUME Rest
    PROVE  UNCHANGED <<contests, participants, submissions, query, pc, next, now, before>>
BY DEF Rest, Tick, RemoveAccount, RegisterAgain, vars, lines, local

LEMMA Steps ==
    ASSUME [Next]_vars
    PROVE  Rest \/ \E r \in Req : Act(r)
BY NextCases DEF Rest, Act

LEMMA PastKept ==
    ASSUME TypeOK, Past, [Next]_vars
    PROVE  Past'
<1>1. CASE Rest
  BY <1>1, RestFrame DEF Past
<1>2. ASSUME NEW r \in Req, Act(r) PROVE Past'
  <2>1. ASSUME NEW p \in Req, NEW q \in before'[p] PROVE pc'[q] \in Ended
    <3>1. pc[q] \in Ended /\ q \in Req
      BY <1>2, <2>1, Frame DEF Past, TypeOK
    <3>2. QED
      BY <1>2, <3>1, Frame
  <2>2. QED
    BY <2>1 DEF Past
<1>3. QED
  BY <1>1, <1>2, Steps

LEMMA ControlKept ==
    ASSUME TypeOK, Control, [Next]_vars
    PROVE  Control'
<1>1. CASE Rest
  BY <1>1, RestFrame DEF Control
<1>2. ASSUME NEW r \in Req, Act(r) PROVE Control'
  <2>1. \/ pc'[r] \in Ended
        \/ pc'[r] = "numbered" /\ query[r] \in Creation
        \/ pc'[r] = "joining" /\ query[r] \in Entry
        \/ pc'[r] = "checked" /\ query[r] \in Entry
        \/ pc'[r] = "judging" /\ query[r] \in Attempt
    BY <1>2, Forms DEF Act, Refuse, CreateRead, CreateAppend, JoinOpen, JoinClosed,
       JoinCheck, JoinAppend, SubmitTake, SubmitRecord, Arrive, Ended, TypeOK, Control
  <2>2. QED
    BY <1>2, <2>1, Frame DEF Control, Ended
<1>3. QED
  BY <1>1, <1>2, Steps

LEMMA WrittenKept ==
    ASSUME TypeOK, Written, [Next]_vars
    PROVE  Written'
<1>1. CASE Rest
  BY <1>1, RestFrame DEF Written
<1>2. ASSUME NEW r \in Req, CreateAppend(r) PROVE Written'
  <2>1. \A k \in DOMAIN contests' : (k \in DOMAIN contests /\ contests'[k] = contests[k])
                                      \/ contests'[k].req = r
    BY <1>2 DEF CreateAppend, TypeOK
  <2>2. participants' = participants
    BY <1>2 DEF CreateAppend
  <2>3. pc' = [pc EXCEPT ![r] = "done"]
    BY <1>2 DEF CreateAppend
  <2>4. QED
    BY <2>1, <2>2, <2>3, LineTypes DEF Written, TypeOK
<1>3. ASSUME NEW r \in Req, JoinAppend(r) PROVE Written'
  <2>1. \A k \in DOMAIN participants' :
           (k \in DOMAIN participants /\ participants'[k] = participants[k])
           \/ participants'[k].req = r
    BY <1>3 DEF JoinAppend, TypeOK
  <2>2. contests' = contests
    BY <1>3 DEF JoinAppend
  <2>3. pc' = [pc EXCEPT ![r] = "done"]
    BY <1>3 DEF JoinAppend
  <2>4. QED
    BY <2>1, <2>2, <2>3, LineTypes DEF Written, TypeOK
<1>4. ASSUME NEW r \in Req, Act(r), ~CreateAppend(r), ~JoinAppend(r) PROVE Written'
  <2>1. contests' = contests /\ participants' = participants
    BY <1>4 DEF Act, Refuse, CreateRead, JoinOpen, JoinClosed, JoinCheck, SubmitTake,
       SubmitRecord, lines
  <2>2. \A q \in Req : pc[q] = "done" => pc'[q] = "done"
    BY <1>4, Frame DEF Ended
  <2>3. QED
    BY <2>1, <2>2, LineTypes DEF Written, TypeOK
<1>5. QED
  BY <1>1, <1>2, <1>3, <1>4, Steps

-----------------------------------------------------------------------------
(* The lines of contests.txt.                                              *)

\* What a step does to contests.txt.
LEMMA ContestsGrow ==
    ASSUME TypeOK, [Next]_vars
    PROVE  contests' = contests \/ \E r \in Req : CreateAppend(r)
BY NextCases DEF Tick, RemoveAccount, RegisterAgain, Refuse,
   CreateRead, JoinOpen, JoinClosed, JoinCheck,
   JoinAppend, SubmitTake, SubmitRecord, vars, lines

LEMMA Appended ==
    ASSUME TypeOK, Control, NEW r \in Req, CreateAppend(r)
    PROVE  LET n == Len(contests) + 1 IN
           /\ Len(contests) \in Nat
           /\ DOMAIN contests = 1 .. Len(contests)
           /\ DOMAIN contests' = 1 .. n
           /\ \A k \in 1 .. Len(contests) : contests'[k] = contests[k]
           /\ contests'[n].id = next[r]
           /\ contests'[n].req = r
           /\ next[r] \in Nat
           /\ participants' = participants
           /\ pc' = [pc EXCEPT ![r] = "done"]
           /\ UNCHANGED <<query, next, before>>
BY DEF CreateAppend, TypeOK, local

LEMMA FirstKept ==
    ASSUME TypeOK, Control, [Next]_vars, NEW c, NEW k, IsFirst(c, k)
    PROVE  IsFirst(c, k)'
<1>1. CASE contests' = contests
  BY <1>1 DEF IsFirst
<1>2. ASSUME NEW r \in Req, CreateAppend(r) PROVE IsFirst(c, k)'
  <2>1. k \in 1 .. Len(contests) /\ \A i \in 1 .. k - 1 : i \in 1 .. Len(contests)
    BY <1>2, Appended DEF IsFirst
  <2>2. QED
    BY <1>2, <2>1, Appended DEF IsFirst
<1>3. QED
  BY <1>1, <1>2, ContestsGrow

LEMMA NumberingKept ==
    ASSUME TypeOK, TypeOK', Control, Numbering, [Next]_vars
    PROVE  Numbering'
<1>1. CASE contests' = contests
  BY <1>1 DEF Numbering, IsFirst
<1>2. ASSUME NEW r \in Req, CreateAppend(r) PROVE Numbering'
  <2> DEFINE n == Len(contests) + 1
  <2>1. PICK top \in {0} \cup {contests[k].id : k \in DOMAIN contests} :
           \A k \in DOMAIN contests : contests[k].id <= top
    BY DEF Numbering
  <2>2. top \in Nat /\ \A k \in 1 .. Len(contests) : contests[k].id \in Nat
    BY <1>2, <2>1, LineTypes, Appended
  <2>3. \E m \in {0} \cup {contests'[k].id : k \in DOMAIN contests'} :
           \A k \in DOMAIN contests' : contests'[k].id <= m
    <3>1. CASE next[r] <= top
      <4>1. top \in {0} \cup {contests'[k].id : k \in DOMAIN contests'}
        BY <1>2, <2>1, Appended
      <4>2. \A k \in DOMAIN contests' : contests'[k].id <= top
        BY <1>2, <2>1, <3>1, Appended
      <4>3. QED
        BY <4>1, <4>2
    <3>2. CASE top <= next[r]
      <4>1. next[r] \in {contests'[k].id : k \in DOMAIN contests'}
        BY <1>2, Appended
      <4>2. \A k \in DOMAIN contests' : contests'[k].id <= next[r]
        BY <1>2, <2>1, <2>2, <3>2, Appended
      <4>3. QED
        BY <4>1, <4>2
    <3>3. QED
      BY <1>2, <2>2, <3>1, <3>2, Appended
  <2>4. ASSUME NEW k \in DOMAIN contests'
        PROVE  \E i \in DOMAIN contests' :
                  /\ contests'[i].id = contests'[k].id
                  /\ \A h \in 1 .. i - 1 : contests'[h].id # contests'[k].id
    <3>1. CASE \E j \in DOMAIN contests : contests[j].id = contests'[k].id
      <4>1. PICK i \in DOMAIN contests :
               /\ contests[i].id = contests'[k].id
               /\ \A h \in 1 .. i - 1 : contests[h].id # contests'[k].id
        BY <3>1 DEF Numbering, IsFirst
      <4>2. i \in 1 .. Len(contests) /\ \A h \in 1 .. i - 1 : h \in 1 .. Len(contests)
        BY <1>2, <4>1, Appended
      <4>3. /\ i \in DOMAIN contests' /\ contests'[i] = contests[i]
            /\ \A h \in 1 .. i - 1 : contests'[h] = contests[h]
        BY <1>2, <4>2, Appended
      <4>4. QED
        BY <4>1, <4>3
    <3>2. CASE ~\E j \in DOMAIN contests : contests[j].id = contests'[k].id
      <4>1. k = n
        BY <1>2, <3>2, Appended
      <4>2. \A h \in 1 .. n - 1 : contests'[h].id # contests'[k].id
        BY <1>2, <3>2, Appended
      <4>3. QED
        BY <4>1, <4>2
    <3>3. QED
      BY <3>1, <3>2
  <2>5. QED
    BY <2>3, <2>4 DEF Numbering, IsFirst
<1>3. QED
  BY <1>1, <1>2, ContestsGrow

\* The line of a number, once there, stays the same.
LEMMA LineKept ==
    ASSUME TypeOK, TypeOK', Control, Numbering, [Next]_vars, NEW c, Exists(c)
    PROVE  Exists(c)' /\ LineOf(c)' = LineOf(c)
<1>1. PICK k \in DOMAIN contests : IsFirst(c, k)
  BY DEF Exists, Numbering
<1>2. IsFirst(c, k)'
  BY <1>1, FirstKept
<1>3. contests'[k] = contests[k]
  <2>1. CASE contests' = contests
    BY <2>1
  <2>2. ASSUME NEW r \in Req, CreateAppend(r) PROVE contests'[k] = contests[k]
    BY <2>2, Appended
  <2>3. QED
    BY <2>1, <2>2, ContestsGrow
<1>4. LineOf(c) = contests[k]
  BY <1>1, LineOfFirst
<1>5. LineOf(c)' = contests'[k]
  <2>1. (CHOOSE i \in DOMAIN contests' : IsFirst(c, i)') = k
    <3>1. k \in DOMAIN contests' /\ k \in Nat
      BY <1>2 DEF IsFirst, TypeOK
    <3>2. ASSUME NEW i \in DOMAIN contests', IsFirst(c, i)' PROVE i = k
      <4>1. i \in Nat /\ ~(i < k) /\ ~(k < i)
        BY <1>2, <3>1, <3>2 DEF IsFirst, TypeOK
      <4>2. QED
        BY <3>1, <4>1
    <3>3. QED
      BY <1>2, <3>1, <3>2
  <2>2. QED
    BY <2>1 DEF LineOf
<1>6. QED
  BY <1>2, <1>3, <1>4, <1>5 DEF Exists, IsFirst

LEMMA DuringKept ==
    ASSUME TypeOK, TypeOK', Control, Numbering, [Next]_vars,
           NEW c, NEW t \in Nat, During(c, t)
    PROVE  During(c, t)'
<1>1. Exists(c)' /\ LineOf(c)' = LineOf(c)
  BY LineKept DEF During
<1>2. clock \in Nat
  BY ContestsAssumption DEF TypeOK, Time
<1>3. clock' = clock \/ clock' = clock + 1
  BY NextCases DEF Tick, RemoveAccount, RegisterAgain, Refuse,
   CreateRead, CreateAppend, JoinOpen,
     JoinClosed, JoinCheck, JoinAppend, SubmitTake, SubmitRecord, vars
<1>4. QED
  BY <1>1, <1>2, <1>3, LineTypes DEF During, Opens, Closes

-----------------------------------------------------------------------------
(* Numbers of contests.                                                    *)

LEMMA NumberIsFreeKept ==
    ASSUME TypeOK, Control, Past, Written, Numbering, NumberIsFree, [Next]_vars
    PROVE  NumberIsFree'
<1>1. CASE Rest
  BY <1>1, RestFrame DEF NumberIsFree
<1>2. ASSUME NEW r \in Req, CreateAppend(r) PROVE NumberIsFree'
  <2>1. SUFFICES ASSUME NEW q \in Req, pc'[q] = "numbered", NEW k \in DOMAIN contests',
                        contests'[k].id >= next'[q]
                 PROVE  contests'[k].req \notin before'[q]
    BY DEF NumberIsFree
  <2>2. pc[q] = "numbered" /\ next'[q] = next[q] /\ before'[q] = before[q]
    BY <1>2, <2>1, Appended DEF TypeOK
  <2>3. CASE k \in 1 .. Len(contests)
    <3>1. contests'[k] = contests[k] /\ k \in DOMAIN contests
      BY <1>2, <2>3, Appended
    <3>2. QED
      BY <2>1, <2>2, <3>1 DEF NumberIsFree
  <2>4. CASE k = Len(contests) + 1
    <3>1. contests'[k].req = r
      BY <1>2, <2>4, Appended
    <3>2. pc[r] = "numbered"
      BY <1>2 DEF CreateAppend
    <3>3. QED
      BY <2>2, <3>1, <3>2 DEF Past, Ended
  <2>5. QED
    BY <1>2, <2>1, <2>3, <2>4, Appended
<1>3. ASSUME NEW r \in Req, CreateRead(r) PROVE NumberIsFree'
  <2>1. contests' = contests /\ next'[r] = NextId
    BY <1>3 DEF CreateRead, lines, TypeOK
  <2>2. \A k \in DOMAIN contests : ~(contests[k].id >= next'[r])
    BY <2>1, NextIdIsLarger, LineTypes
  <2>3. Act(r)
    BY <1>3 DEF Act
  <2>4. QED
    BY <2>1, <2>2, <2>3, Frame DEF NumberIsFree
<1>4. ASSUME NEW r \in Req, Act(r), ~CreateRead(r), ~CreateAppend(r) PROVE NumberIsFree'
  <2>1. contests' = contests /\ pc'[r] # "numbered"
    BY <1>4 DEF Act, Refuse, JoinOpen, JoinClosed, JoinCheck, JoinAppend, SubmitTake,
       SubmitRecord, lines, TypeOK
  <2>2. QED
    BY <1>4, <2>1, Frame DEF NumberIsFree
<1>5. QED
  BY <1>1, <1>2, <1>3, <1>4, Steps

\* Whether two requests that are done were apart does not change.
LEMMA ApartKept ==
    ASSUME TypeOK, [Next]_vars, NEW p \in Req, NEW q \in Req,
           pc[p] = "done", pc[q] = "done"
    PROVE  Apart(p, q)' <=> Apart(p, q)
<1>1. CASE Rest
  BY <1>1, RestFrame DEF Apart
<1>2. ASSUME NEW r \in Req, Act(r) PROVE before'[p] = before[p] /\ before'[q] = before[q]
  BY <1>2, Frame DEF Ended
<1>3. QED
  BY <1>1, <1>2, Steps DEF Apart

LEMMA IdsUniqueKept ==
    ASSUME TypeOK, Control, Past, Written, NumberIsFree, IdsUnique, [Next]_vars
    PROVE  IdsUnique'
<1>1. CASE contests' = contests
  <2>1. SUFFICES ASSUME NEW i \in DOMAIN contests, NEW j \in DOMAIN contests, i # j,
                        Apart(contests[i].req, contests[j].req)'
                 PROVE  contests[i].id # contests[j].id
    BY <1>1 DEF IdsUnique, Apart
  <2>2. Apart(contests[i].req, contests[j].req)
    <3> DEFINE p == contests[i].req  q == contests[j].req
    <3>1. p \in Req /\ q \in Req /\ pc[p] = "done" /\ pc[q] = "done"
      BY LineTypes DEF Written
    <3>2. p \in before'[q] \/ q \in before'[p]
      BY <1>1, <2>1 DEF Apart
    <3> HIDE DEF p, q
    <3>3. Apart(p, q)
      BY <3>1, <3>2, ApartKept DEF Apart
    <3>4. QED
      BY <3>3 DEF p, q
  <2>3. QED
    BY <2>1, <2>2 DEF IdsUnique
<1>2. ASSUME NEW r \in Req, CreateAppend(r) PROVE IdsUnique'
  <2> DEFINE n == Len(contests) + 1
  <2>1. before' = before
    BY <1>2, Appended
  <2>2. \A i \in 1 .. Len(contests) :
           contests[i].id = next[r] => ~Apart(contests[i].req, r)
    <3>1. SUFFICES ASSUME NEW i \in 1 .. Len(contests), contests[i].id = next[r]
                   PROVE  ~Apart(contests[i].req, r)
      OBVIOUS
    <3>2. pc[r] = "numbered" /\ i \in DOMAIN contests
      BY <1>2, Appended DEF CreateAppend
    <3>3. contests[i].req \notin before[r]
      BY <1>2, <3>1, <3>2, Appended DEF NumberIsFree
    <3>4. r \notin before[contests[i].req]
      BY <3>2, LineTypes DEF Past, Ended
    <3>5. QED
      BY <3>3, <3>4 DEF Apart
  <2>3. SUFFICES ASSUME NEW i \in 1 .. n, NEW j \in 1 .. n, i # j,
                        contests'[i].id = contests'[j].id
                 PROVE  /\ contests'[i].req \notin before[contests'[j].req]
                        /\ contests'[j].req \notin before[contests'[i].req]
    BY <1>2, <2>1, Appended DEF IdsUnique, Apart
  <2>4. CASE i \in 1 .. Len(contests) /\ j \in 1 .. Len(contests)
    <3>1. contests'[i] = contests[i] /\ contests'[j] = contests[j]
      BY <1>2, <2>4, Appended
    <3>2. i \in DOMAIN contests /\ j \in DOMAIN contests
      BY <1>2, <2>4, Appended
    <3>3. QED
      BY <2>3, <3>1, <3>2 DEF IdsUnique, Apart
  <2>5. CASE i = n /\ j \in 1 .. Len(contests)
    <3>1. contests'[i].req = r /\ contests'[i].id = next[r] /\ contests'[j] = contests[j]
      BY <1>2, <2>5, Appended
    <3>2. QED
      BY <2>2, <2>3, <2>5, <3>1 DEF Apart
  <2>6. CASE j = n /\ i \in 1 .. Len(contests)
    <3>1. contests'[j].req = r /\ contests'[j].id = next[r] /\ contests'[i] = contests[i]
      BY <1>2, <2>6, Appended
    <3>2. QED
      BY <2>2, <2>3, <2>6, <3>1 DEF Apart
  <2>7. QED
    BY <1>2, <2>3, <2>4, <2>5, <2>6, Appended
<1>3. QED
  BY <1>1, <1>2, ContestsGrow

-----------------------------------------------------------------------------
(* Participants.                                                           *)

LEMMA ParticipantsGrow ==
    ASSUME TypeOK, [Next]_vars
    PROVE  participants' = participants \/ \E r \in Req : JoinAppend(r)
BY NextCases DEF Tick, RemoveAccount, RegisterAgain, Refuse,
   CreateRead, CreateAppend, JoinOpen, JoinClosed,
   JoinCheck, SubmitTake, SubmitRecord, vars, lines

LEMMA Enrolled ==
    ASSUME TypeOK, Control, NEW r \in Req, JoinAppend(r)
    PROVE  LET n == Len(participants) + 1 IN
           /\ Len(participants) \in Nat
           /\ DOMAIN participants = 1 .. Len(participants)
           /\ DOMAIN participants' = 1 .. n
           /\ \A k \in 1 .. Len(participants) : participants'[k] = participants[k]
           /\ participants'[n].contest = query[r].contest
           /\ participants'[n].user = query[r].user
           /\ participants'[n].since = now[r]
           /\ participants'[n].req = r
           /\ contests' = contests
           /\ pc[r] = "checked"
           /\ pc' = [pc EXCEPT ![r] = "done"]
           /\ UNCHANGED <<clock, submissions, query, now, before>>
BY DEF JoinAppend, TypeOK, local

LEMMA PlaceIsFreeKept ==
    ASSUME TypeOK, Control, Past, Written, PlaceIsFree, [Next]_vars
    PROVE  PlaceIsFree'
<1>1. CASE Rest
  BY <1>1, RestFrame DEF PlaceIsFree
<1>2. ASSUME NEW r \in Req, JoinAppend(r) PROVE PlaceIsFree'
  <2>1. SUFFICES ASSUME NEW q \in Req, pc'[q] = "checked", NEW k \in DOMAIN participants',
                        participants'[k].contest = query'[q].contest,
                        participants'[k].user = query'[q].user
                 PROVE  participants'[k].req \notin before'[q]
    BY DEF PlaceIsFree
  <2>2. pc[q] = "checked" /\ query'[q] = query[q] /\ before'[q] = before[q]
    BY <1>2, <2>1, Enrolled DEF TypeOK
  <2>3. CASE k \in 1 .. Len(participants)
    <3>1. participants'[k] = participants[k] /\ k \in DOMAIN participants
      BY <1>2, <2>3, Enrolled
    <3>2. QED
      BY <2>1, <2>2, <3>1 DEF PlaceIsFree
  <2>4. CASE k = Len(participants) + 1
    <3>1. participants'[k].req = r /\ pc[r] = "checked"
      BY <1>2, <2>4, Enrolled
    <3>2. QED
      BY <2>2, <3>1 DEF Past, Ended
  <2>5. QED
    BY <1>2, <2>1, <2>3, <2>4, Enrolled
<1>3. ASSUME NEW r \in Req, JoinCheck(r) PROVE PlaceIsFree'
  <2>1. /\ participants' = participants
        /\ pc'[r] = "checked" => ~Joined(query[r].contest, query[r].user)
    BY <1>3 DEF JoinCheck, lines, TypeOK
  <2>2. Act(r)
    BY <1>3 DEF Act
  <2>3. QED
    BY <2>1, <2>2, Frame DEF PlaceIsFree, Joined
<1>4. ASSUME NEW r \in Req, Act(r), ~JoinCheck(r), ~JoinAppend(r) PROVE PlaceIsFree'
  <2>1. participants' = participants /\ pc'[r] # "checked"
    BY <1>4 DEF Act, Refuse, CreateRead, CreateAppend, JoinOpen, JoinClosed, SubmitTake,
       SubmitRecord, lines, TypeOK
  <2>2. QED
    BY <1>4, <2>1, Frame DEF PlaceIsFree
<1>5. QED
  BY <1>1, <1>2, <1>3, <1>4, Steps

LEMMA JoinedOnceKept ==
    ASSUME TypeOK, Control, Past, Written, PlaceIsFree, JoinedOnce, [Next]_vars
    PROVE  JoinedOnce'
<1>1. CASE participants' = participants
  <2>1. SUFFICES ASSUME NEW i \in DOMAIN participants, NEW j \in DOMAIN participants, i # j,
                        Apart(participants[i].req, participants[j].req)'
                 PROVE  \/ participants[i].contest # participants[j].contest
                        \/ participants[i].user # participants[j].user
    BY <1>1 DEF JoinedOnce, Apart
  <2>2. Apart(participants[i].req, participants[j].req)
    <3> DEFINE p == participants[i].req  q == participants[j].req
    <3>1. p \in Req /\ q \in Req /\ pc[p] = "done" /\ pc[q] = "done"
      BY LineTypes DEF Written
    <3>2. p \in before'[q] \/ q \in before'[p]
      BY <1>1, <2>1 DEF Apart
    <3> HIDE DEF p, q
    <3>3. Apart(p, q)
      BY <3>1, <3>2, ApartKept DEF Apart
    <3>4. QED
      BY <3>3 DEF p, q
  <2>3. QED
    BY <2>1, <2>2 DEF JoinedOnce
<1>2. ASSUME NEW r \in Req, JoinAppend(r) PROVE JoinedOnce'
  <2> DEFINE n == Len(participants) + 1
             Same(p) == p.contest = query[r].contest /\ p.user = query[r].user
  <2>1. before' = before
    BY <1>2, Enrolled
  <2>2. \A i \in 1 .. Len(participants) :
           Same(participants[i]) => ~Apart(participants[i].req, r)
    <3>1. SUFFICES ASSUME NEW i \in 1 .. Len(participants), Same(participants[i])
                   PROVE  ~Apart(participants[i].req, r)
      OBVIOUS
    <3>2. pc[r] = "checked" /\ i \in DOMAIN participants
      BY <1>2, Enrolled
    <3>3. participants[i].req \notin before[r]
      BY <3>1, <3>2 DEF PlaceIsFree
    <3>4. r \notin before[participants[i].req]
      BY <3>2, LineTypes DEF Past, Ended
    <3>5. QED
      BY <3>3, <3>4 DEF Apart
  <2>3. SUFFICES ASSUME NEW i \in 1 .. n, NEW j \in 1 .. n, i # j,
                        participants'[i].contest = participants'[j].contest,
                        participants'[i].user = participants'[j].user
                 PROVE  /\ participants'[i].req \notin before[participants'[j].req]
                        /\ participants'[j].req \notin before[participants'[i].req]
    BY <1>2, <2>1, Enrolled DEF JoinedOnce, Apart
  <2>4. CASE i \in 1 .. Len(participants) /\ j \in 1 .. Len(participants)
    <3>1. participants'[i] = participants[i] /\ participants'[j] = participants[j]
      BY <1>2, <2>4, Enrolled
    <3>2. i \in DOMAIN participants /\ j \in DOMAIN participants
      BY <1>2, <2>4, Enrolled
    <3>3. QED
      BY <2>3, <3>1, <3>2 DEF JoinedOnce, Apart
  <2>5. CASE i = n /\ j \in 1 .. Len(participants)
    <3>1. /\ participants'[i].req = r
          /\ Same(participants'[i])
          /\ participants'[j] = participants[j]
      BY <1>2, <2>5, Enrolled
    <3>2. QED
      BY <2>2, <2>3, <2>5, <3>1 DEF Apart
  <2>6. CASE j = n /\ i \in 1 .. Len(participants)
    <3>1. /\ participants'[j].req = r
          /\ Same(participants'[j])
          /\ participants'[i] = participants[i]
      BY <1>2, <2>6, Enrolled
    <3>2. QED
      BY <2>2, <2>3, <2>6, <3>1 DEF Apart
  <2>7. QED
    BY <1>2, <2>3, <2>4, <2>5, <2>6, Enrolled
<1>3. QED
  BY <1>1, <1>2, ParticipantsGrow

LEMMA JoinedKept ==
    ASSUME TypeOK, Control, [Next]_vars, NEW k \in DOMAIN participants
    PROVE  k \in DOMAIN participants' /\ participants'[k] = participants[k]
<1>1. CASE participants' = participants
  BY <1>1
<1>2. ASSUME NEW r \in Req, JoinAppend(r)
      PROVE  k \in DOMAIN participants' /\ participants'[k] = participants[k]
  BY <1>2, Enrolled
<1>3. QED
  BY <1>1, <1>2, ParticipantsGrow

-----------------------------------------------------------------------------
(* Times.                                                                  *)

LEMMA JoinedDuringKept ==
    ASSUME TypeOK, TypeOK', Control, Numbering, JoinedDuring, [Next]_vars
    PROVE  JoinedDuring'
<1>1. ASSUME NEW c, NEW t \in Nat, During(c, t) PROVE During(c, t)'
  BY <1>1, DuringKept
<1>2. ASSUME NEW q \in Req, pc'[q] \in {"joining", "checked"}
      PROVE  During(query[q].contest, now[q])'
  <2>1. CASE /\ query' = query /\ now'[q] = now[q]
             /\ pc[q] \in {"joining", "checked"}
    <3>1. PICK c, t : c = query[q].contest /\ t = now[q]
      OBVIOUS
    <3>2. During(c, t) /\ t \in Nat
      BY <2>1, <3>1 DEF JoinedDuring, TypeOK
    <3>3. During(c, t)'
      BY <1>1, <3>2
    <3>4. QED
      BY <2>1, <3>1, <3>3 DEF During, Exists, LineOf, IsFirst, Opens, Closes
  <2>2. CASE JoinOpen(q)
    <3>1. /\ query' = query /\ now'[q] = clock /\ clock' = clock /\ contests' = contests
          /\ Exists(query[q].contest) /\ InWindow(query[q].contest)
      BY <2>2 DEF JoinOpen, lines, TypeOK
    <3>2. clock \in Nat
      BY ContestsAssumption DEF TypeOK, Time
    <3>3. QED
      BY <3>1, <3>2 DEF During, InWindow, Exists, LineOf, IsFirst, Opens, Closes
  <2>3. CASE Rest
    BY <1>2, <2>1, <2>3, RestFrame
  <2>4. ASSUME NEW r \in Req, Act(r), ~JoinOpen(q)
        PROVE  query' = query /\ now'[q] = now[q] /\ pc[q] \in {"joining", "checked"}
    <3>1. CASE r # q
      BY <1>2, <2>4, <3>1, Frame
    <3>2. CASE r = q
      BY <1>2, <2>4, <3>2 DEF Act, Refuse, CreateRead, CreateAppend, JoinClosed, JoinCheck,
         JoinAppend, SubmitTake, SubmitRecord, TypeOK, local
    <3>3. QED
      BY <3>1, <3>2
  <2>5. QED
    BY <2>1, <2>2, <2>3, <2>4, Steps
<1>3. ASSUME NEW k \in DOMAIN participants'
      PROVE  During(participants[k].contest, participants[k].since)'
  <2>1. CASE k \in DOMAIN participants
    <3>1. PICK c, t : c = participants[k].contest /\ t = participants[k].since
      OBVIOUS
    <3>2. During(c, t) /\ t \in Nat
      BY <2>1, <3>1, LineTypes DEF JoinedDuring, Participant
    <3>3. participants'[k] = participants[k]
      BY <2>1, JoinedKept
    <3>4. During(c, t)'
      BY <1>1, <3>2
    <3>5. QED
      BY <3>1, <3>3, <3>4 DEF During, Exists, LineOf, IsFirst, Opens, Closes
  <2>2. ASSUME NEW r \in Req, JoinAppend(r), k \notin DOMAIN participants
        PROVE  During(participants[k].contest, participants[k].since)'
    <3>1. PICK c, t : c = query[r].contest /\ t = now[r]
      OBVIOUS
    <3>2. During(c, t) /\ t \in Nat
      BY <2>2, <3>1, Enrolled DEF JoinedDuring, TypeOK
    <3>3. participants'[k].contest = c /\ participants'[k].since = t
      BY <1>3, <2>2, <3>1, Enrolled
    <3>4. During(c, t)'
      BY <1>1, <3>2
    <3>5. QED
      BY <3>3, <3>4 DEF During, Exists, LineOf, IsFirst, Opens, Closes
  <2>3. QED
    BY <1>3, <2>1, <2>2, ParticipantsGrow
<1>4. QED
  BY <1>2, <1>3 DEF JoinedDuring

LEMMA JoinedStays ==
    ASSUME TypeOK, Control, [Next]_vars, NEW c, NEW u, Joined(c, u)
    PROVE  Joined(c, u)'
BY JoinedKept DEF Joined

LEMMA SubmitterJoinedKept ==
    ASSUME TypeOK, Control, SubmitterJoined, [Next]_vars
    PROVE  SubmitterJoined'
<1>1. ASSUME NEW q \in Req, pc'[q] = "judging"
      PROVE  query' = query /\ Joined(query[q].contest, query[q].user)
  <2>1. CASE Rest
    BY <1>1, <2>1, RestFrame DEF SubmitterJoined
  <2>2. ASSUME NEW r \in Req, Act(r), r # q
        PROVE  query' = query /\ Joined(query[q].contest, query[q].user)
    BY <1>1, <2>2, Frame DEF SubmitterJoined
  <2>3. CASE Act(q)
    BY <1>1, <2>3 DEF Act, Refuse, CreateRead, CreateAppend, JoinOpen, JoinClosed, JoinCheck,
       JoinAppend, SubmitTake, SubmitRecord, TypeOK
  <2>4. QED
    BY <2>1, <2>2, <2>3, Steps
<1>2. ASSUME NEW q \in Req, pc'[q] = "judging"
      PROVE  Joined(query[q].contest, query[q].user)'
  <2>1. PICK c, u : c = query[q].contest /\ u = query[q].user
    OBVIOUS
  <2>2. query' = query /\ Joined(c, u)
    BY <1>1, <1>2, <2>1
  <2>3. Joined(c, u)'
    BY <2>2, JoinedStays
  <2>4. QED
    BY <2>1, <2>2, <2>3 DEF Joined
<1>3. QED
  BY <1>2 DEF SubmitterJoined

\* Some participant of contest c named u has joined it during the contest, and
\* not after time t.
InTime(c, u, t) ==
    /\ Exists(c)
    /\ \E p \in DOMAIN participants :
          /\ participants[p].contest = c
          /\ participants[p].user = u
          /\ Opens(LineOf(c)) <= participants[p].since
          /\ participants[p].since <= Closes(LineOf(c))
          /\ participants[p].since <= t

LEMMA InTimeKept ==
    ASSUME TypeOK, TypeOK', Control, Numbering, [Next]_vars,
           NEW c, NEW u, NEW t, InTime(c, u, t)
    PROVE  InTime(c, u, t)'
<1>1. Exists(c)' /\ LineOf(c)' = LineOf(c)
  BY LineKept DEF InTime
<1>2. PICK p \in DOMAIN participants :
         /\ participants[p].contest = c
         /\ participants[p].user = u
         /\ Opens(LineOf(c)) <= participants[p].since
         /\ participants[p].since <= Closes(LineOf(c))
         /\ participants[p].since <= t
  BY DEF InTime
<1>3. p \in DOMAIN participants' /\ participants'[p] = participants[p]
  BY <1>2, JoinedKept
<1>4. QED
  BY <1>1, <1>2, <1>3 DEF InTime, Opens, Closes

LEMMA JudgedInTime ==
    ASSUME TypeOK, JoinedDuring, SubmitterJoined, NEW r \in Req, pc[r] = "judging"
    PROVE  InTime(query[r].contest, query[r].user, clock)
<1>1. PICK p \in DOMAIN participants :
         participants[p].contest = query[r].contest /\ participants[p].user = query[r].user
  BY DEF SubmitterJoined, Joined
<1>2. During(query[r].contest, participants[p].since)
  BY <1>1 DEF JoinedDuring
<1>3. QED
  BY <1>1, <1>2 DEF InTime, During

LEMMA SubmissionsGrow ==
    ASSUME TypeOK, [Next]_vars
    PROVE  submissions' = submissions \/ \E r \in Req : SubmitRecord(r)
BY NextCases DEF Tick, RemoveAccount, RegisterAgain, Refuse,
   CreateRead, CreateAppend, JoinOpen, JoinClosed,
   JoinCheck, JoinAppend, SubmitTake, vars, lines

LEMMA NeverEarlyKept ==
    ASSUME TypeOK, TypeOK', Control, Numbering, JoinedDuring, SubmitterJoined,
           NeverEarly, [Next]_vars
    PROVE  NeverEarly'
<1>1. ASSUME NEW c, NEW u, NEW t, InTime(c, u, t) PROVE InTime(c, u, t)'
  BY <1>1, InTimeKept
<1>2. ASSUME NEW k \in DOMAIN submissions'
      PROVE  InTime(submissions[k].contest, submissions[k].by, submissions[k].time)'
  <2>1. CASE k \in DOMAIN submissions /\ submissions'[k] = submissions[k]
    <3>1. PICK c, u, t :
             c = submissions[k].contest /\ u = submissions[k].by /\ t = submissions[k].time
      OBVIOUS
    <3>2. InTime(c, u, t)
      BY <2>1, <3>1 DEF NeverEarly, InTime
    <3>3. InTime(c, u, t)'
      BY <1>1, <3>2
    <3>4. QED
      BY <2>1, <3>1, <3>3 DEF InTime, Exists, LineOf, IsFirst, Opens, Closes
  <2>2. ASSUME NEW r \in Req, SubmitRecord(r),
               ~(k \in DOMAIN submissions /\ submissions'[k] = submissions[k])
        PROVE  InTime(submissions[k].contest, submissions[k].by, submissions[k].time)'
    <3>1. PICK c, u, t : c = query[r].contest /\ u = query[r].user /\ t = clock
      OBVIOUS
    <3>2. InTime(c, u, t)
      BY <2>2, <3>1, JudgedInTime DEF SubmitRecord
    <3>3. /\ submissions'[k].contest = c
          /\ submissions'[k].by = u
          /\ submissions'[k].time = t
      BY <1>2, <2>2, <3>1 DEF SubmitRecord, TypeOK
    <3>4. InTime(c, u, t)'
      BY <1>1, <3>2
    <3>5. QED
      BY <3>3, <3>4 DEF InTime, Exists, LineOf, IsFirst, Opens, Closes
  <2>3. QED
    BY <1>2, <2>1, <2>2, SubmissionsGrow
<1>3. QED
  BY <1>2 DEF NeverEarly, InTime

-----------------------------------------------------------------------------
(* The theorems.                                                           *)

LEMMA Initially == Init => IInv
<1> SUFFICES ASSUME Init PROVE IInv
  OBVIOUS
<1>1. TypeOK
  BY ContestsAssumption DEF Init, TypeOK, Time, Ended
<1>2. Control /\ Past /\ Written /\ NumberIsFree /\ IdsUnique /\ PlaceIsFree /\ JoinedOnce
  BY DEF Init, Control, Past, Written, NumberIsFree, IdsUnique, PlaceIsFree, JoinedOnce
<1>3. Numbering
  BY DEF Init, Numbering
<1>4. JoinedDuring /\ SubmitterJoined /\ NeverEarly
  BY DEF Init, JoinedDuring, SubmitterJoined, NeverEarly
<1>5. QED
  BY <1>1, <1>2, <1>3, <1>4 DEF IInv

LEMMA Inductive == IInv /\ [Next]_vars => IInv'
<1> SUFFICES ASSUME IInv, [Next]_vars PROVE IInv'
  OBVIOUS
<1> USE DEF IInv
<1>1. TypeOK'
  BY TypesKept
<1>2. Control' /\ Past' /\ Written'
  BY ControlKept, PastKept, WrittenKept
<1>3. Numbering' /\ NumberIsFree' /\ IdsUnique'
  BY <1>1, NumberingKept, NumberIsFreeKept, IdsUniqueKept
<1>4. PlaceIsFree' /\ JoinedOnce'
  BY PlaceIsFreeKept, JoinedOnceKept
<1>5. JoinedDuring' /\ SubmitterJoined' /\ NeverEarly'
  BY <1>1, JoinedDuringKept, SubmitterJoinedKept, NeverEarlyKept
<1>6. QED
  BY <1>1, <1>2, <1>3, <1>4, <1>5

(***************************************************************************)
(* IInv is an inductive invariant of create_contest.c, join_contest.c and  *)
(* contest_submit.c running side by side.                                  *)
(***************************************************************************)
THEOREM ContestsInvariance == Spec => []IInv
<1>1. Init => IInv
  BY Initially
<1>2. IInv /\ [Next]_vars => IInv'
  BY Inductive
<1>3. QED
  BY <1>1, <1>2, PTL DEF Spec

(***************************************************************************)
(* get_next_id of create_contest.c hands out a number twice only to        *)
(* requests that overlap.                                                  *)
(***************************************************************************)
THEOREM IdsTheorem == Spec => []IdsUnique
<1>1. IInv => IdsUnique
  BY DEF IInv
<1>2. QED
  BY <1>1, ContestsInvariance, PTL

(***************************************************************************)
(* join_contest.c lists a user twice only if two requests overlap.         *)
(***************************************************************************)
THEOREM JoinedTheorem == Spec => []JoinedOnce
<1>1. IInv => JoinedOnce
  BY DEF IInv
<1>2. QED
  BY <1>1, ContestsInvariance, PTL

(***************************************************************************)
(* contest_submit.c, which does not look at the times of a contest, still  *)
(* enters nothing from anybody who had not joined it while it was running. *)
(***************************************************************************)
THEOREM EarlyTheorem == Spec => []NeverEarly
<1>1. IInv => NeverEarly
  BY DEF IInv
<1>2. QED
  BY <1>1, ContestsInvariance, PTL

-----------------------------------------------------------------------------
(* The ranking.                                                            *)

LEMMA OwnNumbersAtInit == Init => OwnNumbers
BY DEF Init, OwnNumbers, NumbersOf

LEMMA OwnNumbersKept ==
    ASSUME TypeOK, Control, OwnNumbers, [Next]_vars
    PROVE  OwnNumbers'
<1>1. \A u \in User : account'[u] \in NumbersOf(u)
  <2>1. CASE account' = account
    BY <2>1 DEF OwnNumbers
  <2>2. ASSUME NEW u \in User, RemoveAccount(u) \/ RegisterAgain(u)
        PROVE  \A v \in User : account'[v] \in NumbersOf(v)
    <3>1. \E n \in NumbersOf(u) : account' = [account EXCEPT ![u] = n]
      BY <2>2 DEF RemoveAccount, RegisterAgain, NumbersOf
    <3>2. QED
      BY <3>1 DEF OwnNumbers, TypeOK
  <2>3. account' = account \/ \E u \in User : RemoveAccount(u) \/ RegisterAgain(u)
    BY NextCases DEF vars, Tick, Refuse, CreateRead, CreateAppend, JoinOpen, JoinClosed,
       JoinCheck, JoinAppend, SubmitTake, SubmitRecord
  <2>4. QED
    BY <2>1, <2>2, <2>3
<1>2. ASSUME NEW r \in Req, pc'[r] = "checked"
      PROVE  uid'[r] \in NumbersOf(query'[r].user)
  <2>1. CASE pc[r] = "checked" /\ uid'[r] = uid[r] /\ query' = query
    BY <2>1 DEF OwnNumbers
  <2>2. CASE JoinCheck(r)
    <3>1. query[r] \in Entry
      BY <2>2 DEF JoinCheck, Control
    <3>2. query[r].user \in User
      BY <3>1 DEF Entry
    <3>3. uid'[r] = account[query[r].user] /\ query' = query
      BY <2>2, <1>2 DEF JoinCheck, TypeOK
    <3>4. QED
      BY <3>2, <3>3 DEF OwnNumbers
  <2>3. \/ pc[r] = "checked" /\ uid'[r] = uid[r] /\ query' = query
        \/ JoinCheck(r)
    <3>1. CASE Rest
      BY <3>1, <1>2 DEF Rest, Tick, RemoveAccount, RegisterAgain, vars, lines, local
    <3>2. ASSUME NEW q \in Req, Act(q)
          PROVE  \/ pc[r] = "checked" /\ uid'[r] = uid[r] /\ query' = query
                 \/ JoinCheck(r)
      <4>1. CASE q = r
        BY <4>1, <3>2, <1>2 DEF Act, Refuse, CreateRead, CreateAppend, JoinOpen, JoinClosed,
           JoinAppend, SubmitTake, SubmitRecord, TypeOK
      <4>2. CASE q # r
        <5>1. uid'[r] = uid[r]
          BY <4>2, <3>2 DEF Act, Refuse, CreateRead, CreateAppend, JoinOpen, JoinClosed,
             JoinCheck, JoinAppend, SubmitTake, SubmitRecord, TypeOK, local
        <5>2. QED
          BY <5>1, <4>2, <3>2, <1>2, Frame
      <4>3. QED
        BY <4>1, <4>2
    <3>3. QED
      BY <3>1, <3>2, Steps
  <2>4. QED
    BY <2>1, <2>2, <2>3
<1>3. ASSUME NEW k \in DOMAIN participants'
      PROVE  participants'[k].uid \in NumbersOf(participants'[k].user)
  <2>1. CASE participants' = participants
    BY <2>1 DEF OwnNumbers
  <2>2. ASSUME NEW r \in Req, JoinAppend(r)
        PROVE  participants'[k].uid \in NumbersOf(participants'[k].user)
    <3> DEFINE line == [contest |-> query[r].contest, user |-> query[r].user,
                        uid |-> uid[r], since |-> now[r], req |-> r]
    <3>1. pc[r] = "checked" /\ participants' = Append(participants, line)
      BY <2>2 DEF JoinAppend
    <3>2. \/ k \in DOMAIN participants /\ participants'[k] = participants[k]
          \/ participants'[k] = line
      BY <3>1 DEF TypeOK
    <3>3. line.uid \in NumbersOf(line.user)
      BY <3>1 DEF OwnNumbers
    <3>4. QED
      BY <3>2, <3>3 DEF OwnNumbers
  <2>3. QED
    BY <2>1, <2>2, ParticipantsGrow
<1>4. QED
  BY <1>1, <1>2, <1>3 DEF OwnNumbers

LEMMA RowsAre ==
    ASSUME TypeOK, OwnNumbers, NEW c
    PROVE  /\ DOMAIN Rows(c) \subseteq Nat
           /\ \A i \in DOMAIN Rows(c) :
                 Rows(c)[i].user \in User /\ Rows(c)[i].uid \in NumbersOf(Rows(c)[i].user)
<1> DEFINE K == {k \in DOMAIN participants : participants[k].contest = c}
<1>1. participants \in Seq(Participant) /\ K \in SUBSET DOMAIN participants
  BY DEF TypeOK
<1>2. ASSUME NEW i \in DOMAIN Rows(c)
      PROVE  \E k \in DOMAIN participants : Rows(c)[i] = participants[k]
  BY <1>1, <1>2, KeepIs DEF Rows
<1>3. \A k \in DOMAIN participants :
         participants[k].user \in User
         /\ participants[k].uid \in NumbersOf(participants[k].user)
  BY LineTypes DEF OwnNumbers, Participant
<1>4. DOMAIN Rows(c) = 1 .. Cardinality(K)
  BY <1>1, KeepIs DEF Rows
<1>5. QED
  BY <1>2, <1>3, <1>4

LEMMA RankStep ==
    ASSUME TypeOK, OwnNumbers
    PROVE  RankIsOwn
<1> SUFFICES ASSUME NEW k \in DOMAIN submissions,
                    submissions[k].verdict = "AC", submissions[k].uid # 0,
                    NEW i0 \in DOMAIN Rows(submissions[k].contest),
                    Rows(submissions[k].contest)[i0].user = submissions[k].by,
                    Rows(submissions[k].contest)[i0].uid = submissions[k].uid
             PROVE  LET s == submissions[k]
                        rows == Rows(s.contest)
                        counted == {i \in DOMAIN rows : k \in Credited(s.contest, i)}
                    IN  \E i \in counted : counted = {i} /\ rows[i].user = s.by
  BY DEF RankIsOwn
<1> DEFINE s == submissions[k]
           rows == Rows(s.contest)
           same == {i \in DOMAIN rows : rows[i].uid = s.uid}
           counted == {i \in DOMAIN rows : k \in Credited(s.contest, i)}
<1>1. DOMAIN rows = 1 .. Len(rows) /\ DOMAIN rows \subseteq Nat
  <2>1. participants \in Seq(Participant)
    BY DEF TypeOK
  <2>2. QED
    BY <2>1, KeepIs DEF Rows
<1>2. PICK i \in same : \A j \in same : i <= j
  <2>1. same \in SUBSET Nat /\ i0 \in same
    BY <1>1
  <2>2. QED
    BY <2>1, LeastOf
<1>3. \A h \in 1 .. i - 1 : h \in DOMAIN rows /\ rows[h].uid # s.uid
  <2>1. ASSUME NEW h \in 1 .. i - 1
        PROVE  h \in DOMAIN rows /\ h \notin same
    BY <1>1, <1>2
  <2>2. QED
    BY <2>1
<1>4. i \in counted
  BY <1>2, <1>3 DEF Credited
<1>5. ASSUME NEW j \in counted
      PROVE  j = i
  <2>1. j \in same /\ \A h \in 1 .. j - 1 : rows[h].uid # s.uid
    BY DEF Credited
  <2>2. i <= j /\ i \notin 1 .. j - 1 /\ i \in Nat /\ j \in Nat /\ i # 0
    BY <1>1, <1>2, <2>1
  <2>3. QED
    BY <2>2
<1>6. rows[i].user = s.by
  <2>1. /\ rows[i].user \in User /\ rows[i0].user \in User
        /\ s.uid \in NumbersOf(rows[i].user) \cap NumbersOf(rows[i0].user)
    BY <1>2, RowsAre
  <2>2. QED
    BY <2>1, NumbersDiffer
<1>7. QED
  BY <1>4, <1>5, <1>6

(***************************************************************************)
(* However often a user is listed in a contest, contest_rank.c counts an   *)
(* accepted submission once, for the one who has made it.                  *)
(***************************************************************************)
THEOREM RankTheorem == Spec => []RankIsOwn
<1>1. Init => OwnNumbers
  BY OwnNumbersAtInit
<1>2. IInv /\ OwnNumbers /\ [Next]_vars => OwnNumbers'
  BY OwnNumbersKept DEF IInv
<1>3. IInv /\ OwnNumbers => RankIsOwn
  BY RankStep DEF IInv
<1>4. QED
  BY <1>1, <1>2, <1>3, ContestsInvariance, PTL DEF Spec
=============================================================================
