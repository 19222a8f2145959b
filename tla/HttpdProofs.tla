------------------------------ MODULE HttpdProofs ------------------------------
(***************************************************************************)
(* Proofs about Httpd: for any number of children and any timeout, margin, *)
(* lifetimes, size and load. Behind them, about one request (Handle): for  *)
(* any sites, requests, scripts, and sizes of pipes and buffers.           *)
(***************************************************************************)
EXTENDS Httpd, Handle, ListsProofs

---------------------------------------------------------------------------
(* What the daemon makes of the exit status of a child                     *)

LEMMA StatusIsByte ==
    ASSUME NEW kilos \in Nat
    PROVE  KilosToExitStatus(kilos) \in 1 .. 255
  BY DEF KilosToExitStatus

LEMMA KilosOfStatus ==
    /\ \A d \in 0 .. 99 : HTExitStatusToKilos(100 + d) = d * 10 + 100
    /\ \A d \in 0 .. 49 : HTExitStatusToKilos(200 + d) = d * 100 + 1000
    /\ \A d \in 0 .. 4 : HTExitStatusToKilos(250 + d) = d * 1000 + 5000
  BY DEF HTExitStatusToKilos

(***************************************************************************)
(* For less than ten megabytes the daemon counts at most one kilobyte more *)
(* than the child has stored, and at least five sixths of it: the ranges   *)
(* of the two functions (HTCache.c:101-120) fit together.                  *)
(***************************************************************************)
THEOREM EstimateTheorem ==
    ASSUME NEW kilos \in Nat, kilos < 10000
    PROVE  LET estimate == HTExitStatusToKilos(KilosToExitStatus(kilos))
           IN  estimate <= kilos + 1 /\ 6 * estimate >= 5 * kilos
  <1>1. CASE kilos < 99
    BY <1>1 DEF HTExitStatusToKilos, KilosToExitStatus
  <1>2. CASE kilos = 99
    BY <1>2 DEF HTExitStatusToKilos, KilosToExitStatus
  <1>3. CASE kilos >= 100 /\ kilos < 1000
    <2> DEFINE d == (kilos - 100) \div 10
    <2>1. d \in 0 .. 89 /\ 10 * d <= kilos - 100 /\ kilos - 100 < 10 * d + 10
      BY <1>3
    <2>2. KilosToExitStatus(kilos) = 100 + d
      BY <1>3 DEF KilosToExitStatus
    <2>3. HTExitStatusToKilos(100 + d) = d * 10 + 100
      BY <2>1, KilosOfStatus
    <2> QED  BY <2>1, <2>2, <2>3, <1>3
  <1>4. CASE kilos >= 1000 /\ kilos < 5000
    <2> DEFINE d == (kilos - 1000) \div 100
    <2>1. d \in 0 .. 39 /\ 100 * d <= kilos - 1000 /\ kilos - 1000 < 100 * d + 100
      BY <1>4
    <2>2. KilosToExitStatus(kilos) = 200 + d
      BY <1>4 DEF KilosToExitStatus
    <2>3. HTExitStatusToKilos(200 + d) = d * 100 + 1000
      BY <2>1, KilosOfStatus
    <2> QED  BY <2>1, <2>2, <2>3, <1>4
  <1>5. CASE kilos >= 5000
    <2> DEFINE d == (kilos - 5000) \div 1000
    <2>1. d \in 0 .. 4 /\ 1000 * d <= kilos - 5000 /\ kilos - 5000 < 1000 * d + 1000
      BY <1>5
    <2>2. KilosToExitStatus(kilos) = 250 + d
      BY <1>5 DEF KilosToExitStatus
    <2>3. HTExitStatusToKilos(250 + d) = d * 1000 + 5000
      BY <2>1, KilosOfStatus
    <2> QED  BY <2>1, <2>2, <2>3, <1>5
  <1> QED  BY <1>1, <1>2, <1>3, <1>4, <1>5

---------------------------------------------------------------------------
(* Types                                                                   *)

LEMMA StatusType == StoredStatus \in 0 .. 255
<1>1. Bytes \div 1024 \in Nat
  BY HttpdAssumption
<1>2. QED
  BY <1>1, StatusIsByte DEF StoredStatus, HTBytesToExitStatus

LEMMA BlankType == Blank \in Job
BY HttpdAssumption DEF Blank, Job, Time

LEMMA LeftType ==
    ASSUME NEW g \in BOOLEAN, NEW status \in 0 .. 255
    PROVE  /\ [Blank EXCEPT !.gc = g, !.status = status] \in Job
           /\ [Blank EXCEPT !.gc = g] \in Job
BY BlankType, Zenon DEF Job

LEMMA AskedType ==
    ASSUME NEW j \in Job, NEW t \in Time, NEW b \in BOOLEAN
    PROVE  [j EXCEPT !.ims = t, !.misled = b] \in Job
BY Zenon DEF Job

LEMMA GrantedType ==
    ASSUME NEW j \in Job, NEW t \in Time, NEW x \in Nat
    PROVE  [j EXCEPT !.v = t, !.ex = x] \in Job
BY Zenon DEF Job

LEMMA GotType ==
    ASSUME NEW j \in Job, NEW f \in File \cup {None}, NEW b \in BOOLEAN
    PROVE  [j EXCEPT !.got = f, !.same = b] \in Job
BY Zenon DEF Job

LEMMA DeafType ==
    ASSUME NEW j \in Job, NEW b \in BOOLEAN
    PROVE  [j EXCEPT !.deaf = b] \in Job
BY Zenon DEF Job

LEMMA DeafStays ==
    ASSUME CacheTypeOK, NEW c \in Child, NEW x, NEW y,
           \/ job' = [job EXCEPT ![c] = [job[c] EXCEPT !.seen = x]]
           \/ job' = [job EXCEPT ![c] = [job[c] EXCEPT !.got = x]]
           \/ job' = [job EXCEPT ![c] = [job[c] EXCEPT !.ims = x]]
           \/ job' = [job EXCEPT ![c] = [job[c] EXCEPT !.got = x, !.same = y]]
           \/ job' = [job EXCEPT ![c] = [job[c] EXCEPT !.v = x, !.ex = y]]
           \/ job' = [job EXCEPT ![c] = [job[c] EXCEPT !.ims = x, !.misled = y]]
    PROVE  job'[c].deaf = job[c].deaf
<1>1. job \in [Child -> Job] /\ job[c] \in Job
  BY DEF CacheTypeOK
<1>2. /\ [job[c] EXCEPT !.seen = x].deaf = job[c].deaf
      /\ [job[c] EXCEPT !.got = x].deaf = job[c].deaf
      /\ [job[c] EXCEPT !.ims = x].deaf = job[c].deaf
      /\ [job[c] EXCEPT !.got = x, !.same = y].deaf = job[c].deaf
      /\ [job[c] EXCEPT !.v = x, !.ex = y].deaf = job[c].deaf
      /\ [job[c] EXCEPT !.ims = x, !.misled = y].deaf = job[c].deaf
  BY <1>1 DEF Job
<1>3. PICK j : job' = [job EXCEPT ![c] = j] /\ j.deaf = job[c].deaf
  BY <1>2, Zenon
<1>4. QED
  BY <1>1, <1>3

LEMMA RenameType ==
    ASSUME NEW d \in [Name -> File \cup {None}], NEW from \in Name, NEW to \in Name
    PROVE  /\ Rename(d, from, to) \in [Name -> File \cup {None}]
           /\ Unlink(d, from) \in [Name -> File \cup {None}]
BY DEF Rename, Unlink

LEMMA FileType ==
    ASSUME CacheTypeOK, NEW c \in Child, NEW whole \in BOOLEAN
    PROVE  NewFile(c) \in File /\ Copy(c, whole) \in File
<1>1. job[c].v \in Time /\ job[c].ex \in Nat
  BY DEF CacheTypeOK, Job
<1>2. QED
  BY <1>1, HttpdAssumption DEF CacheTypeOK, NewFile, Copy, File, Time

LEMMA LeaveType ==
    ASSUME CacheTypeOK, NEW c \in Child, NEW status \in 0 .. 255,
           Leave(c, status) \/ Stop(c)
    PROVE  /\ job' \in [Child -> Job]
           /\ pc' = [pc EXCEPT ![c] = pc'[c]]
           /\ pc'[c] \in {"scan", "gone", "reaped"}
           /\ pc'[c] = "scan" => job[c].gc
           /\ job'[c].got = None /\ ~job'[c].deaf
           /\ \A d \in Child \ {c} : job'[d] = job[d]
<1>1. job[c].gc \in BOOLEAN
  BY DEF CacheTypeOK, Job
<1>2. CASE Leave(c, status)
  <2>1. job' \in [Child -> Job]
    BY <1>1, <1>2, LeftType, Zenon DEF Leave, CacheTypeOK
  <2>2. PICK next \in {"scan", "gone", "reaped"} : Go(c, next) /\ (next = "scan" => job[c].gc)
    BY <1>1, <1>2 DEF Leave
  <2>3. /\ job'[c].got = None /\ ~job'[c].deaf
        /\ \A d \in Child \ {c} : job'[d] = job[d]
    BY <1>2 DEF Leave, CacheTypeOK, Blank
  <2>4. QED
    BY <2>1, <2>2, <2>3 DEF Go, CacheTypeOK
<1>3. CASE Stop(c)
  <2>1. job' \in [Child -> Job]
    BY <1>1, <1>3, LeftType, Zenon DEF Stop, CacheTypeOK
  <2>2. PICK next \in {"gone", "reaped"} : Go(c, next)
    BY <1>3 DEF Stop
  <2>3. /\ job'[c].got = None /\ ~job'[c].deaf
        /\ \A d \in Child \ {c} : job'[d] = job[d]
    BY <1>3 DEF Stop, CacheTypeOK, Blank
  <2>4. QED
    BY <2>1, <2>2, <2>3 DEF Go, CacheTypeOK
<1>4. QED
  BY <1>2, <1>3

\* What any step of a request does to its own state and to that of the others.
RequestFrame(c) ==
    /\ UNCHANGED world
    /\ pc[c] \in Served /\ pc' = [pc EXCEPT ![c] = pc'[c]]
    /\ pc'[c] \in Served \cup {"scan", "gone", "reaped"}
    /\ pc'[c] = "scan" => job[c].gc
    /\ job' \in [Child -> Job]
    /\ \A d \in Child \ {c} : job'[d] = job[d]
    /\ pc'[c] \in Served => job'[c].now = job[c].now /\ job'[c].gc = job[c].gc
    /\ pc[c] \notin {"found", "resend"} => job'[c].got \in {None, job[c].got}
    /\ pc[c] \in {"found", "resend"} => job'[c].got \in {None, disk["doc"]}

LEMMA RequestFrames ==
    ASSUME CacheTypeOK, NEW c \in Child, Request(c)
    PROVE  RequestFrame(c)
<1>1. /\ job \in [Child -> Job] /\ job[c] \in Job
      /\ job[c].gc \in BOOLEAN /\ job[c].misled \in BOOLEAN /\ job[c].status \in 0 .. 255
      /\ DOMAIN pc = Child /\ disk["doc"] \in File \cup {None}
  BY DEF CacheTypeOK, Job, Name
<1>2. ASSUME UNCHANGED job, UNCHANGED world, pc[c] \in Served \ {"resend", "found"},
             NEW next \in Served, Go(c, next)
      PROVE  RequestFrame(c)
  BY <1>1, <1>2 DEF RequestFrame, Go, Served
<1>3. ASSUME NEW j \in Job, job' = [job EXCEPT ![c] = j], UNCHANGED world,
             pc[c] \in Served \ {"resend", "found"}, NEW next \in Served, Go(c, next),
             j.now = job[c].now, j.gc = job[c].gc, j.got = job[c].got
      PROVE  RequestFrame(c)
  BY <1>1, <1>3 DEF RequestFrame, Go, Served
<1>4. ASSUME NEW status \in 0 .. 255, Leave(c, status) \/ Stop(c), UNCHANGED world,
             pc[c] \in Served \ {"resend", "found"}
      PROVE  RequestFrame(c)
  <2>1. /\ job' \in [Child -> Job]
        /\ pc' = [pc EXCEPT ![c] = pc'[c]]
        /\ pc'[c] \in {"scan", "gone", "reaped"}
        /\ pc'[c] = "scan" => job[c].gc
        /\ job'[c].got = None
        /\ \A d \in Child \ {c} : job'[d] = job[d]
    BY <1>4, LeaveType, Zenon
  <2>2. QED
    BY <1>4, <2>1 DEF RequestFrame, Served
<1>5. CASE Locked(c)
  <2>1. CASE Learn(c, "seen", disk["lock"].by) /\ Go(c, "break") /\ disk["lock"] # None
    <3>1. disk["lock"].by \in Child \cup {Nobody}
      BY <2>1 DEF CacheTypeOK, Name, File
    <3>2. [job[c] EXCEPT !.seen = disk["lock"].by] \in Job
      BY <1>1, <3>1 DEF Job
    <3>3. QED
      BY <1>1, <1>3, <1>5, <2>1, <3>2, Zenon DEF Locked, At, Learn, Served, Job
  <2>2. CASE UNCHANGED job /\ (Go(c, "stat") \/ Go(c, "sending"))
    BY <1>2, <1>5, <2>2 DEF Locked, At, Served
  <2>3. QED
    BY <1>5, <2>1, <2>2 DEF Locked
<1>6. CASE Break(c)
  <2>1. [job[c] EXCEPT !.seen = None] \in Job
    BY <1>1 DEF Job
  <2>2. QED
    BY <1>1, <1>3, <1>6, <2>1, Zenon DEF Break, At, Learn, Served, Job
<1>7. CASE Stat(c) \/ Backup(c) \/ Junk(c) \/ Body(c) \/ Created(c)
  BY <1>2, <1>7, Zenon DEF Stat, Backup, Junk, Body, Created, At, Served
<1>8. CASE Relock(c) \/ Create(c) \/ Discard(c) \/ Restore(c) \/ Unlock(c) \/ Renote(c)
  BY <1>2, <1>8 DEF Relock, Create, Discard, Restore, Unlock, Renote, DoLock, At, Served
<1>9. CASE Info(c)
  <2> DEFINE time == CASE info = None -> 0
                       [] info # None /\ info.lm = 0 -> info.lc
                       [] OTHER -> info.lm
             mis == info # None /\ info.lm = 0
  <2>1. CASE Fresh(c)
    BY <1>2, <1>9, <2>1 DEF Info, At, Served
  <2>2. CASE ~Fresh(c)
    <3>1. time \in Time
      BY HttpdAssumption DEF CacheTypeOK, Entry, Time
    <3>2. mis \in BOOLEAN
      OBVIOUS
    <3>3. job' = [job EXCEPT ![c] = [job[c] EXCEPT !.ims = time, !.misled = mis]]
      BY <1>1, <1>9, <2>2, Zenon DEF Info
    <3>4. [job[c] EXCEPT !.ims = time, !.misled = mis] \in Job
      BY <1>1, <3>1, <3>2, AskedType, Zenon
    <3>5. QED
      <4> HIDE DEF time, mis
      <4>1. QED
        BY <1>1, <1>3, <1>9, <2>2, <3>3, <3>4, Zenon DEF Info, At, Served, Job
  <2>3. QED
    BY <2>1, <2>2
<1>10. CASE NotModified(c) \/ Document(c)
  <2>1. origin \in Time /\ \A life \in Lifetimes : clock + life \in Nat
    BY HttpdAssumption DEF CacheTypeOK, Time
  <2>2. ASSUME NEW x \in Nat, job' = [job EXCEPT ![c] = [job[c] EXCEPT !.v = origin, !.ex = x]],
               Go(c, "reread") \/ Go(c, "body")
        PROVE  RequestFrame(c)
    <3>1. [job[c] EXCEPT !.v = origin, !.ex = x] \in Job
      BY <1>1, <2>1, GrantedType, Zenon
    <3>2. QED
      BY <1>1, <1>3, <1>10, <2>2, <3>1, Zenon DEF NotModified, Document, At, Served, Job
  <2>3. CASE NotModified(c)
    <3>1. PICK life \in Lifetimes, given \in BOOLEAN :
             IF given /\ ~WorthIt(c, life, given)
             THEN Go(c, "cancel") /\ UNCHANGED job
             ELSE /\ Go(c, "reread")
                  /\ job' = [job EXCEPT ![c].v = origin,
                         ![c].ex = IF WorthIt(c, life, given) THEN clock + life ELSE 0]
      BY <2>3 DEF NotModified
    <3>2. CASE given /\ ~WorthIt(c, life, given)
      BY <1>2, <2>3, <3>1, <3>2 DEF NotModified, At, Served
    <3>3. CASE ~(given /\ ~WorthIt(c, life, given))
      <4> DEFINE x == IF WorthIt(c, life, given) THEN clock + life ELSE 0
      <4>1. x \in Nat
        BY <2>1
      <4>2. job' = [job EXCEPT ![c] = [job[c] EXCEPT !.v = origin, !.ex = x]]
        BY <1>1, <3>1, <3>3, Zenon
      <4>3. QED
        BY <2>2, <3>1, <3>3, <4>1, <4>2, Zenon
    <3>4. QED
      BY <3>2, <3>3
  <2>4. CASE Document(c)
    <3>1. PICK life \in Lifetimes :
             Go(c, "body") /\ job' = [job EXCEPT ![c].v = origin, ![c].ex = clock + life]
      BY <2>4, Zenon DEF Document
    <3>2. job' = [job EXCEPT ![c] = [job[c] EXCEPT !.v = origin, !.ex = clock + life]]
      BY <1>1, <3>1, Zenon
    <3>3. QED
      BY <2>1, <2>2, <3>1, <3>2, Zenon
  <2>5. QED
    BY <1>10, <2>3, <2>4
<1>11. CASE Found(c) \/ Resend(c)
  <2> DEFINE same == IF Found(c) THEN job[c].same ELSE TRUE
             j == [job[c] EXCEPT !.got = disk["doc"], !.same = same]
  <2>1. j \in Job /\ j.now = job[c].now /\ j.gc = job[c].gc /\ j.got = disk["doc"]
    <3>1. same \in BOOLEAN
      BY <1>1, Zenon DEF Job
    <3>2. j \in Job
      <4> HIDE DEF same
      <4>1. QED
        BY <1>1, <3>1, GotType, Zenon
    <3>3. j.now = job[c].now /\ j.gc = job[c].gc /\ j.got = disk["doc"]
      BY <1>1 DEF Job
    <3>4. QED
      BY <3>2, <3>3
  <2>2. job' = [job EXCEPT ![c] = j]
    <3>1. CASE Found(c)
      BY <1>1, <3>1, Zenon DEF Found, Learn, Job
    <3>2. CASE ~Found(c)
      BY <1>1, <1>11, <3>2, Zenon DEF Resend, Job
    <3>3. QED
      BY <3>1, <3>2
  <2>3. UNCHANGED world /\ pc[c] \in {"found", "resend"} /\ Go(c, "sending")
    BY <1>11 DEF Found, Resend, At
  <2>4. QED
    <3> HIDE DEF j
    <3>1. QED
      BY <1>1, <2>1, <2>2, <2>3 DEF RequestFrame, Go, Served
<1>12. CASE Mismatch(c)
  <2>1. [job[c] EXCEPT !.status = StoredStatus] \in Job
    BY <1>1, StatusType DEF Job
  <2>2. QED
    BY <1>1, <1>3, <1>12, <2>1, Zenon DEF Mismatch, At, Learn, Served, Job
<1>13. CASE Reread(c)
  <2>1. PICK time \in Time : Learn(c, "ims", time)
    <3>1. (IF info = None THEN 0 ELSE info.lm) \in Time
      BY HttpdAssumption DEF CacheTypeOK, Entry, Time
    <3>2. QED
      BY <1>13, <3>1 DEF Reread
  <2>2. [job[c] EXCEPT !.ims = time] \in Job
    BY <1>1 DEF Job
  <2>3. QED
    BY <1>1, <1>3, <1>13, <2>1, <2>2, Zenon DEF Reread, At, Learn, Served, Job
<1>14. CASE ClientGone(c) \/ Sent(c) \/ Note(c) \/ Cancel(c)
  BY <1>1, <1>4, <1>14, StatusType DEF ClientGone, Sent, Note, Cancel, At, Served
<1>15. CASE TimedOut(c)
  <2>1. pc[c] \notin {"found", "resend"} => RequestFrame(c)
    BY <1>1, <1>4, <1>15 DEF TimedOut
  <2>2. pc[c] \in {"found", "resend"} => RequestFrame(c)
    <3>1. Stop(c) /\ UNCHANGED world /\ 0 \in 0 .. 255
      BY <1>15 DEF TimedOut
    <3>2. /\ job' \in [Child -> Job]
          /\ pc' = [pc EXCEPT ![c] = pc'[c]]
          /\ pc'[c] \in {"scan", "gone", "reaped"}
          /\ pc'[c] = "scan" => job[c].gc
          /\ job'[c].got = None
          /\ \A d \in Child \ {c} : job'[d] = job[d]
      BY <3>1, LeaveType
    <3>3. QED
      BY <3>1, <3>2 DEF RequestFrame, Served
  <2>3. QED
    BY <2>1, <2>2
<1>16. CASE PipeIgnored(c)
  <2>1. [job[c] EXCEPT !.deaf = TRUE] \in Job
    BY <1>1, DeafType, Zenon
  <2>2. job' = [job EXCEPT ![c] = [job[c] EXCEPT !.deaf = TRUE]] /\ UNCHANGED <<world, pc>>
    BY <1>1, <1>16, Zenon DEF PipeIgnored, At, Learn
  <2>3. pc[c] \in {"body", "cancel", "sending"}
    BY <1>16 DEF PipeIgnored, At
  <2>4. [job[c] EXCEPT !.deaf = TRUE].now = job[c].now
        /\ [job[c] EXCEPT !.deaf = TRUE].gc = job[c].gc
        /\ [job[c] EXCEPT !.deaf = TRUE].got = job[c].got
    BY <1>1 DEF Job
  <2>5. QED
    BY <1>1, <2>1, <2>2, <2>3, <2>4 DEF RequestFrame, Served, CacheTypeOK
<1>17. QED
  BY <1>5, <1>6, <1>7, <1>8, <1>9, <1>10, <1>11, <1>12, <1>13, <1>14, <1>15, <1>16 DEF Request

\* What a step of a request does to the lock file: it leaves it as it is, takes it, writes
\* to it, gives it up, or breaks it because another's lock has been found too old.
LockStep(c) ==
    \/ /\ disk'["lock"] = disk["lock"]
       /\ pc'[c] \in Filling => pc[c] \in Filling
       /\ pc'[c] # "created"
    \/ /\ disk["lock"] = None /\ disk'["lock"] = NewFile(c)
       /\ pc'[c] \in {"backup", "ask"}
    \/ /\ pc[c] = "body" /\ pc'[c] \in {"created", "cancel"}
       /\ IF disk["lock"] # None /\ disk["lock"].by = c
          THEN disk'["lock"] = Copy(c, pc'[c] = "created")
          ELSE disk'["lock"] = disk["lock"]
    \/ /\ disk'["lock"] = None
       /\ pc[c] \in Filling /\ pc'[c] \notin Filling
       /\ \/ stolen' \/ disk["lock"] = None \/ disk["lock"].by = c
          \/ pc[c] = "unlock" /\ (~Due(c) \/ job[c].deaf)
    \/ /\ disk'["lock"] = None
       /\ pc[c] = "break" /\ pc'[c] = "stat"
       /\ stolen' \/ disk["lock"] = None \/ disk["lock"].by = job[c].seen

\* What it does to the document and the backup: what has one of these names had one before,
\* or was the lock file, or is being written although it has a name.
NameStep(c, n) ==
    disk'[n] # None =>
        \/ \E m \in {"doc", "backup"} :
               /\ disk[m] # None
               /\ disk'[n].by = disk[m].by /\ disk'[n].whole = disk[m].whole
        \/ /\ pc[c] = "created" /\ pc'[c] \notin Early
           /\ stolen' \/ disk["lock"].by = c
           /\ disk["lock"] # None /\ disk'[n] = disk["lock"]
        \/ pc[c] = "body" /\ disk[n] # None /\ disk[n].by = c

\* What has been found too old was too old.
SeenStep(c, where) ==
    pc'[c] = where =>
        \/ pc[c] = where /\ job'[c].seen = job[c].seen
        \/ /\ disk["lock"] # None
           /\ job'[c].seen = disk["lock"].by /\ clock > disk["lock"].at + Timeout

LEMMA RequestFiles ==
    ASSUME CacheTypeOK, NEW c \in Child, Request(c)
    PROVE  /\ disk' \in [Name -> File \cup {None}]
           /\ info' \in Entry \cup {None}
           /\ stolen' \in BOOLEAN /\ (stolen => stolen')
           /\ LockStep(c)
           /\ \A n \in {"doc", "backup"} : NameStep(c, n)
<1> DEFINE Goal == /\ disk' \in [Name -> File \cup {None}]
                   /\ info' \in Entry \cup {None}
                   /\ stolen' \in BOOLEAN /\ (stolen => stolen')
                   /\ LockStep(c)
                   /\ \A n \in {"doc", "backup"} : NameStep(c, n)
<1>1. /\ disk \in [Name -> File \cup {None}] /\ info \in Entry \cup {None} /\ stolen \in BOOLEAN
      /\ Name = {"doc", "backup", "lock"} /\ job[c] \in Job /\ clock \in Time
  BY DEF CacheTypeOK, Name
<1>2. RequestFrame(c)
  BY RequestFrames
<1>3. \A whole \in BOOLEAN : NewFile(c) \in File /\ Copy(c, whole) \in File
  BY FileType
<1>4. ASSUME UNCHANGED <<disk, stolen>>, info' \in Entry \cup {None},
             pc'[c] \in Filling => pc[c] \in Filling, pc'[c] # "created"
      PROVE  Goal
  BY <1>1, <1>4 DEF LockStep, NameStep
<1>5. CASE Locked(c) \/ Stat(c) \/ Info(c) \/ Found(c) \/ Resend(c)
  BY <1>1, <1>2, <1>4, <1>5
     DEF Locked, Stat, Info, Found, Resend, At, Go, cacheVars, RequestFrame, Filling, CacheTypeOK
<1>6. CASE NotModified(c) \/ Document(c) \/ Junk(c) \/ Reread(c)
  BY <1>1, <1>2, <1>4, <1>6
     DEF NotModified, Document, Junk, Reread, At, Go, cacheVars, Filling, CacheTypeOK
<1>7. CASE TimedOut(c) \/ Sent(c) \/ ClientGone(c) \/ PipeIgnored(c)
  <2>0. CASE PipeIgnored(c)
    BY <1>1, <1>4, <2>0 DEF PipeIgnored, At, cacheVars
  <2> SUFFICES ASSUME ~PipeIgnored(c) PROVE Goal
    BY <2>0
  <2>1. pc'[c] \in {"scan", "gone", "reaped"}
    BY <1>7, LeaveType DEF TimedOut, Sent, ClientGone
  <2>2. QED
    BY <1>1, <1>4, <1>7, <2>1 DEF TimedOut, Sent, ClientGone, cacheVars, Filling
<1>8. CASE Break(c)
  <2>1. disk' = Unlink(disk, "lock") /\ info' = info /\ pc[c] = "break" /\ pc'[c] = "stat"
    BY <1>8 DEF Break, RemoveLock, Go, At, CacheTypeOK
  <2>2. /\ stolen' \in BOOLEAN /\ (stolen => stolen')
        /\ stolen' \/ disk["lock"] = None \/ disk["lock"].by = job[c].seen
    BY <1>1, <1>8, Zenon DEF Break, RemoveLock
  <2>3. QED
    BY <1>1, <2>1, <2>2, RenameType DEF LockStep, NameStep, Unlink
<1>9. CASE Relock(c) \/ Create(c)
  <2>1. CASE disk["lock"] # None
    BY <1>1, <1>4, <1>9, <2>1
       DEF Relock, Create, DoLock, At, Go, cacheVars, Filling, CacheTypeOK
  <2>2. CASE disk["lock"] = None
    <3>1. /\ disk' = [disk EXCEPT !["lock"] = NewFile(c)]
          /\ UNCHANGED <<info, stolen>> /\ pc'[c] \in {"backup", "ask"}
      BY <1>9, <2>2 DEF Relock, Create, DoLock, At, Go, CacheTypeOK
    <3>2. QED
      BY <1>1, <1>3, <2>2, <3>1 DEF LockStep, NameStep
  <2>3. QED
    BY <2>1, <2>2
<1>10. CASE Backup(c)
  <2>1. /\ disk' = Rename(disk, "doc", "backup") /\ UNCHANGED <<info, stolen>>
        /\ pc[c] = "backup" /\ pc'[c] = "ask"
    BY <1>10 DEF Backup, At, Go, CacheTypeOK
  <2>2. disk' \in [Name -> File \cup {None}]
    BY <1>1, <2>1, RenameType
  <2>3. LockStep(c)
    BY <1>1, <2>1 DEF LockStep, Rename, Filling
  <2>4. \A n \in {"doc", "backup"} : NameStep(c, n)
    BY <1>1, <2>1 DEF NameStep, Rename
  <2>5. QED
    BY <1>1, <2>1, <2>2, <2>3, <2>4
<1>11. CASE Body(c) \/ Mismatch(c)
  <2>1. /\ pc[c] = "body" /\ UNCHANGED <<info, stolen>>
        /\ pc'[c] \in {"created", "cancel"} /\ Write(c, Copy(c, pc'[c] = "created"))
    BY <1>11, Zenon DEF Body, Mismatch, At, Go, CacheTypeOK
  <2> DEFINE copy == Copy(c, pc'[c] = "created")
  <2>2. copy \in File
    BY <1>3, <2>1, Zenon
  <2> HIDE DEF copy
  <2>3. disk' \in [Name -> File \cup {None}]
    BY <1>1, <2>1, <2>2 DEF Write, copy
  <2>4. LockStep(c)
    BY <1>1, <2>1 DEF LockStep, Write
  <2>5. \A n \in {"doc", "backup"} : NameStep(c, n)
    BY <1>1, <2>1 DEF NameStep, Write
  <2>6. QED
    BY <1>1, <2>1, <2>3, <2>4, <2>5
<1>12. CASE Created(c)
  <2>1. /\ disk' = Rename(disk, "lock", "doc") /\ info' = info
        /\ pc[c] = "created" /\ pc'[c] \in {"discard", "note"}
        /\ stolen' \in BOOLEAN /\ (stolen => stolen')
        /\ stolen' \/ disk["lock"].by = c
    BY <1>1, <1>12 DEF Created, Holds, At, Go, CacheTypeOK
  <2>2. disk' \in [Name -> File \cup {None}]
    BY <1>1, <2>1, RenameType
  <2>3. LockStep(c)
    BY <1>1, <2>1 DEF LockStep, Rename, Filling
  <2>4. \A n \in {"doc", "backup"} : NameStep(c, n)
    BY <1>1, <2>1 DEF NameStep, Rename, Early
  <2>5. QED
    BY <1>1, <2>1, <2>2, <2>3, <2>4
<1>13. CASE Discard(c)
  <2>1. /\ disk' = Unlink(disk, "backup") /\ UNCHANGED <<info, stolen>>
        /\ pc'[c] = "note"
    BY <1>13 DEF Discard, At, Go, CacheTypeOK
  <2>2. QED
    BY <1>1, <2>1, RenameType DEF LockStep, NameStep, Unlink, Filling
<1>14. CASE Note(c)
  <2>1. /\ UNCHANGED <<disk, stolen>> /\ pc'[c] \in {"scan", "gone", "reaped"}
    BY <1>14, LeaveType, StatusType, Zenon DEF Note
  <2>2. info' \in Entry
    <3>1. job[c].ex \in Nat /\ job[c].v \in Time
      BY <1>1 DEF Job
    <3>2. QED
      BY <1>1, <1>14, <3>1 DEF Note, Enter, Entry
  <2>3. QED
    BY <1>4, <2>1, <2>2 DEF Filling
<1>15. CASE Restore(c)
  <2> DEFINE d == Restored(c)
  <2>1. /\ disk' = Rename(d, "backup", "doc") /\ UNCHANGED <<info, stolen>>
        /\ pc[c] = "restore" /\ pc'[c] = "unlock"
    BY <1>15 DEF Restore, At, Go, CacheTypeOK
  <2>2. d \in [Name -> File \cup {None}]
    <3>1. job[c].ex \in Nat /\ clock \in Nat
      BY <1>1, HttpdAssumption DEF Job, Time
    <3>2. disk["backup"] # None => \A x \in Nat : [disk["backup"] EXCEPT !.ex = x] \in File
      BY <1>1 DEF File
    <3>3. QED
      BY <1>1, <3>1, <3>2 DEF Restored
  <2>3. /\ d["lock"] = disk["lock"] /\ d["doc"] = disk["doc"]
        /\ d["backup"] = None <=> disk["backup"] = None
        /\ disk["backup"] # None => /\ d["backup"].by = disk["backup"].by
                                   /\ d["backup"].whole = disk["backup"].whole
    <3>1. disk["backup"] # None => disk["backup"] \in File
      BY <1>1
    <3>2. disk["backup"] # None =>
            \A x : /\ [disk["backup"] EXCEPT !.ex = x].by = disk["backup"].by
                   /\ [disk["backup"] EXCEPT !.ex = x].whole = disk["backup"].whole
      BY <3>1 DEF File
    <3>3. disk["backup"] # None => d["backup"] # None
      <4>1. disk["backup"] # None => \A x \in Nat : [disk["backup"] EXCEPT !.ex = x] \in File
        BY <3>1 DEF File
      <4>2. job[c].ex \in Nat /\ clock \in Nat /\ None \notin File
        BY <1>1, HttpdAssumption DEF Job, Time
      <4>3. QED
        BY <1>1, <4>1, <4>2 DEF Restored
    <3>4. QED
      BY <1>1, <3>2, <3>3 DEF Restored
  <2> HIDE DEF d
  <2>4. disk' \in [Name -> File \cup {None}]
    BY <1>1, <2>1, <2>2, RenameType
  <2>5. LockStep(c)
    BY <1>1, <2>1, <2>2, <2>3 DEF LockStep, Rename, Filling
  <2>6. \A n \in {"doc", "backup"} : NameStep(c, n)
    BY <1>1, <2>1, <2>2, <2>3 DEF NameStep, Rename
  <2>7. QED
    BY <1>1, <2>1, <2>4, <2>5, <2>6
<1>16. CASE Unlock(c) \/ Cancel(c)
  <2>1. /\ disk' = Unlink(disk, "lock") /\ info' = info
        /\ pc[c] \in {"unlock", "cancel"}
        /\ stolen' \in BOOLEAN /\ (stolen => stolen')
        /\ \/ stolen' \/ disk["lock"] = None \/ disk["lock"].by = c
           \/ pc[c] = "unlock" /\ (~Due(c) \/ job[c].deaf)
    BY <1>1, <1>16, Zenon DEF Unlock, Cancel, Holds, At
  <2>2. pc'[c] \in {"renote", "scan", "gone", "reaped"}
    <3>1. CASE Unlock(c)
      BY <3>1 DEF Unlock, Go, CacheTypeOK
    <3>2. CASE Cancel(c)
      <4>1. job[c].status \in 0 .. 255
        BY <1>1 DEF Job
      <4>2. QED
        BY <3>2, <4>1, LeaveType, Zenon DEF Cancel
    <3>3. QED
      BY <1>16, <3>1, <3>2
  <2>3. QED
    BY <1>1, <2>1, <2>2, RenameType DEF LockStep, NameStep, Unlink, Filling
<1>17. CASE Renote(c)
  <2>1. info' \in Entry
    <3>1. job[c].ex \in Nat /\ job[c].ims \in Time
      BY <1>1 DEF Job
    <3>2. QED
      BY <1>1, <1>17, <3>1 DEF Renote, Enter, Entry
  <2>2. UNCHANGED <<disk, stolen>> /\ pc'[c] = "resend"
    BY <1>17 DEF Renote, Go, CacheTypeOK
  <2>3. QED
    BY <1>4, <2>1, <2>2 DEF Filling
<1>18. QED
  BY <1>5, <1>6, <1>7, <1>8, <1>9, <1>10, <1>11, <1>12, <1>13, <1>14, <1>15, <1>16, <1>17
     DEF Request

LEMMA RequestSees ==
    ASSUME CacheTypeOK, NEW c \in Child, Request(c), job[c].now <= clock
    PROVE  SeenStep(c, "break") /\ SeenStep(c, "unstick")
<1>1. pc'[c] # "unstick" /\ RequestFrame(c)
  BY RequestFrames DEF RequestFrame, Served
<1>2. CASE Locked(c)
  <2>1. CASE disk["lock"] # None /\ job[c].now - disk["lock"].at > Timeout
    <3>1. job[c].now \in Nat /\ clock \in Nat /\ disk["lock"].at \in Nat
      BY <2>1, HttpdAssumption DEF CacheTypeOK, Job, Time, File, Name
    <3>2. clock > disk["lock"].at + Timeout
      BY <2>1, <3>1, HttpdAssumption
    <3>3. job'[c].seen = disk["lock"].by
      BY <1>2, <2>1 DEF Locked, Learn, CacheTypeOK, Job
    <3>4. QED
      BY <1>1, <2>1, <3>2, <3>3 DEF SeenStep
  <2>2. CASE ~(disk["lock"] # None /\ job[c].now - disk["lock"].at > Timeout)
    BY <1>1, <1>2, <2>2 DEF Locked, Go, CacheTypeOK, SeenStep
  <2>3. QED
    BY <2>1, <2>2
<1>3. CASE ~Locked(c)
  <2>0. CASE PipeIgnored(c)
    BY <1>1, <2>0 DEF PipeIgnored, At, SeenStep
  <2> SUFFICES ASSUME ~PipeIgnored(c) PROVE SeenStep(c, "break") /\ SeenStep(c, "unstick")
    BY <2>0
  <2>1. CASE Leave(c, 0) \/ Leave(c, StoredStatus) \/ Leave(c, job[c].status) \/ Stop(c)
    <3>1. job[c].status \in 0 .. 255
      BY DEF CacheTypeOK, Job
    <3>2. pc'[c] \in {"scan", "gone", "reaped"}
      <4>1. 0 \in 0 .. 255
        OBVIOUS
      <4>2. QED
        BY <2>1, <3>1, <4>1, LeaveType, StatusType, Zenon
    <3>3. QED
      BY <1>1, <3>2 DEF SeenStep
  <2>2. CASE ~(Leave(c, 0) \/ Leave(c, StoredStatus) \/ Leave(c, job[c].status) \/ Stop(c))
    <3>1. pc'[c] # "break"
      BY <1>3, <2>2, Zenon
         DEF Request, Break, Stat, Info, Relock, Create, DoLock, Backup, Found, Sent, ClientGone,
             NotModified, Document, Junk, Body, Mismatch, Created, Discard, Note, Reread,
             Restore, Unlock, Renote, Resend, Cancel, TimedOut, Go, CacheTypeOK
    <3>2. QED
      BY <1>1, <3>1 DEF SeenStep
  <2>3. QED
    BY <2>1, <2>2
<1>4. QED
  BY <1>2, <1>3

---------------------------------------------------------------------------
(* The steps of collections                                                *)

\* What any step of a collection does.
CollectionFrame(c) ==
    /\ UNCHANGED world
    /\ pc[c] \in {"scan", "unstick", "read", "collect", "flush"}
    /\ pc' = [pc EXCEPT ![c] = pc'[c]]
    /\ pc'[c] \in {"unstick", "read", "collect", "flush", "gone"}
    /\ job' \in [Child -> Job] /\ sweep' \in [Child -> Findings]
    /\ info' \in Entry \cup {None}
    /\ disk' \in [Name -> File \cup {None}]
    /\ stolen' \in BOOLEAN /\ (stolen => stolen')
    /\ \A d \in Child : /\ job'[d].now = job[d].now /\ job'[d].gc = job[d].gc
                        /\ job'[d].got = job[d].got /\ job'[d].deaf = job[d].deaf
                        /\ d # c => job'[d].seen = job[d].seen
    /\ \A d \in Child : pc'[d] \in {"collect", "flush"} => sweep'[d].entry # None
    /\ \A n \in Name : disk'[n] \in {None, disk[n]}
    /\ disk'["lock"] # disk["lock"] =>
           pc[c] = "unstick" /\ (stolen' \/ disk["lock"].by = job[c].seen)
    /\ SeenStep(c, "unstick")

LEMMA CollectionFrames ==
    ASSUME CacheTypeOK, NEW c \in Child, Collection(c)
    PROVE  CollectionFrame(c)
<1>1. /\ job \in [Child -> Job] /\ job[c] \in Job /\ sweep \in [Child -> Findings]
      /\ sweep[c] \in Findings /\ info \in Entry \cup {None}
      /\ disk \in [Name -> File \cup {None}] /\ Name = {"doc", "backup", "lock"}
      /\ stolen \in BOOLEAN /\ clock \in Time /\ clock \in Nat
      /\ pc = [d \in Child |-> pc[d]]
  BY HttpdAssumption DEF CacheTypeOK, Name, Time
<1>2. \A d \in Child : pc[d] \in {"collect", "flush"} => sweep[d].entry # None
  BY DEF CacheTypeOK
<1>3. CASE Scan(c)
  <2> DEFINE s == [sweep[c] EXCEPT
                     !.now = clock,
                     !.files = {n \in {"doc", "backup"} : disk[n] # None},
                     !.at = IF disk["doc"] = None THEN 0 ELSE disk["doc"].at,
                     !.locked = disk["lock"] # None]
  <2>1. s \in Findings
    <3>1. (IF disk["doc"] = None THEN 0 ELSE disk["doc"].at) \in Time
      BY <1>1, HttpdAssumption DEF File, Time
    <3>2. QED
      BY <1>1, <3>1, Zenon DEF Findings
  <2>2. sweep' = [sweep EXCEPT ![c] = s]
    BY <1>1, <1>3, Zenon DEF Scan
  <2>3. /\ pc[c] = "scan" /\ UNCHANGED <<world, disk, info, stolen>>
        /\ Go(c, "unstick") \/ Go(c, "read")
    BY <1>3, Zenon DEF Scan, cacheVars
  <2>4. CASE disk["lock"] # None /\ clock - disk["lock"].at > Timeout
    <3>1. disk["lock"].by \in Child \cup {Nobody} /\ disk["lock"].at \in Nat
      BY <1>1, <2>4, HttpdAssumption DEF File, Time
    <3>2. [job[c] EXCEPT !.seen = disk["lock"].by] \in Job
      BY <1>1, <3>1 DEF Job
    <3>3. job' = [job EXCEPT ![c] = [job[c] EXCEPT !.seen = disk["lock"].by]]
      BY <1>1, <1>3, <2>4, Zenon DEF Scan, Learn
    <3>4. job' \in [Child -> Job] /\ job'[c].seen = disk["lock"].by
          /\ \A d \in Child : /\ job'[d].now = job[d].now /\ job'[d].gc = job[d].gc
                              /\ job'[d].got = job[d].got /\ job'[d].deaf = job[d].deaf
                              /\ d # c => job'[d].seen = job[d].seen
      BY <1>1, <3>2, <3>3 DEF Job
    <3>5. clock > disk["lock"].at + Timeout
      BY <1>1, <2>4, <3>1, HttpdAssumption
    <3>6. pc' = [pc EXCEPT ![c] = "unstick"]
      BY <1>3, <2>4, Zenon DEF Scan, Go
    <3>7. QED
      <4> HIDE DEF s
      <4>1. QED
        BY <1>1, <1>2, <2>1, <2>2, <2>3, <2>4, <3>4, <3>5, <3>6, Zenon DEF CollectionFrame, SeenStep
  <2>5. CASE ~(disk["lock"] # None /\ clock - disk["lock"].at > Timeout)
    <3>1. job' = job /\ pc' = [pc EXCEPT ![c] = "read"]
      BY <1>3, <2>5, Zenon DEF Scan, Go
    <3>2. QED
      <4> HIDE DEF s
      <4>1. QED
        BY <1>1, <1>2, <2>1, <2>2, <2>3, <3>1 DEF CollectionFrame, SeenStep
  <2>6. QED
    BY <2>4, <2>5
<1>4. CASE Unstick(c)
  <2>1. [sweep[c] EXCEPT !.locked = FALSE] \in Findings
    BY <1>1, Zenon DEF Findings
  <2>2. sweep' \in [Child -> Findings] /\ \A d \in Child \ {c} : sweep'[d] = sweep[d]
    BY <1>1, <1>4, <2>1, Zenon DEF Unstick, Decide
  <2>3. [job[c] EXCEPT !.seen = None] \in Job
    BY <1>1 DEF Job
  <2>4. job' = [job EXCEPT ![c] = [job[c] EXCEPT !.seen = None]]
    BY <1>1, <1>4, Zenon DEF Unstick, Learn
  <2>5. job' \in [Child -> Job]
        /\ \A d \in Child : /\ job'[d].now = job[d].now /\ job'[d].gc = job[d].gc
                            /\ job'[d].got = job[d].got /\ job'[d].deaf = job[d].deaf
                            /\ d # c => job'[d].seen = job[d].seen
    BY <1>1, <2>3, <2>4 DEF Job
  <2>6. /\ pc[c] = "unstick" /\ pc' = [pc EXCEPT ![c] = "read"]
        /\ disk' = Unlink(disk, "lock") /\ UNCHANGED <<world, info>>
        /\ stolen' \in BOOLEAN /\ (stolen => stolen')
        /\ stolen' \/ disk["lock"] = None \/ disk["lock"].by = job[c].seen
    BY <1>1, <1>4, Zenon DEF Unstick, RemoveLock, Go
  <2>7. QED
    BY <1>1, <1>2, <2>2, <2>5, <2>6, RenameType DEF CollectionFrame, SeenStep, Unlink
<1>5. CASE ReadInfo(c)
  <2> DEFINE entry == IF info = None THEN [lc |-> sweep[c].at, ex |-> 0, lm |-> 0]
                      ELSE [lc |-> info.lc, ex |-> info.anyEx, lm |-> info.anyLm]
             s == [sweep[c] EXCEPT !.entry = entry]
  <2>1. entry \in [lc : Time, ex : Nat, lm : Time]
    BY <1>1, HttpdAssumption DEF Findings, Entry, Time
  <2>2. entry # None
    BY <2>1, HttpdAssumption
  <2>3. sweep' = [sweep EXCEPT ![c] = s]
    BY <1>1, <1>5, Zenon DEF ReadInfo, Decide
  <2> HIDE DEF entry
  <2>4. s \in Findings /\ s.entry = entry
    BY <1>1, <2>1, Zenon DEF Findings
  <2>5. /\ pc[c] = "read" /\ pc' = [pc EXCEPT ![c] = "collect"]
        /\ UNCHANGED <<world, disk, info, job, stolen>>
    BY <1>5 DEF ReadInfo, Go, cacheVars
  <2> HIDE DEF s
  <2>6. QED
    BY <1>1, <1>2, <2>2, <2>3, <2>4, <2>5 DEF CollectionFrame, SeenStep
<1>6. CASE Collect(c)
  <2>1. PICK kill \in SUBSET sweep[c].files : Decide(c, "kill", kill)
    BY <1>6 DEF Collect
  <2>2. kill \in SUBSET {"doc", "backup"}
    BY <1>1, <2>1 DEF Findings
  <2>3. [sweep[c] EXCEPT !.kill = kill] \in Findings
        /\ [sweep[c] EXCEPT !.kill = kill].entry = sweep[c].entry
    BY <1>1, <2>2, Zenon DEF Findings
  <2>4. sweep' = [sweep EXCEPT ![c] = [sweep[c] EXCEPT !.kill = kill]]
    BY <1>1, <2>1, Zenon DEF Decide
  <2>5. /\ pc[c] = "collect" /\ pc' = [pc EXCEPT ![c] = "flush"] /\ info' = None
        /\ UNCHANGED <<world, disk, job, stolen>>
    BY <1>6 DEF Collect, Go
  <2>6. QED
    BY <1>1, <1>2, <2>3, <2>4, <2>5 DEF CollectionFrame, SeenStep
<1>7. CASE Sweep(c)
  <2>1. PICK n \in {"doc", "backup"} :
           /\ disk' = Unlink(disk, n)
           /\ sweep' = [sweep EXCEPT ![c] = [sweep[c] EXCEPT !.files = sweep[c].files \ {n}]]
    BY <1>1, <1>7, Zenon DEF Sweep, Findings
  <2>2. [sweep[c] EXCEPT !.files = sweep[c].files \ {n}] \in Findings
        /\ [sweep[c] EXCEPT !.files = sweep[c].files \ {n}].entry = sweep[c].entry
    BY <1>1 DEF Findings
  <2>4. job' = job
    BY <1>7 DEF Sweep
  <2>5. pc[c] = "flush" /\ UNCHANGED <<world, info, pc, stolen>>
    BY <1>7 DEF Sweep
  <2>6. pc' = [pc EXCEPT ![c] = pc'[c]] /\ pc'[c] = "flush"
    BY <1>1, <2>5
  <2>7. /\ sweep' \in [Child -> Findings]
        /\ \A d \in Child : pc'[d] \in {"collect", "flush"} => sweep'[d].entry # None
    BY <1>1, <1>2, <2>1, <2>2, <2>5
  <2>8. disk' \in [Name -> File \cup {None}] /\ disk'["lock"] = disk["lock"]
        /\ \A m \in Name : disk'[m] \in {None, disk[m]}
    BY <1>1, <2>1, RenameType DEF Unlink
  <2>9. QED
    BY <1>1, <2>4, <2>5, <2>6, <2>7, <2>8 DEF CollectionFrame, SeenStep
<1>8. CASE Flush(c)
  <2>1. info' \in Entry \cup {None}
    <3>1. CASE "doc" \in sweep[c].files
      <4>1. sweep[c].entry \in [lc : Time, ex : Nat, lm : Time]
        BY <1>1, <1>2, <1>8 DEF Flush, Findings
      <4>2. Rewrite(sweep[c].entry)
        BY <1>8, <3>1 DEF Flush
      <4>3. QED
        BY <4>1, <4>2 DEF Rewrite, Entry
    <3>2. CASE "doc" \notin sweep[c].files
      <4>1. info' = None \/ info' = info
        BY <1>8, <3>2 DEF Flush
      <4>2. QED
        BY <1>1, <4>1
    <3>3. QED
      BY <3>1, <3>2
  <2>2. Idle \in Findings
    BY HttpdAssumption DEF Idle, Findings, Time
  <2>3. /\ pc[c] = "flush" /\ pc' = [pc EXCEPT ![c] = "gone"] /\ sweep' = [sweep EXCEPT ![c] = Idle]
        /\ UNCHANGED <<world, disk, job, stolen>>
    BY <1>8 DEF Flush, Go
  <2>4. QED
    BY <1>1, <1>2, <2>1, <2>2, <2>3 DEF CollectionFrame, SeenStep
<1>9. QED
  BY <1>3, <1>4, <1>5, <1>6, <1>7, <1>8 DEF Collection

---------------------------------------------------------------------------
(* The steps of the daemon                                                 *)

\* What starting a child does.
LoopFrame(c) ==
    /\ UNCHANGED <<world, cacheVars, stolen, collectorVars, kind, gc_pid>>
    /\ forked = None /\ pc[c] = "none" /\ pc' = [pc EXCEPT ![c] = pc'[c]]
    /\ pc'[c] \in {"locked", "scan", "reaped"}
    /\ job' \in [Child -> Job]
    /\ \A d \in Child \ {c} : job'[d] = job[d]
    /\ pc'[c] = "locked" => job'[c].now = clock
    /\ job'[c].got \in {None, job[c].got} /\ (job'[c].deaf => job[c].deaf)
    /\ forked' \in [pid : Child, daily : BOOLEAN] \cup {None}
    /\ forked' # None => forked'.pid = c /\ gc_pid = None
    /\ pc'[c] = "scan" \/ (pc'[c] = "locked" /\ job'[c].gc) => forked' # None

\* What a child knows that has just been started for a client.
Started(g, t, f) == [Blank EXCEPT !.gc = g, !.now = t, !.forced = f]

LEMMA StartedType ==
    ASSUME NEW g \in BOOLEAN, NEW t \in Time, NEW f \in BOOLEAN
    PROVE  /\ Started(g, t, f) \in Job
           /\ Started(g, t, f).now = t /\ Started(g, t, f).gc = g /\ Started(g, t, f).got = None
           /\ ~Started(g, t, f).deaf
<1>1. Started(g, t, f) \in Job
  BY BlankType, Zenon DEF Started, Job
<1>2. /\ Started(g, t, f).now = t /\ Started(g, t, f).gc = g /\ Started(g, t, f).got = None
      /\ ~Started(g, t, f).deaf
  BY DEF Started, Blank
<1>3. QED
  BY <1>1, <1>2

LEMMA LoopFrames ==
    ASSUME CacheTypeOK, NEW c \in Child, Loop(c)
    PROVE  LoopFrame(c)
<1>1. job \in [Child -> Job] /\ job[c] \in Job /\ pc = [d \in Child |-> pc[d]] /\ clock \in Time
  BY DEF CacheTypeOK
<1>2. /\ \A daily \in BOOLEAN : [pid |-> c, daily |-> daily] \in [pid : Child, daily : BOOLEAN]
      /\ None \notin [pid : Child, daily : BOOLEAN]
  BY HttpdAssumption
<1>3. CASE Accept(c)
  <2> DEFINE gc == gc_pid = None /\ Full
             bypass == kind[c] = "bypass"
             j == Started(gc, clock, bypass)
  <2>1. j \in Job /\ j.now = clock /\ j.gc = gc /\ j.got = None /\ ~j.deaf
    <3>1. gc \in BOOLEAN /\ bypass \in BOOLEAN
      OBVIOUS
    <3>2. QED
      <4> HIDE DEF gc, bypass
      <4>1. QED
        BY <1>1, <3>1, StartedType
  <2>2. job' = [job EXCEPT ![c] = j] /\ forked' = IF gc THEN [pid |-> c, daily |-> FALSE] ELSE None
    BY <1>3 DEF Accept, Started
  <2>3. /\ forked = None /\ pc[c] = "none" /\ pc' = [pc EXCEPT ![c] = "locked"]
        /\ UNCHANGED <<world, cacheVars, stolen, collectorVars, kind, gc_pid>>
    BY <1>3 DEF Accept, Go
  <2> HIDE DEF j
  <2>4. QED
    BY <1>1, <1>2, <2>1, <2>2, <2>3, Zenon DEF LoopFrame
<1>4. CASE Daily(c)
  <2>1. /\ [job[c] EXCEPT !.gc = TRUE] \in Job /\ [job[c] EXCEPT !.gc = TRUE].got = job[c].got
        /\ [job[c] EXCEPT !.gc = TRUE].deaf = job[c].deaf
    BY <1>1, Zenon DEF Job
  <2>2. job' = [job EXCEPT ![c] = [job[c] EXCEPT !.gc = TRUE]]
    BY <1>1, <1>4, Zenon DEF Daily, Learn
  <2>3. /\ forked = None /\ gc_pid = None /\ pc[c] = "none" /\ pc' = [pc EXCEPT ![c] = "scan"]
        /\ forked' = [pid |-> c, daily |-> TRUE]
        /\ UNCHANGED <<world, cacheVars, stolen, collectorVars, kind, gc_pid>>
    BY <1>4 DEF Daily, Go
  <2>4. QED
    BY <1>1, <1>2, <2>1, <2>2, <2>3, Zenon DEF LoopFrame
<1>5. CASE ForkFails(c)
  BY <1>1, <1>5 DEF ForkFails, Go, daemonVars, LoopFrame
<1>6. QED
  BY <1>3, <1>4, <1>5 DEF Loop

\* What waiting for the children that have ended does, if that one collects.
ReapFrame(pid) ==
    /\ UNCHANGED <<world, cacheVars, stolen, collectorVars, kind>>
    /\ job' \in [Child -> Job]
    /\ DOMAIN pc' = Child /\ pc' = [d \in Child |-> pc'[d]]
    /\ \A d \in Child :
           \/ pc'[d] = pc[d] /\ job'[d] = job[d]
           \/ pc[d] = "gone" /\ pc'[d] = "reaped" /\ job'[d].got = None /\ ~job'[d].deaf
    /\ \/ gc_pid' = pid
       \/ gc_pid' = None /\ pid \in Child /\ pc[pid] = "gone"

LEMMA ReapFrames ==
    ASSUME CacheTypeOK, NEW pid \in Child \cup {None}, Reap(pid)
    PROVE  ReapFrame(pid)
<1>1. /\ job \in [Child -> Job] /\ pc = [d \in Child |-> pc[d]]
      /\ Blank.got = None /\ ~Blank.deaf
  BY DEF CacheTypeOK, Blank
<1>2. job' \in [Child -> Job]
  BY <1>1, BlankType DEF Reap
<1>3. QED
  BY <1>1, <1>2 DEF Reap, ReapFrame, Gone

LEMMA ForkedFrames ==
    ASSUME CacheTypeOK, Forked
    PROVE  ReapFrame(forked.pid)
<1>1. forked.pid \in Child /\ pc = [d \in Child |-> pc[d]] /\ job \in [Child -> Job]
  BY DEF Forked, CacheTypeOK
<1>2. CASE forked.daily
  BY <1>1, <1>2 DEF Forked, ReapFrame
<1>3. CASE ~forked.daily
  BY <1>1, <1>3, ReapFrames DEF Forked
<1>4. QED
  BY <1>2, <1>3

---------------------------------------------------------------------------
(* Types are kept                                                          *)

LEMMA TypesAtInit == Init => CacheTypeOK
<1> SUFFICES ASSUME Init PROVE CacheTypeOK
  OBVIOUS
<1>1. clock = 2 /\ origin = 2 /\ {1, 2} \subseteq Time /\ Time \subseteq Nat /\ 0 \in Time
  BY HttpdAssumption DEF Init, Time
<1>2. \A life \in Lifetimes \ 0 .. Margin, v \in {1, 2} : Left(v, life) \in File
  BY <1>1, HttpdAssumption DEF Left, File
<1>3. OldLock \in File
  BY <1>1, Zenon DEF OldLock, NewFile, File
<1>4. PICK life \in Lifetimes \ 0 .. Margin,
           files \in {{}, {"doc"}, {"doc", "backup"}, {"backup", "lock"}} :
         LET v == IF "backup" \in files THEN 1 ELSE 2
         IN /\ disk = [doc    |-> IF "doc" \in files THEN Left(2, life) ELSE None,
                       backup |-> IF "backup" \in files THEN Left(1, life) ELSE None,
                       lock   |-> IF "lock" \in files THEN OldLock ELSE None]
            /\ info = IF files = {} THEN None
                      ELSE [lc |-> v, ex |-> v + life, lm |-> v,
                            anyEx |-> v + life, anyLm |-> v]
            /\ CollectorInit(Cardinality(files \ {"lock"}))
  BY Zenon DEF Init
<1>5. disk \in [Name -> File \cup {None}]
  BY <1>2, <1>3, <1>4 DEF Name
<1>6. info \in Entry \cup {None}
  <2> DEFINE v == IF "backup" \in files THEN 1 ELSE 2
  <2>1. v \in Time /\ v + life \in Nat
    BY <1>1, HttpdAssumption
  <2>2. QED
    BY <1>4, <2>1 DEF Entry
<1>7. sweep \in [Child -> Findings]
  BY <1>1, <1>4 DEF CollectorInit, Idle, Findings
<1>8. job \in [Child -> Job] /\ pc = [c \in Child |-> "none"] /\ stolen = FALSE /\ crossed = {}
  BY BlankType DEF Init
<1>9. kind \in [Child -> {"get", "bypass", "daily"}] /\ gc_pid = None /\ forked = None
  BY HttpdAssumption DEF Init, DaemonInit
<1>10. QED
  BY <1>1, <1>5, <1>6, <1>7, <1>8, <1>9, Zenon DEF CacheTypeOK

LEMMA CrossedType ==
    ASSUME CacheTypeOK, NEW c \in Child, RequestCrosses(c) \/ CollectionCrosses(c)
    PROVE  crossed' \subseteq {"requests", "collection", "sweep"} /\ crossed \subseteq crossed'
BY Zenon DEF CacheTypeOK, RequestCrosses, CollectionCrosses

LEMMA TypesKept ==
    ASSUME CacheTypeOK, [Next]_vars
    PROVE  CacheTypeOK'
<1> USE DEF CacheTypeOK
<1>1. CASE UNCHANGED vars
  BY <1>1 DEF vars, world, cacheVars, collectorVars, daemonVars
<1>2. CASE Tick
  <2>1. clock' \in Time /\ origin' \in Time
    BY <1>2, HttpdAssumption DEF Tick, Time
  <2>2. QED
    BY <1>2, <2>1 DEF Tick, cacheVars, collectorVars, daemonVars
<1>3. ASSUME NEW c \in Child, Request(c), RequestCrosses(c),
             UNCHANGED <<collectorVars, daemonVars>>
      PROVE  CacheTypeOK'
  <2>1. RequestFrame(c) /\ disk' \in [Name -> File \cup {None}] /\ info' \in Entry \cup {None}
        /\ stolen' \in BOOLEAN
    BY <1>3, RequestFrames, RequestFiles
  <2>2. pc' \in [Child -> Served \cup {"none", "scan", "unstick", "read", "collect",
                                       "flush", "gone", "reaped"}]
    BY <2>1 DEF RequestFrame
  <2>3. \A d \in Child : pc'[d] \in {"collect", "flush"} => sweep'[d].entry # None
    BY <1>3, <2>1 DEF RequestFrame, collectorVars, Served
  <2>4. QED
    BY <1>3, <2>1, <2>2, <2>3, CrossedType DEF RequestFrame, world, collectorVars, daemonVars
<1>4. ASSUME NEW c \in Child, Collection(c), CollectionCrosses(c), UNCHANGED daemonVars
      PROVE  CacheTypeOK'
  <2>1. CollectionFrame(c)
    BY <1>4, CollectionFrames
  <2>2. QED
    BY <1>4, <2>1, CrossedType DEF CollectionFrame, world, daemonVars
<1>5. ASSUME NEW c \in Child, Loop(c), UNCHANGED crossed
      PROVE  CacheTypeOK'
  <2>1. LoopFrame(c)
    BY <1>5, LoopFrames
  <2>2. pc' \in [Child -> Served \cup {"none", "scan", "unstick", "read", "collect",
                                       "flush", "gone", "reaped"}]
    BY <2>1 DEF LoopFrame, Served
  <2>3. QED
    BY <1>5, <2>1, <2>2 DEF LoopFrame, world, cacheVars, collectorVars
<1>6. ASSUME NEW pid \in Child, ReapFrame(pid) \/ ReapFrame(None),
             forked' \in {None, forked}, UNCHANGED crossed
      PROVE  CacheTypeOK'
  <2>1. pc' \in [Child -> Served \cup {"none", "scan", "unstick", "read", "collect",
                                       "flush", "gone", "reaped"}]
    BY <1>6 DEF ReapFrame
  <2>2. QED
    BY <1>6, <2>1 DEF ReapFrame, world, cacheVars, collectorVars
<1>7. CASE SigChild /\ UNCHANGED crossed
  <2>1. PICK c \in Child : pc[c] = "gone"
    BY <1>7 DEF SigChild, Gone
  <2>2. ReapFrame(gc_pid) /\ forked' = forked
    BY <1>7, ReapFrames DEF SigChild
  <2>3. QED
    BY <1>6, <1>7, <2>1, <2>2
<1>8. CASE Forked /\ UNCHANGED crossed
  <2>1. ReapFrame(forked.pid) /\ forked' = None /\ forked.pid \in Child
    BY <1>8, ForkedFrames DEF Forked
  <2>2. QED
    BY <1>6, <1>8, <2>1
<1>9. QED
  BY <1>1, <1>2, <1>3, <1>4, <1>5, <1>7, <1>8 DEF Next

\* The files, the children, what they know and the daemon's own numbers always have their
\* types, whatever children and collections do to the cache at the same time.
THEOREM HttpdTyping == Spec => []CacheTypeOK
<1>1. Init => CacheTypeOK
  BY TypesAtInit
<1>2. CacheTypeOK /\ [Next]_vars => CacheTypeOK'
  BY TypesKept
<1>3. QED
  BY <1>1, <1>2, PTL DEF Spec

---------------------------------------------------------------------------
(* Locks                                                                   *)

LEMMA NowType ==
    ASSUME CacheTypeOK
    PROVE  /\ clock \in Nat /\ Timeout \in Nat
           /\ \A c \in Child : job[c].now \in Nat
           /\ \A n \in Name : disk[n] # None => disk[n].at \in Nat
           /\ Name = {"doc", "backup", "lock"}
BY HttpdAssumption DEF CacheTypeOK, Job, File, Time, Name

LEMMA LocksOldKept ==
    ASSUME IInv, [Next]_vars, CacheTypeOK'
    PROVE  LocksOld'
<1> USE DEF IInv
<1>0. /\ clock \in Nat /\ Timeout \in Nat
      /\ \A c \in Child : job[c].now \in Nat
      /\ \A n \in Name : disk[n] # None => disk[n].at \in Nat
      /\ "lock" \in Name
  BY NowType DEF Name
<1>1. CASE UNCHANGED vars
  BY <1>1 DEF vars, world, cacheVars, LocksOld, Due
<1>2. CASE Tick
  BY <1>0, <1>2 DEF Tick, cacheVars, LocksOld, Due
<1>3. ASSUME NEW c \in Child, Request(c)
      PROVE  LocksOld'
  <2>1. RequestFrame(c) /\ LockStep(c)
    BY <1>3, RequestFrames, RequestFiles
  <2>2. clock' = clock /\ job[c].now <= clock
    BY <2>1 DEF RequestFrame, world, LocksOld
  <2>3. SeenStep(c, "break") /\ SeenStep(c, "unstick")
    BY <1>3, <2>2, RequestSees
  <2>4. pc' = [d \in Child |-> IF d = c THEN pc'[c] ELSE pc[d]]
    BY <2>1 DEF RequestFrame, CacheTypeOK
  <2>5. /\ pc[c] # "none" /\ pc[c] \in Served
        /\ \A d \in Child \ {c} : job'[d] = job[d] /\ pc'[d] = pc[d]
        /\ pc'[c] # "none" /\ (pc'[c] \in Served => job'[c].now = job[c].now)
    BY <2>1, <2>4 DEF RequestFrame, Served
  <2>6. ASSUME NEW d \in Child, disk'["lock"] # None, disk'["lock"].by = d
        PROVE  pc'[d] # "none" /\ (pc'[d] \in Served => job'[d].now <= disk'["lock"].at)
    <3>1. CASE disk'["lock"] = disk["lock"]
      BY <2>5, <2>6, <3>1 DEF LocksOld
    <3>2. CASE disk'["lock"] # disk["lock"]
      <4>1. disk'["lock"].by = c /\ disk'["lock"].at = clock
        BY <2>1, <2>6, <3>2 DEF LockStep, NewFile, Copy
      <4>2. QED
        BY <2>2, <2>5, <2>6, <4>1
    <3>3. QED
      BY <3>1, <3>2
  <2>7. ASSUME NEW d \in Child, NEW e \in Child,
               pc'[e] \in {"break", "unstick"}, job'[e].seen = d
        PROVE  pc'[d] # "none" /\ (pc'[d] \in Served => Due(d)')
    <3>1. pc[d] # "none" /\ (pc[d] \in Served => Due(d))
      <4>1. CASE pc[e] = pc'[e] /\ job[e].seen = d
        BY <2>7, <4>1 DEF LocksOld
      <4>2. CASE ~(pc[e] = pc'[e] /\ job[e].seen = d)
        <5>1. disk["lock"] # None /\ d = disk["lock"].by /\ clock > disk["lock"].at + Timeout
          BY <2>3, <2>5, <2>7, <4>2 DEF SeenStep
        <5>2. pc[d] # "none" /\ (pc[d] \in Served => job[d].now <= disk["lock"].at)
          BY <5>1 DEF LocksOld
        <5>3. QED
          BY <1>0, <5>1, <5>2 DEF Due
      <4>3. QED
        BY <4>1, <4>2
    <3>2. QED
      BY <2>2, <2>5, <3>1 DEF Due
  <2>8. \A d \in Child : pc'[d] \in Served => job'[d].now <= clock'
    BY <2>2, <2>5 DEF LocksOld
  <2>9. QED
    BY <2>6, <2>7, <2>8 DEF LocksOld
<1>4. ASSUME NEW c \in Child, Collection(c)
      PROVE  LocksOld'
  <2>1. CollectionFrame(c)
    BY <1>4, CollectionFrames
  <2>2. /\ clock' = clock /\ (disk'["lock"] # None => disk'["lock"] = disk["lock"])
        /\ \A d \in Child \ {c} : pc'[d] = pc[d] /\ job'[d].seen = job[d].seen
        /\ \A d \in Child : job'[d].now = job[d].now
        /\ pc[c] # "none" /\ pc'[c] # "none" /\ pc'[c] \notin Served
        /\ SeenStep(c, "unstick") /\ pc'[c] # "break"
    <3>1. clock' = clock /\ SeenStep(c, "unstick")
          /\ \A d \in Child : /\ job'[d].now = job[d].now
                              /\ d # c => job'[d].seen = job[d].seen
      BY <2>1 DEF CollectionFrame, world
    <3>2. \A d \in Child \ {c} : pc'[d] = pc[d]
      BY <2>1 DEF CollectionFrame, CacheTypeOK
    <3>3. pc[c] # "none" /\ pc'[c] \in {"unstick", "read", "collect", "flush", "gone"}
      BY <2>1 DEF CollectionFrame
    <3>4. disk'["lock"] # None => disk'["lock"] = disk["lock"]
      BY <1>0, <2>1 DEF CollectionFrame
    <3>5. QED
      BY <3>1, <3>2, <3>3, <3>4 DEF Served
  <2>3. ASSUME NEW d \in Child, NEW e \in Child,
               pc'[e] \in {"break", "unstick"}, job'[e].seen = d
        PROVE  pc'[d] # "none" /\ (pc'[d] \in Served => Due(d)')
    <3>1. pc[d] # "none" /\ (pc[d] \in Served => Due(d))
      <4>1. CASE pc[e] = pc'[e] /\ job[e].seen = d
        BY <2>3, <4>1 DEF LocksOld
      <4>2. CASE ~(pc[e] = pc'[e] /\ job[e].seen = d)
        <5>1. disk["lock"] # None /\ d = disk["lock"].by /\ clock > disk["lock"].at + Timeout
          BY <2>2, <2>3, <4>2 DEF SeenStep
        <5>2. pc[d] # "none" /\ (pc[d] \in Served => job[d].now <= disk["lock"].at)
          BY <5>1 DEF LocksOld
        <5>3. QED
          BY <1>0, <5>1, <5>2 DEF Due
      <4>3. QED
        BY <4>1, <4>2
    <3>2. QED
      BY <2>2, <3>1 DEF Due
  <2>4. QED
    BY <2>2, <2>3 DEF LocksOld
<1>5. ASSUME NEW c \in Child, Loop(c)
      PROVE  LocksOld'
  <2>1. LoopFrame(c)
    BY <1>5, LoopFrames
  <2>2. /\ clock' = clock /\ disk' = disk /\ pc[c] = "none"
        /\ \A d \in Child \ {c} : pc'[d] = pc[d] /\ job'[d] = job[d]
        /\ pc'[c] \in {"locked", "scan", "reaped"} /\ (pc'[c] = "locked" => job'[c].now = clock)
    BY <2>1 DEF LoopFrame, CacheTypeOK, world, cacheVars
  <2>3. QED
    BY <1>0, <2>2 DEF LocksOld, Due, Served
<1>6. ASSUME NEW pid, ReapFrame(pid)
      PROVE  LocksOld'
  <2>1. /\ clock' = clock /\ disk' = disk
        /\ \A d \in Child : \/ pc'[d] = pc[d] /\ job'[d] = job[d]
                            \/ pc[d] = "gone" /\ pc'[d] = "reaped"
    BY <1>6 DEF ReapFrame, world, cacheVars
  <2>2. QED
    BY <2>1 DEF LocksOld, Due, Served
<1>7. CASE SigChild
  BY <1>6, <1>7, ReapFrames DEF SigChild, CacheTypeOK
<1>8. CASE Forked
  BY <1>6, <1>8, ForkedFrames
<1>9. QED
  BY <1>1, <1>2, <1>3, <1>4, <1>5, <1>7, <1>8 DEF Next

LEMMA LockIsOwnKept ==
    ASSUME IInv, [Next]_vars, CacheTypeOK'
    PROVE  LockIsOwn'
<1> USE DEF IInv
<1>0. /\ clock \in Nat /\ Timeout \in Nat
      /\ \A c \in Child : job[c].now \in Nat
      /\ Filling \subseteq Served /\ None \notin Child
  BY NowType, HttpdAssumption DEF Filling, Served
<1>1. CASE UNCHANGED vars
  BY <1>1 DEF vars, world, cacheVars, LockIsOwn, Due
<1>2. CASE Tick
  BY <1>0, <1>2 DEF Tick, cacheVars, LockIsOwn, Due
<1>3. ASSUME NEW c \in Child, Request(c)
      PROVE  LockIsOwn'
  <2>1. RequestFrame(c) /\ LockStep(c) /\ (stolen => stolen')
    BY <1>3, RequestFrames, RequestFiles
  <2>2. /\ clock' = clock
        /\ \A d \in Child \ {c} : job'[d] = job[d] /\ pc'[d] = pc[d]
        /\ pc'[c] \in Served => job'[c].now = job[c].now
    BY <2>1 DEF RequestFrame, world, CacheTypeOK
  <2>3. SUFFICES ASSUME ~stolen', NEW d \in Child, pc'[d] \in Filling, ~Due(d)'
                 PROVE  disk'["lock"] # None /\ disk'["lock"].by = d
    BY DEF LockIsOwn
  <2>4. ~Due(d)
    BY <1>0, <2>2, <2>3 DEF Due
  <2>5. pc[d] \in Filling => disk["lock"] # None /\ disk["lock"].by = d
    BY <2>1, <2>3, <2>4 DEF LockIsOwn
  <2>6. CASE d = c
    <3>1. \A whole \in BOOLEAN : /\ NewFile(c).by = c /\ Copy(c, whole).by = c
                                 /\ NewFile(c) # None /\ Copy(c, whole) # None
      BY FileType, HttpdAssumption, Zenon DEF NewFile, Copy
    <3>2. QED
      BY <2>1, <2>3, <2>5, <2>6, <3>1, Zenon DEF LockStep, Filling
  <2>7. CASE d # c
    <3>1. pc[d] \in Filling /\ disk["lock"] # None /\ disk["lock"].by = d
      BY <2>2, <2>3, <2>5, <2>7
    <3>2. ~(pc[c] \in Filling /\ ~Due(c))
      BY <2>1, <2>3, <2>7, <3>1 DEF LockIsOwn
    <3>3. ~(pc[c] = "break" /\ disk["lock"].by = job[c].seen)
      BY <1>0, <2>4, <3>1 DEF LocksOld
    <3>4. disk'["lock"] = disk["lock"]
      BY <2>1, <2>3, <2>7, <3>1, <3>2, <3>3 DEF LockStep, Deaf
    <3>5. QED
      BY <3>1, <3>4
  <2>8. QED
    BY <2>6, <2>7
<1>4. ASSUME NEW c \in Child, Collection(c)
      PROVE  LockIsOwn'
  <2>1. CollectionFrame(c)
    BY <1>4, CollectionFrames
  <2>2. /\ clock' = clock /\ (stolen => stolen') /\ pc'[c] \notin Filling
        /\ \A d \in Child \ {c} : pc'[d] = pc[d]
        /\ \A d \in Child : job'[d].now = job[d].now
        /\ disk'["lock"] # disk["lock"] =>
               pc[c] = "unstick" /\ (stolen' \/ disk["lock"].by = job[c].seen)
    <3>1. clock' = clock /\ (stolen => stolen') /\ (\A d \in Child : job'[d].now = job[d].now)
      BY <2>1 DEF CollectionFrame, world
    <3>2. \A d \in Child \ {c} : pc'[d] = pc[d]
      BY <2>1 DEF CollectionFrame, CacheTypeOK
    <3>3. pc'[c] \notin Filling
      BY <2>1 DEF CollectionFrame, Filling
    <3>4. disk'["lock"] # disk["lock"] =>
               pc[c] = "unstick" /\ (stolen' \/ disk["lock"].by = job[c].seen)
      BY <2>1 DEF CollectionFrame
    <3>5. QED
      BY <3>1, <3>2, <3>3, <3>4
  <2>3. SUFFICES ASSUME ~stolen', NEW d \in Child, pc'[d] \in Filling, ~Due(d)'
                 PROVE  disk'["lock"] # None /\ disk'["lock"].by = d
    BY DEF LockIsOwn
  <2>4. /\ d # c /\ pc[d] \in Filling /\ ~Due(d)
        /\ disk["lock"] # None /\ disk["lock"].by = d
    BY <2>2, <2>3 DEF LockIsOwn, Due
  <2>5. ~(pc[c] = "unstick" /\ disk["lock"].by = job[c].seen)
    BY <1>0, <2>4 DEF LocksOld
  <2>6. QED
    BY <2>2, <2>3, <2>4, <2>5
<1>5. ASSUME NEW c \in Child, Loop(c)
      PROVE  LockIsOwn'
  <2>1. LoopFrame(c)
    BY <1>5, LoopFrames
  <2>2. QED
    BY <2>1 DEF LoopFrame, CacheTypeOK, world, cacheVars, LockIsOwn, Due, Filling
<1>6. ASSUME NEW pid, ReapFrame(pid)
      PROVE  LockIsOwn'
  BY <1>6 DEF ReapFrame, world, cacheVars, LockIsOwn, Due, Filling
<1>7. CASE SigChild
  BY <1>6, <1>7, ReapFrames DEF SigChild, CacheTypeOK
<1>8. CASE Forked
  BY <1>6, <1>8, ForkedFrames
<1>9. QED
  BY <1>1, <1>2, <1>3, <1>4, <1>5, <1>7, <1>8 DEF Next

\* A request that does not hear its alarm has been told what to do.
LEMMA DeafStep ==
    ASSUME CacheTypeOK, Deaf, NEW c \in Child, Request(c), job'[c].deaf
    PROVE  pc'[c] \in {"body", "created", "discard", "note", "cancel", "sending"}
<1>1. job \in [Child -> Job] /\ job[c] \in Job /\ pc[c] \in Served /\ job[c].status \in 0 .. 255
  BY RequestFrames DEF CacheTypeOK, RequestFrame, Job
<1>2. ~(Leave(c, 0) \/ Leave(c, StoredStatus) \/ Leave(c, job[c].status) \/ Stop(c))
  <2>1. 0 \in 0 .. 255
    OBVIOUS
  <2>2. QED
    BY <1>1, <2>1, LeaveType, StatusType, Zenon
<1>3. CASE PipeIgnored(c)
  BY <1>3 DEF PipeIgnored, At
<1>4. CASE Body(c) \/ Mismatch(c) \/ Created(c) \/ Discard(c)
  BY <1>4 DEF Body, Mismatch, Created, Discard, Go, CacheTypeOK
<1>5. CASE ~PipeIgnored(c) /\ ~(Body(c) \/ Mismatch(c) \/ Created(c) \/ Discard(c))
  <2>1. pc[c] \notin {"body", "created", "discard", "note", "cancel", "sending"}
    BY <1>2, <1>5
       DEF Request, At, Locked, Break, Stat, Info, Relock, Create, Backup, Found, Sent, ClientGone,
           NotModified, Document, Junk, Note, Reread, Restore, Unlock, Renote, Resend, Cancel,
           TimedOut
  <2>2. job'[c].deaf = job[c].deaf
    <3>1. CASE NotModified(c) \/ Document(c)
      <4>1. job' = job \/ \E x : job' = [job EXCEPT ![c] = [job[c] EXCEPT !.v = origin, !.ex = x]]
        BY <1>1, <3>1, Zenon DEF NotModified, Document
      <4>2. CASE job' = job
        BY <4>2
      <4>3. ASSUME NEW x, job' = [job EXCEPT ![c] = [job[c] EXCEPT !.v = origin, !.ex = x]]
            PROVE  job'[c].deaf = job[c].deaf
        BY <4>3, DeafStays, Zenon
      <4>4. QED
        BY <4>1, <4>2, <4>3, Zenon
    <3>2. CASE Info(c)
      <4>1. CASE Fresh(c)
        BY <3>2, <4>1 DEF Info
      <4>2. CASE ~Fresh(c)
        <5> DEFINE time == CASE info = None -> 0
                             [] info # None /\ info.lm = 0 -> info.lc
                             [] OTHER -> info.lm
        <5>1. job' = [job EXCEPT ![c] = [job[c] EXCEPT !.ims = time,
                                           !.misled = (info # None /\ info.lm = 0)]]
          BY <1>1, <3>2, <4>2, Zenon DEF Info
        <5> HIDE DEF time
        <5>2. QED
          BY <5>1, DeafStays, Zenon
      <4>3. QED
        BY <4>1, <4>2
    <3>3. CASE ~(NotModified(c) \/ Document(c) \/ Info(c))
      <4>1. \/ job' = job
            \/ \E x : \/ job' = [job EXCEPT ![c] = [job[c] EXCEPT !.seen = x]]
                      \/ job' = [job EXCEPT ![c] = [job[c] EXCEPT !.got = x]]
                      \/ job' = [job EXCEPT ![c] = [job[c] EXCEPT !.ims = x]]
                      \/ job' = [job EXCEPT ![c] = [job[c] EXCEPT !.got = x, !.same = TRUE]]
        BY <1>1, <1>2, <1>5, <3>3, Zenon
           DEF Request, Learn, Locked, Break, Stat, Relock, Create, Backup, Found, Sent,
               ClientGone, Junk, Note, Reread, Restore, Unlock, Renote, Resend, Cancel, TimedOut
      <4>2. CASE job' = job
        BY <4>2
      <4>3. ASSUME NEW x,
                   \/ job' = [job EXCEPT ![c] = [job[c] EXCEPT !.seen = x]]
                   \/ job' = [job EXCEPT ![c] = [job[c] EXCEPT !.got = x]]
                   \/ job' = [job EXCEPT ![c] = [job[c] EXCEPT !.ims = x]]
                   \/ job' = [job EXCEPT ![c] = [job[c] EXCEPT !.got = x, !.same = TRUE]]
            PROVE  job'[c].deaf = job[c].deaf
        BY <4>3, DeafStays, Zenon
      <4>4. QED
        BY <4>1, <4>2, <4>3, Zenon
    <3>4. QED
      BY <3>1, <3>2, <3>3
  <2>3. QED
    BY <2>1, <2>2 DEF Deaf
<1>6. QED
  BY <1>3, <1>4, <1>5

LEMMA DeafKept ==
    ASSUME CacheTypeOK, Deaf, [Next]_vars
    PROVE  Deaf'
<1>1. CASE UNCHANGED vars
  BY <1>1 DEF vars, Deaf
<1>2. CASE Tick
  BY <1>2 DEF Tick, Deaf
<1>3. ASSUME NEW c \in Child, Request(c)
      PROVE  Deaf'
  <2>1. \A d \in Child \ {c} : job'[d] = job[d] /\ pc'[d] = pc[d]
    BY <1>3, RequestFrames DEF RequestFrame, CacheTypeOK
  <2>2. QED
    BY <1>3, <2>1, DeafStep DEF Deaf
<1>4. ASSUME NEW c \in Child, Collection(c)
      PROVE  Deaf'
  <2>1. /\ pc[c] \in {"scan", "unstick", "read", "collect", "flush"}
        /\ \A d \in Child : job'[d].deaf = job[d].deaf /\ (d # c => pc'[d] = pc[d])
    BY <1>4, CollectionFrames DEF CollectionFrame, CacheTypeOK
  <2>2. QED
    BY <2>1 DEF Deaf
<1>5. ASSUME NEW c \in Child, Loop(c)
      PROVE  Deaf'
  <2>1. /\ pc[c] = "none" /\ (job'[c].deaf => job[c].deaf)
        /\ \A d \in Child \ {c} : job'[d] = job[d] /\ pc'[d] = pc[d]
    BY <1>5, LoopFrames DEF LoopFrame, CacheTypeOK
  <2>2. QED
    BY <2>1 DEF Deaf
<1>6. ASSUME NEW pid, ReapFrame(pid)
      PROVE  Deaf'
  BY <1>6 DEF ReapFrame, Deaf
<1>7. CASE SigChild
  BY <1>6, <1>7, ReapFrames DEF SigChild, CacheTypeOK
<1>8. CASE Forked
  BY <1>6, <1>8, ForkedFrames
<1>9. QED
  BY <1>1, <1>2, <1>3, <1>4, <1>5, <1>7, <1>8 DEF Next

---------------------------------------------------------------------------
(* Whole files                                                             *)

LEMMA FilesWholeKept ==
    ASSUME IInv, [Next]_vars, CacheTypeOK'
    PROVE  FilesWhole' /\ ServedWhole'
<1> USE DEF IInv
<1>0. /\ Name = {"doc", "backup", "lock"} /\ None \notin Child
      /\ Early = {"none"} \cup (Served \ {"discard", "note"})
  BY HttpdAssumption DEF Name, Early
<1>1. CASE UNCHANGED vars
  BY <1>1 DEF vars, world, cacheVars, FilesWhole, ServedWhole
<1>2. CASE Tick
  BY <1>2 DEF Tick, cacheVars, FilesWhole, ServedWhole
<1>3. ASSUME NEW c \in Child, Request(c), ~stolen'
      PROVE  FilesWhole' /\ ServedWhole'
  <2>1. /\ RequestFrame(c) /\ LockStep(c) /\ ~stolen
        /\ NameStep(c, "doc") /\ NameStep(c, "backup")
    BY <1>3, RequestFrames, RequestFiles
  <2>2. /\ \A d \in Child \ {c} : job'[d] = job[d] /\ pc'[d] = pc[d]
        /\ pc[c] \in Served
        /\ job'[c].got \in {None, job[c].got, disk["doc"]}
    BY <2>1 DEF RequestFrame, CacheTypeOK
  <2>3. \A d \in Child : pc[d] \notin Early => pc'[d] \notin Early
    <3>1. pc[c] \in {"discard", "note"} => pc'[c] \notin Early
      <4>1. CASE pc[c] = "discard"
        <5>1. TimedOut(c) => pc'[c] \notin Early
          BY LeaveType DEF TimedOut, Early, Served
        <5>2. Discard(c) => pc'[c] \notin Early
          BY DEF Discard, Go, CacheTypeOK, Early
        <5>3. QED
          BY <1>3, <4>1, <5>1, <5>2
             DEF Request, PipeIgnored, At, Locked, Break, Stat, Info, Relock, Create, Backup,
                 Found, Sent,
                 ClientGone, NotModified, Document, Junk, Body, Mismatch, Created, Note, Reread,
                 Restore, Unlock, Renote, Resend, Cancel
      <4>2. CASE pc[c] = "note"
        <5>1. TimedOut(c) => pc'[c] \notin Early
          BY LeaveType DEF TimedOut, Early, Served
        <5>2. Note(c) => pc'[c] \notin Early
          BY LeaveType, StatusType DEF Note, Early, Served
        <5>3. QED
          BY <1>3, <4>2, <5>1, <5>2
             DEF Request, PipeIgnored, At, Locked, Break, Stat, Info, Relock, Create, Backup,
                 Found, Sent,
                 ClientGone, NotModified, Document, Junk, Body, Mismatch, Created, Discard, Reread,
                 Restore, Unlock, Renote, Resend, Cancel
      <4>3. QED
        BY <4>1, <4>2
    <3>2. QED
      BY <1>0, <2>2, <3>1
  <2>5. ASSUME NEW n \in {"doc", "backup"}, disk'[n] # None
        PROVE  disk'[n].whole /\ \A d \in Child : disk'[n].by = d => pc'[d] \notin Early
    <3>1. CASE \E m \in {"doc", "backup"} :
                  /\ disk[m] # None
                  /\ disk'[n].by = disk[m].by /\ disk'[n].whole = disk[m].whole
      BY <2>1, <2>3, <3>1 DEF FilesWhole
    <3>2. CASE /\ pc[c] = "created" /\ pc'[c] \notin Early
               /\ stolen' \/ disk["lock"].by = c
               /\ disk["lock"] # None /\ disk'[n] = disk["lock"]
      BY <1>3, <2>1, <3>2 DEF FilesWhole
    <3>3. ~(pc[c] = "body" /\ disk[n] # None /\ disk[n].by = c)
      BY <1>0, <2>1 DEF FilesWhole, Served
    <3>4. QED
      BY <2>1, <2>5, <3>1, <3>2, <3>3 DEF NameStep
  <2>6. ASSUME NEW d \in Child, pc'[d] = "created", disk'["lock"] # None, disk'["lock"].by = d
        PROVE  disk'["lock"].whole
    <3>1. CASE d = c
      <4>1. disk'["lock"] = Copy(c, pc'[c] = "created")
        BY <2>1, <2>6, <3>1 DEF LockStep
      <4>2. Copy(c, pc'[c] = "created").whole = (pc'[c] = "created")
        BY DEF Copy
      <4>3. QED
        BY <2>6, <3>1, <4>1, <4>2, Zenon
    <3>2. CASE d # c
      <4>1. pc[d] = "created"
        BY <2>2, <2>6, <3>2
      <4>2. disk'["lock"] = disk["lock"]
        BY <2>1, <2>6, <3>2 DEF LockStep, NewFile, Copy
      <4>3. QED
        BY <2>1, <2>6, <4>1, <4>2 DEF FilesWhole
    <3>3. QED
      BY <3>1, <3>2
  <2>7. \A d \in Child : job'[d].got # None => job'[d].got.whole
    BY <2>1, <2>2 DEF FilesWhole, ServedWhole
  <2>8. QED
    BY <2>5, <2>6, <2>7 DEF FilesWhole, ServedWhole
<1>4. ASSUME NEW c \in Child, Collection(c), ~stolen'
      PROVE  FilesWhole' /\ ServedWhole'
  <2>1. CollectionFrame(c)
    BY <1>4, CollectionFrames
  <2>2. ~stolen /\ (\A d \in Child : job'[d].got = job[d].got)
        /\ \A n \in Name : disk'[n] \in {None, disk[n]}
    BY <1>4, <2>1 DEF CollectionFrame
  <2>3. /\ \A d \in Child \ {c} : pc'[d] = pc[d]
        /\ pc'[c] \in {"unstick", "read", "collect", "flush", "gone"}
    BY <2>1 DEF CollectionFrame, CacheTypeOK
  <2>4. \A d \in Child : (pc'[d] \in Early => pc[d] \in Early)
                         /\ (pc'[d] = "created" => pc[d] = "created")
    BY <1>0, <2>3 DEF Served
  <2>5. QED
    BY <1>0, <2>2, <2>4 DEF FilesWhole, ServedWhole
<1>5. ASSUME NEW c \in Child, Loop(c)
      PROVE  FilesWhole' /\ ServedWhole'
  <2>1. LoopFrame(c)
    BY <1>5, LoopFrames
  <2>2. /\ disk' = disk /\ stolen' = stolen /\ pc[c] = "none"
        /\ \A d \in Child \ {c} : pc'[d] = pc[d] /\ job'[d] = job[d]
        /\ pc'[c] # "created" /\ job'[c].got \in {None, job[c].got}
    BY <2>1 DEF LoopFrame, CacheTypeOK, world, cacheVars
  <2>3. QED
    BY <1>0, <2>2 DEF FilesWhole, ServedWhole
<1>6. ASSUME NEW pid, ReapFrame(pid)
      PROVE  FilesWhole' /\ ServedWhole'
  <2>1. /\ disk' = disk /\ stolen' = stolen
        /\ \A d \in Child : \/ pc'[d] = pc[d] /\ job'[d] = job[d]
                            \/ pc[d] = "gone" /\ pc'[d] = "reaped" /\ job'[d].got = None
    BY <1>6 DEF ReapFrame, cacheVars
  <2>2. \A d \in Child : (pc'[d] \in Early => pc[d] \in Early)
                         /\ (pc'[d] = "created" => pc[d] = "created")
    BY <1>0, <2>1 DEF Served
  <2>3. QED
    BY <1>0, <2>1, <2>2 DEF FilesWhole, ServedWhole
<1>7. CASE SigChild
  BY <1>6, <1>7, ReapFrames DEF SigChild, CacheTypeOK
<1>8. CASE Forked
  BY <1>6, <1>8, ForkedFrames
<1>9. CASE stolen'
  BY <1>9 DEF FilesWhole, ServedWhole
<1>10. QED
  BY <1>1, <1>2, <1>3, <1>4, <1>5, <1>7, <1>8, <1>9 DEF Next

---------------------------------------------------------------------------
(* The collector                                                           *)

LEMMA CollectorKept ==
    ASSUME IInv, [Next]_vars, CacheTypeOK'
    PROVE  OneCollector' /\ CollectorKnown'
<1> USE DEF IInv
<1>0. None \notin Child
  BY HttpdAssumption
<1>1. CASE UNCHANGED vars
  BY <1>1 DEF vars, daemonVars, OneCollector, CollectorKnown, Collecting
<1>2. CASE Tick
  BY <1>2 DEF Tick, daemonVars, OneCollector, CollectorKnown, Collecting
<1>3. ASSUME NEW c \in Child, Request(c), UNCHANGED daemonVars
      PROVE  OneCollector' /\ CollectorKnown'
  <2>1. RequestFrame(c)
    BY <1>3, RequestFrames
  <2>2. /\ \A d \in Child \ {c} : job'[d] = job[d] /\ pc'[d] = pc[d]
        /\ pc[c] \in Served /\ pc'[c] \in Served \cup {"scan", "gone", "reaped"}
        /\ pc'[c] = "scan" => job[c].gc
        /\ pc'[c] \in Served => job'[c].gc = job[c].gc
    BY <2>1 DEF RequestFrame, CacheTypeOK
  <2>3. QED
    BY <1>3, <2>2 DEF daemonVars, OneCollector, CollectorKnown, Collecting, Served
<1>4. ASSUME NEW c \in Child, Collection(c), UNCHANGED daemonVars
      PROVE  OneCollector' /\ CollectorKnown'
  <2>1. CollectionFrame(c)
    BY <1>4, CollectionFrames
  <2>2. /\ \A d \in Child \ {c} : pc'[d] = pc[d]
        /\ pc[c] \in {"scan", "unstick", "read", "collect", "flush"}
        /\ pc'[c] \in {"unstick", "read", "collect", "flush", "gone"}
    BY <2>1 DEF CollectionFrame, CacheTypeOK
  <2>3. \A d \in Child : job'[d].gc = job[d].gc
    BY <2>1 DEF CollectionFrame
  <2>4. QED
    BY <1>4, <2>2, <2>3 DEF daemonVars, OneCollector, CollectorKnown, Collecting, Served
<1>5. ASSUME NEW c \in Child, Loop(c)
      PROVE  OneCollector' /\ CollectorKnown'
  <2>1. LoopFrame(c)
    BY <1>5, LoopFrames
  <2>2. /\ \A d \in Child \ {c} : pc'[d] = pc[d] /\ job'[d] = job[d]
        /\ pc'[c] \in {"locked", "scan", "reaped"}
        /\ gc_pid' = gc_pid /\ forked = None
        /\ forked' # None => forked'.pid = c /\ gc_pid = None
        /\ pc'[c] = "scan" \/ (pc'[c] = "locked" /\ job'[c].gc) => forked' # None
    BY <2>1 DEF LoopFrame, CacheTypeOK
  <2>3. QED
    BY <1>0, <2>2 DEF OneCollector, CollectorKnown, Collecting, Served
<1>6. ASSUME NEW pid \in Child \cup {None}, ReapFrame(pid),
             \/ pid = gc_pid /\ forked' = forked
             \/ forked # None /\ pid = forked.pid /\ forked' = None
      PROVE  OneCollector' /\ CollectorKnown'
  <2>1. /\ \A d \in Child : \/ pc'[d] = pc[d] /\ job'[d] = job[d]
                            \/ pc[d] = "gone" /\ pc'[d] = "reaped"
        /\ \/ gc_pid' = pid
           \/ gc_pid' = None /\ pid \in Child /\ pc[pid] = "gone"
    BY <1>6 DEF ReapFrame
  <2>2. OneCollector'
    BY <1>6, <2>1 DEF OneCollector
  <2>3. ASSUME NEW d \in Child, Collecting(d)' \/ (job'[d].gc /\ pc'[d] \in Served)
        PROVE  gc_pid' = d \/ (forked' # None /\ forked'.pid = d)
    <3>1. pc'[d] = pc[d] /\ job'[d] = job[d] /\ pc[d] # "gone"
      BY <2>1, <2>3 DEF Collecting, Served
    <3>2. gc_pid = d \/ (forked # None /\ forked.pid = d)
      BY <2>3, <3>1 DEF Collecting, CollectorKnown
    <3>3. QED
      BY <1>0, <1>6, <2>1, <3>1, <3>2 DEF OneCollector
  <2>4. QED
    BY <2>2, <2>3 DEF CollectorKnown
<1>7. CASE SigChild
  BY <1>6, <1>7, ReapFrames DEF SigChild, CacheTypeOK
<1>8. CASE Forked
  BY <1>6, <1>8, ForkedFrames DEF Forked, CacheTypeOK
<1>9. QED
  BY <1>1, <1>2, <1>3, <1>4, <1>5, <1>7, <1>8 DEF Next

---------------------------------------------------------------------------
(* The daemon's account of the cache                                       *)

Some(s) == CHOOSE x \in s : TRUE

\* One step of the recursion of MapThenSumSet over the children in S.
SumStep(S, f) ==
    [s \in SUBSET S |-> IF s = {} THEN 0 ELSE Kilos(Some(s)) + f[s \ {Some(s)}]]

LEMMA SumIs ==
    ASSUME NEW S
    PROVE  MapThenSumSet(Kilos, S) = (CHOOSE f : f = SumStep(S, f))[S]
BY Zenon DEF MapThenSumSet, MapThenFoldSet, SumStep, Some

\* What children that have ended have stored, taken together, is not less than nothing.
LEMMA SumType ==
    ASSUME NEW S, IsFiniteSet(S), \A c \in S : Kilos(c) \in Nat
    PROVE  MapThenSumSet(Kilos, S) \in Nat
<1> DEFINE c == [R \in SUBSET S |-> Some(R)]
<1>1. \A R \in SUBSET S : R # {} => c[R] = Some(R) /\ c[R] \in R
  BY DEF Some
<1>2. \E f : f = SumStep(S, f)
  <2> DEFINE G == [x \in Nat \X S |-> Kilos(x[2]) + x[1]]
  <2>1. G \in [Nat \X S -> Nat]
    OBVIOUS
  <2>2. ASSUME NEW n \in Nat, NEW d \in S
        PROVE  G[<<n, d>>] = Kilos(d) + n
    OBVIOUS
  <2> HIDE DEF c, G
  <2>3. PICK f : FoldOf(f, S, c, Nat, 0, G)
    <3>1. Chooses(c, S)
      BY <1>1 DEF Chooses
    <3>2. 0 \in Nat
      OBVIOUS
    <3>3. QED
      BY <2>1, <3>1, <3>2, FoldExists, Zenon
  <2>4. ASSUME NEW R \in SUBSET S
        PROVE  f[R] = SumStep(S, f)[R]
    <3>1. CASE R = {}
      BY <2>3, <3>1, Zenon DEF SumStep, FoldOf
    <3>2. CASE R # {}
      <4> DEFINE rest == f[R \ {c[R]}]
      <4>1. c[R] = Some(R) /\ Some(R) \in S /\ rest \in Nat
        BY <1>1, <2>3, <3>2 DEF FoldOf
      <4>2. f[R] = G[<<rest, c[R]>>]
        BY <2>3, <3>2 DEF FoldOf
      <4>3. G[<<rest, c[R]>>] = Kilos(Some(R)) + rest
        <5> HIDE DEF rest
        <5>1. QED
          BY <2>2, <4>1
      <4>4. SumStep(S, f)[R] = Kilos(Some(R)) + rest
        BY <3>2, <4>1 DEF SumStep
      <4>5. QED
        BY <4>2, <4>3, <4>4
    <3>3. QED
      BY <3>1, <3>2
  <2>5. f = SumStep(S, f)
    BY <2>3, <2>4, Zenon DEF SumStep, FoldOf
  <2>6. QED
    BY <2>5
<1> DEFINE f == CHOOSE f : f = SumStep(S, f)
           T == {R \in SUBSET S : f[R] \in Nat}
<1>3. f = SumStep(S, f)
  BY <1>2
<1> HIDE DEF f
<1>4. {} \in T
  BY <1>3 DEF SumStep
<1>5. ASSUME NEW R \in SUBSET S, R # {}, R \ {c[R]} \in T
      PROVE  R \in T
  <2> DEFINE rest == f[R \ {Some(R)}]
  <2>1. c[R] = Some(R) /\ Some(R) \in S
    BY <1>1, <1>5, Zenon
  <2>2. rest \in Nat
    BY <1>5, <2>1
  <2>3. SumStep(S, f)[R] = Kilos(Some(R)) + rest
    BY <1>5 DEF SumStep
  <2> HIDE DEF rest
  <2>4. f[R] = Kilos(Some(R)) + rest
    BY <1>3, <2>3, Zenon
  <2>5. QED
    BY <2>1, <2>2, <2>4
<1>6. SUBSET S \subseteq T
  <2> HIDE DEF c, T
  <2>1. Chooses(c, S) /\ PassedOn(T, c, S)
    BY <1>1, <1>4, <1>5 DEF Chooses, PassedOn
  <2>2. QED
    BY <2>1, SubsetInduction
<1>7. QED
  BY <1>6, SumIs DEF f

\* Whatever a collection reports, what is left is not less than nothing.
LEMMA CorrectedType ==
    ASSUME report \in [used : Nat, freed : Nat] \cup {None}, NEW kilos \in Nat
    PROVE  Corrected(kilos) \in Nat
<1>1. CASE report = None
  BY <1>1 DEF Corrected
<1>2. CASE report # None
  <2>1. report.used \in Nat /\ report.freed \in Nat
    BY <1>2
  <2>2. report.freed \div 1024 \in Nat /\ report.used \div 1024 \in Nat
        /\ report.used \div 1140 \in Nat /\ report.used \div 930 \in Nat
    BY <2>1
  <2> DEFINE less == kilos - report.freed \div 1024
  <2>3. less \in Int
    BY <2>2
  <2>4. Corrected(kilos) = report.used \div 1024 \/ (Corrected(kilos) = less /\ ~(less < 0))
    BY <1>2 DEF Corrected
  <2> HIDE DEF less
  <2>5. QED
    BY <2>2, <2>3, <2>4
<1>3. QED
  BY <1>1, <1>2

LEMMA ReapAccount ==
    ASSUME CacheTypeOK, AccountOK, NEW pid, Reap(pid)
    PROVE  usage' \in Nat
<1>1. ASSUME NEW S \in SUBSET Child
      PROVE  MapThenSumSet(Kilos, S) \in Nat
  <2>1. ASSUME NEW c \in Child
        PROVE  Kilos(c) \in Nat
    <3>1. job[c].status \in 0 .. 255
      BY DEF CacheTypeOK, Job
    <3>2. QED
      BY <3>1 DEF Kilos, HTExitStatusToKilos
  <2>2. IsFiniteSet(S)
    BY HttpdAssumption, FS_Subset
  <2>3. QED
    BY <2>1, <2>2, SumType, Zenon
<1>2. Gone \in SUBSET Child
  BY DEF Gone
<1>3. PICK early \in SUBSET (Gone \ {pid}) :
        usage' = IF pid \in Gone
                 THEN Corrected(usage + MapThenSumSet(Kilos, early))
                      + MapThenSumSet(Kilos, Gone \ early)
                 ELSE usage + MapThenSumSet(Kilos, Gone)
  BY Zenon DEF Reap
<1>4. early \in SUBSET Child /\ Gone \ early \in SUBSET Child
  BY <1>2
<1> DEFINE a == MapThenSumSet(Kilos, early)
           b == MapThenSumSet(Kilos, Gone \ early)
           d == MapThenSumSet(Kilos, Gone)
<1>5. a \in Nat /\ b \in Nat /\ d \in Nat
  BY <1>1, <1>2, <1>4
<1>6. usage' = IF pid \in Gone THEN Corrected(usage + a) + b ELSE usage + d
  BY <1>3
<1> HIDE DEF a, b, d
<1>7. Corrected(usage + a) \in Nat
  <2>1. usage + a \in Nat
    BY <1>5 DEF AccountOK
  <2>2. QED
    BY <2>1, CorrectedType DEF AccountOK
<1>8. QED
  BY <1>5, <1>6, <1>7 DEF AccountOK

LEMMA NamesFinite == IsFiniteSet({"doc", "backup"}) /\ IsFiniteSet({"doc", "backup", "lock"})
<1>1. IsFiniteSet({"doc"})
  BY FS_Singleton
<1>2. IsFiniteSet({"doc"} \cup {"backup"})
  BY <1>1, FS_AddElement
<1>3. IsFiniteSet(({"doc"} \cup {"backup"}) \cup {"lock"})
  BY <1>2, FS_AddElement
<1>4. /\ {"doc"} \cup {"backup"} = {"doc", "backup"}
      /\ ({"doc"} \cup {"backup"}) \cup {"lock"} = {"doc", "backup", "lock"}
  OBVIOUS
<1>5. QED
  BY <1>2, <1>3, <1>4

LEMMA FlushReports ==
    ASSUME CacheTypeOK, NEW c \in Child, Flush(c)
    PROVE  report' \in [used : Nat, freed : Nat]
<1>1. sweep[c].files \in SUBSET {"doc", "backup"} /\ sweep[c].kill \in SUBSET {"doc", "backup"}
  BY DEF CacheTypeOK, Findings
<1>2. IsFiniteSet({"doc", "backup"})
  BY NamesFinite
<1>3. Cardinality(sweep[c].files) \in Nat /\ Cardinality(sweep[c].kill) \in Nat
  BY <1>1, <1>2, FS_Subset, FS_CardinalityType
<1> DEFINE used == Bytes * Cardinality(sweep[c].files)
           freed == Bytes * Cardinality(sweep[c].kill)
<1>4. used \in Nat /\ freed \in Nat
  BY <1>3, HttpdAssumption
<1>5. report' = [used |-> used, freed |-> freed]
  BY DEF Flush
<1> HIDE DEF used, freed
<1>6. QED
  BY <1>4, <1>5

LEMMA AccountAtInit == Init => AccountOK
<1> SUFFICES ASSUME Init PROVE AccountOK
  OBVIOUS
<1>1. PICK files \in SUBSET {"doc", "backup", "lock"} :
        CollectorInit(Cardinality(files \ {"lock"}))
  BY Zenon DEF Init
<1>2. IsFiniteSet({"doc", "backup", "lock"})
  BY NamesFinite
<1>3. Cardinality(files \ {"lock"}) \in Nat
  BY <1>2, FS_Subset, FS_CardinalityType, Zenon
<1> DEFINE n == Cardinality(files \ {"lock"})
<1>4. report \in {None, [used |-> Bytes * n, freed |-> 0]}
  BY <1>1 DEF CollectorInit
<1>5. report \in [used : Nat, freed : Nat] \cup {None}
  <2> HIDE DEF n
  <2>1. Bytes * n \in Nat
    BY <1>3, HttpdAssumption DEF n
  <2>2. QED
    BY <1>4, <2>1
<1>6. usage \in Nat
  BY <1>5, CorrectedType DEF Init, DaemonInit
<1>7. QED
  BY <1>5, <1>6 DEF AccountOK

\* The daemon's account is not affected by anything but the ends of children and what
\* collections report.
LEMMA AccountKept ==
    ASSUME CacheTypeOK, AccountOK, [Next]_vars
    PROVE  AccountOK'
<1>1. CASE UNCHANGED vars
  BY <1>1 DEF vars, collectorVars, daemonVars, AccountOK
<1>2. CASE Tick
  BY <1>2 DEF Tick, collectorVars, daemonVars, AccountOK
<1>3. ASSUME NEW c \in Child, Request(c), UNCHANGED <<collectorVars, daemonVars>>
      PROVE  AccountOK'
  BY <1>3 DEF collectorVars, daemonVars, AccountOK
<1>4. ASSUME NEW c \in Child, Collection(c), UNCHANGED daemonVars
      PROVE  AccountOK'
  <2>1. CASE Flush(c)
    <3>1. report' \in [used : Nat, freed : Nat] \cup {None}
      BY <2>1, FlushReports
    <3>2. QED
      BY <1>4, <3>1 DEF daemonVars, AccountOK
  <2>2. CASE Scan(c) \/ Unstick(c) \/ ReadInfo(c) \/ Collect(c) \/ Sweep(c)
    <3>1. report' = report
      BY <2>2, Zenon DEF Scan, Unstick, ReadInfo, Collect, Sweep
    <3>2. QED
      BY <1>4, <3>1 DEF daemonVars, AccountOK
  <2>3. QED
    BY <1>4, <2>1, <2>2 DEF Collection
<1>5. ASSUME NEW c \in Child, Loop(c)
      PROVE  AccountOK'
  <2>1. report' = report /\ usage' = usage
    BY <1>5, Zenon DEF Loop, Accept, Daily, ForkFails, collectorVars, daemonVars
  <2>2. QED
    BY <2>1 DEF AccountOK
<1>6. ASSUME NEW pid, Reap(pid)
      PROVE  AccountOK'
  <2>1. report' = report
    BY <1>6 DEF Reap, collectorVars
  <2>2. QED
    BY <1>6, <2>1, ReapAccount DEF AccountOK
<1>7. CASE SigChild
  BY <1>6, <1>7 DEF SigChild
<1>8. CASE Forked
  <2>1. CASE forked.daily
    BY <1>8, <2>1 DEF Forked, collectorVars, AccountOK
  <2>2. CASE ~forked.daily
    BY <1>6, <1>8, <2>2 DEF Forked
  <2>3. QED
    BY <2>1, <2>2
<1>9. QED
  BY <1>1, <1>2, <1>3, <1>4, <1>5, <1>7, <1>8 DEF Next

---------------------------------------------------------------------------
(* The theorems                                                            *)

LEMMA InvariantAtInit == Init => IInv
<1> SUFFICES ASSUME Init PROVE IInv
  OBVIOUS
<1>1. CacheTypeOK
  BY TypesAtInit
<1>2. /\ \A c \in Child : /\ pc[c] = "none" /\ job[c].gc = FALSE /\ job[c].got = None
                           /\ job[c].deaf = FALSE
      /\ forked = None /\ gc_pid = None
  BY DEF Init, Blank, DaemonInit
<1>3. /\ \A n \in {"doc", "backup", "lock"} : disk[n] # None => disk[n].by = Nobody
      /\ \A n \in {"doc", "backup"} : disk[n] # None => disk[n].whole
      /\ Nobody \notin Child
  <2>1. PICK life \in Lifetimes, files \in SUBSET {"doc", "backup", "lock"} :
           disk = [doc    |-> IF "doc" \in files THEN Left(2, life) ELSE None,
                   backup |-> IF "backup" \in files THEN Left(1, life) ELSE None,
                   lock   |-> IF "lock" \in files THEN OldLock ELSE None]
    BY DEF Init
  <2>2. /\ \A v : Left(v, life).by = Nobody /\ Left(v, life).whole
        /\ OldLock.by = Nobody
    BY DEF Left, OldLock, NewFile
  <2>3. QED
    BY <2>1, <2>2, HttpdAssumption
<1>4. LocksOld
  BY <1>2, <1>3 DEF LocksOld, Served
<1>5. FilesWhole
  BY <1>2, <1>3 DEF FilesWhole
<1>6. LockIsOwn /\ ServedWhole
  BY <1>2 DEF LockIsOwn, ServedWhole, Filling
<1>7. OneCollector /\ CollectorKnown
  BY <1>2 DEF OneCollector, CollectorKnown, Collecting, Served
<1>8. AccountOK /\ Deaf
  BY <1>2, AccountAtInit DEF Deaf
<1>9. QED
  BY <1>1, <1>4, <1>5, <1>6, <1>7, <1>8 DEF IInv

\* Locks are only broken when they are old, be it that their children have gone or that they
\* are deaf to their alarm; copies that are put in place are whole and no longer written, and
\* the daemon lets nobody collect while it knows of a collector.
THEOREM HttpdInvariance == Spec => []IInv
<1>1. Init => IInv
  BY InvariantAtInit
<1>2. IInv /\ [Next]_vars => IInv'
  <2> SUFFICES ASSUME IInv, [Next]_vars PROVE IInv'
    OBVIOUS
  <2>1. CacheTypeOK'
    BY TypesKept DEF IInv
  <2>2. LocksOld' /\ LockIsOwn'
    BY <2>1, LocksOldKept, LockIsOwnKept
  <2>3. FilesWhole' /\ ServedWhole' /\ OneCollector' /\ CollectorKnown'
    BY <2>1, FilesWholeKept, CollectorKept
  <2>4. AccountOK' /\ Deaf'
    BY AccountKept, DeafKept DEF IInv
  <2>5. QED
    BY <2>1, <2>2, <2>3, <2>4 DEF IInv
<1>3. QED
  BY <1>1, <1>2, PTL DEF Spec

\* A child that fills the cache (HTCache.c) still has its lock until its alarm is overdue, if
\* no two children have found the same old lock, and none that is deaf to its alarm
\* (HTDaemon.c:582-605, 663) has ended the lock of another.
THEOREM LockTheorem == Spec => []LockIsOwn
<1>1. IInv => LockIsOwn
  BY DEF IInv
<1>2. QED
  BY <1>1, HttpdInvariance, PTL

\* What httpd sends from the cache has come from the server to its end, if no two children
\* have found the same old lock, and none that is deaf to its alarm has ended the lock of
\* another; one that is deaf may go on as long as it likes.
THEOREM WholeTheorem == Spec => []ServedWhole
<1>1. IInv => ServedWhole
  BY DEF IInv
<1>2. QED
  BY <1>1, HttpdInvariance, PTL

\* There is one collector of garbage at a time, and the daemon (HTDaemon.c) knows its number;
\* and however it counts the ends of children and corrects its count by reports, it never
\* takes the cache to hold less than nothing.
THEOREM DaemonTheorem == Spec => []DaemonKnows
<1>1. IInv => DaemonKnows
  BY DEF IInv, AccountOK, DaemonKnows
<1>2. QED
  BY <1>1, HttpdInvariance, PTL

---------------------------------------------------------------------------
(* The steps, as far as the versions and the dates of documents go         *)

\* What a child has been told, and what it sends, stay.
SameAnswer(c) ==
    /\ job'[c].now = job[c].now /\ job'[c].forced = job[c].forced
    /\ job'[c].got = job[c].got /\ job'[c].same = job[c].same

SameTold(c) ==
    /\ SameAnswer(c) /\ job'[c].v = job[c].v /\ job'[c].ex = job[c].ex
    /\ job'[c].ims = job[c].ims /\ job'[c].misled = job[c].misled

SameNames == disk'["doc"] = disk["doc"] /\ disk'["backup"] = disk["backup"]

\* Children that know nothing of the document.
Off == {"locked", "scan", "unstick", "read", "gone", "reaped"}

Cleared(c) ==
    /\ pc'[c] \in Off /\ pc[c] \notin {"collect", "flush"}
    /\ \/ SameTold(c) /\ pc'[c] # "locked"
       \/ /\ job'[c].got = None /\ ~job'[c].same /\ job'[c].ims = 0
          /\ job'[c].forced => kind[c] = "bypass"

\* A step that changes neither files nor entries, and after which children are where they
\* were, or know nothing of the document.
Still ==
    /\ SameNames /\ info' = info
    /\ clock \in Nat /\ clock' \in Nat /\ clock <= clock' /\ origin' \in {origin, clock'}
    /\ \A d \in Child : \/ pc'[d] = pc[d] /\ SameTold(d) /\ sweep'[d] = sweep[d]
                        \/ Cleared(d)

\* A step that changes what one child knows.
Alone(c) ==
    /\ UNCHANGED <<world, sweep>>
    /\ \A d \in Child \ {c} : pc'[d] = pc[d] /\ SameTold(d)

\* The steps of requests one by one.
QuietStep(c) ==
    /\ SameNames /\ info' = info /\ SameTold(c)
    /\ \/ pc[c] \in {"locked", "break"} /\ pc'[c] \in {"break", "stat", "sending"}
       \/ pc[c] = "stat" /\ pc'[c] = "info" /\ disk["doc"] # None
       \/ pc[c] = "stat" /\ pc'[c] = "create" /\ disk["doc"] = None
       \/ pc[c] = "info" /\ pc'[c] = "found" /\ Fresh(c)
       \/ pc[c] = "relock" /\ pc'[c] \in {"backup", "sending"}
       \/ pc[c] = "create" /\ pc'[c] \in {"ask", "sending"}
       \/ pc[c] = "ask" /\ pc'[c] = "cancel"
       \/ pc[c] = "body" /\ pc'[c] \in {"created", "cancel"}
       \/ pc[c] = "unlock" /\ pc'[c] = "renote"

InfoStep(c) ==
    /\ SameNames /\ info' = info /\ SameAnswer(c) /\ ~Fresh(c)
    /\ pc[c] = "info" /\ pc'[c] = "relock"
    /\ job'[c].misled = (info # None /\ info.lm = 0)
    /\ ~job'[c].misled => job'[c].ims = IF info = None THEN 0 ELSE info.lm

FoundStep(c) ==
    /\ SameNames /\ info' = info
    /\ pc[c] = "found" /\ pc'[c] = "sending"
    /\ job'[c].got = disk["doc"] /\ job'[c].now = job[c].now
    /\ job'[c].same = job[c].same /\ job'[c].forced = job[c].forced

ResendStep(c) ==
    /\ SameNames /\ info' = info
    /\ pc[c] = "resend" /\ pc'[c] = "sending"
    /\ job'[c].got = disk["doc"] /\ job'[c].same /\ job'[c].forced = job[c].forced
    /\ job'[c].v = job[c].v /\ job'[c].misled = job[c].misled

NotModifiedStep(c) ==
    /\ SameNames /\ info' = info /\ SameAnswer(c)
    /\ pc[c] = "ask" /\ pc'[c] = "reread" /\ job[c].ims # 0 /\ origin <= job[c].ims
    /\ job'[c].v = origin /\ job'[c].misled = job[c].misled
    /\ job'[c].ex = 0 \/ job'[c].ex >= clock

DocumentStep(c) ==
    /\ SameNames /\ info' = info /\ SameAnswer(c)
    /\ pc[c] = "ask" /\ pc'[c] = "body"
    /\ job'[c].v = origin /\ job'[c].ex >= clock

BackupStep(c) ==
    /\ disk' = Rename(disk, "doc", "backup") /\ info' = info /\ SameTold(c)
    /\ pc[c] = "backup" /\ pc'[c] = "ask"

CreatedStep(c) ==
    /\ Holds(c) /\ disk' = Rename(disk, "lock", "doc") /\ info' = info /\ SameTold(c)
    /\ pc[c] = "created" /\ pc'[c] \in {"discard", "note"}

DiscardStep(c) ==
    /\ disk' = Unlink(disk, "backup") /\ info' = info /\ SameTold(c)
    /\ pc[c] = "discard" /\ pc'[c] = "note"

NoteStep(c) ==
    /\ SameNames /\ Enter(job[c].ex, job[c].v)
    /\ pc[c] = "note" /\ Cleared(c)

RereadStep(c) ==
    /\ SameNames /\ info' = info /\ SameAnswer(c)
    /\ pc[c] = "reread" /\ pc'[c] = "restore"
    /\ job'[c].v = job[c].v /\ job'[c].ex = job[c].ex /\ job'[c].misled = job[c].misled
    /\ job'[c].ims = IF info = None THEN 0 ELSE info.lm

RestoreStep(c) ==
    /\ disk' = Rename(Restored(c), "backup", "doc") /\ info' = info /\ SameTold(c)
    /\ pc[c] = "restore" /\ pc'[c] = "unlock"

RenoteStep(c) ==
    /\ SameNames /\ Enter(job[c].ex, job[c].ims) /\ SameTold(c)
    /\ pc[c] = "renote" /\ pc'[c] = "resend"

RequestStep(c) ==
    \/ QuietStep(c) \/ InfoStep(c) \/ FoundStep(c) \/ ResendStep(c) \/ NotModifiedStep(c)
    \/ DocumentStep(c) \/ BackupStep(c) \/ CreatedStep(c) \/ DiscardStep(c) \/ NoteStep(c)
    \/ RereadStep(c) \/ RestoreStep(c) \/ RenoteStep(c)

\* The child has time left, or takes it.
Works(c) == ~Due(c) \/ job[c].deaf

LEMMA AloneStep ==
    ASSUME CacheTypeOK, NEW c \in Child, Request(c), UNCHANGED collectorVars
    PROVE  Alone(c)
<1>1. RequestFrame(c)
  BY RequestFrames
<1>2. QED
  BY <1>1 DEF RequestFrame, Alone, collectorVars, SameTold, SameAnswer, CacheTypeOK

\* A child that leaves is where it knows nothing.
LEMMA LeaveClears ==
    ASSUME CacheTypeOK, NEW c \in Child, NEW status \in 0 .. 255, pc[c] \in Served,
           Leave(c, status) \/ Stop(c)
    PROVE  Cleared(c)
<1>1. pc'[c] \in {"scan", "gone", "reaped"} /\ job'[c].got = None
  BY LeaveType, Zenon
<1>2. ASSUME NEW g, NEW k
      PROVE  /\ [Blank EXCEPT !.gc = g].ims = 0 /\ ~[Blank EXCEPT !.gc = g].forced
             /\ ~[Blank EXCEPT !.gc = g].same /\ ~[Blank EXCEPT !.gc = g, !.status = k].same
             /\ [Blank EXCEPT !.gc = g, !.status = k].ims = 0
             /\ ~[Blank EXCEPT !.gc = g, !.status = k].forced
  BY DEF Blank
<1>3. \/ job'[c] = [Blank EXCEPT !.gc = job[c].gc]
      \/ job'[c] = [Blank EXCEPT !.gc = job[c].gc, !.status = status]
  BY DEF Leave, Stop, CacheTypeOK
<1>4. job'[c].ims = 0 /\ ~job'[c].forced /\ ~job'[c].same
  <2>1. CASE job'[c] = [Blank EXCEPT !.gc = job[c].gc]
    BY <1>2, <2>1
  <2>2. CASE job'[c] = [Blank EXCEPT !.gc = job[c].gc, !.status = status]
    BY <1>2, <2>2
  <2>3. QED
    BY <1>3, <2>1, <2>2
<1>5. QED
  BY <1>1, <1>4 DEF Cleared, Off, Served

LEMMA StillLeaves ==
    ASSUME CacheTypeOK, NEW c \in Child, Alone(c), SameNames, info' = info, Cleared(c)
    PROVE  Still
BY HttpdAssumption DEF Alone, Still, world, CacheTypeOK, Time

LEMMA RequestSteps ==
    ASSUME CacheTypeOK, FilesWhole, ~stolen, ~stolen', NEW c \in Child, Request(c),
           UNCHANGED collectorVars
    PROVE  Alone(c) /\ (Still \/ (RequestStep(c) /\ Works(c)))
<1>1. /\ job \in [Child -> Job] /\ job[c] \in Job /\ pc = [d \in Child |-> pc[d]]
      /\ job[c].status \in 0 .. 255 /\ disk = [n \in Name |-> disk[n]]
      /\ Name = {"doc", "backup", "lock"} /\ clock \in Nat
  BY HttpdAssumption DEF CacheTypeOK, Job, Name, Time
<1>2. Alone(c)
  BY AloneStep
<1>3. ASSUME NEW status \in 0 .. 255, Leave(c, status) \/ Stop(c), pc[c] \in Served,
             SameNames, info' = info
      PROVE  Still
  BY <1>2, <1>3, LeaveClears, StillLeaves
<1>4. CASE Sent(c) \/ ClientGone(c) \/ TimedOut(c)
  <2>1. SameNames /\ info' = info /\ pc[c] \in Served
    BY <1>4 DEF Sent, ClientGone, TimedOut, At, Works, Served, SameNames, cacheVars
  <2>2. Leave(c, 0) \/ Stop(c)
    BY <1>4 DEF Sent, ClientGone, TimedOut
  <2>3. QED
    BY <1>2, <1>3, <2>1, <2>2
<1>5. CASE Cancel(c)
  <2>1. SameNames /\ info' = info /\ pc[c] \in Served /\ Leave(c, job[c].status)
    BY <1>1, <1>5 DEF Cancel, At, Works, Served, SameNames, Unlink
  <2>2. QED
    BY <1>1, <1>2, <1>3, <2>1
<1>6. CASE Note(c)
  <2>1. /\ SameNames /\ Enter(job[c].ex, job[c].v) /\ pc[c] = "note" /\ pc[c] \in Served
        /\ Leave(c, StoredStatus) /\ Works(c)
    BY <1>6 DEF Note, At, Works, SameNames, Served
  <2>2. Cleared(c)
    BY <2>1, StatusType, LeaveClears
  <2>3. QED
    BY <1>2, <2>1, <2>2 DEF NoteStep, RequestStep
<1>7. CASE Locked(c) \/ Break(c)
  <2>1. /\ SameNames /\ info' = info /\ Works(c) /\ pc[c] \in {"locked", "break"}
    BY <1>1, <1>7 DEF Locked, Break, RemoveLock, Unlink, At, Works, SameNames, cacheVars
  <2>2. pc'[c] \in {"break", "stat", "sending"} /\ SameTold(c)
    BY <1>1, <1>7 DEF Locked, Break, Go, Learn, SameTold, SameAnswer, Job
  <2>3. QED
    BY <1>2, <2>1, <2>2 DEF QuietStep, RequestStep
<1>8. CASE Stat(c) \/ Junk(c)
  <2>1. SameNames /\ info' = info /\ Works(c) /\ SameTold(c)
    BY <1>1, <1>8 DEF Stat, Junk, At, Works, SameNames, cacheVars, SameTold, SameAnswer
  <2>2. \/ pc[c] = "stat" /\ pc'[c] = "info" /\ disk["doc"] # None
        \/ pc[c] = "stat" /\ pc'[c] = "create" /\ disk["doc"] = None
        \/ pc[c] = "ask" /\ pc'[c] = "cancel"
    BY <1>1, <1>8 DEF Stat, Junk, At, Works, Go
  <2>3. QED
    BY <1>2, <2>1, <2>2 DEF QuietStep, RequestStep
<1>9. CASE Info(c)
  <2>1. SameNames /\ info' = info /\ Works(c) /\ pc[c] = "info"
    BY <1>9 DEF Info, At, Works, SameNames, cacheVars
  <2>2. CASE Fresh(c)
    <3>1. SameTold(c) /\ pc'[c] = "found"
      BY <1>1, <1>9, <2>2 DEF Info, Go, SameTold, SameAnswer
    <3>2. QED
      BY <1>2, <2>1, <2>2, <3>1 DEF QuietStep, RequestStep
  <2>3. CASE ~Fresh(c)
    <3> DEFINE ims == CASE info = None -> 0
                       [] info # None /\ info.lm = 0 -> info.lc
                       [] OTHER -> info.lm
               mis == info # None /\ info.lm = 0
    <3>1. job' = [job EXCEPT ![c] = [job[c] EXCEPT !.ims = ims, !.misled = mis]]
          /\ pc'[c] = "relock"
      BY <1>1, <1>9, <2>3, Zenon DEF Info, Go
    <3>2. ~mis => ims = IF info = None THEN 0 ELSE info.lm
      OBVIOUS
    <3> HIDE DEF ims, mis
    <3>3. SameAnswer(c) /\ job'[c].misled = mis /\ job'[c].ims = ims
      BY <1>1, <3>1 DEF SameAnswer, Job
    <3>4. QED
      BY <1>2, <2>1, <2>3, <3>1, <3>2, <3>3, Zenon DEF InfoStep, RequestStep, mis
  <2>4. QED
    BY <2>2, <2>3
<1>10. CASE Relock(c) \/ Create(c)
  <2>1. SameNames /\ info' = info /\ Works(c) /\ SameTold(c)
    BY <1>1, <1>10 DEF Relock, Create, DoLock, At, Works, SameNames, cacheVars, SameTold, SameAnswer
  <2>2. \/ pc[c] = "relock" /\ pc'[c] \in {"backup", "sending"}
        \/ pc[c] = "create" /\ pc'[c] \in {"ask", "sending"}
    BY <1>1, <1>10 DEF Relock, Create, DoLock, At, Works, Go
  <2>3. QED
    BY <1>2, <2>1, <2>2 DEF QuietStep, RequestStep
<1>11. CASE Backup(c)
  BY <1>1, <1>2, <1>11 DEF Backup, At, Works, Go, BackupStep, RequestStep, SameTold, SameAnswer
<1>12. CASE Created(c)
  BY <1>1, <1>2, <1>12 DEF Created, At, Works, Go, CreatedStep, RequestStep, SameTold, SameAnswer
<1>13. CASE Discard(c)
  BY <1>1, <1>2, <1>13 DEF Discard, At, Works, Go, DiscardStep, RequestStep, SameTold, SameAnswer
<1>14. CASE Restore(c)
  BY <1>1, <1>2, <1>14 DEF Restore, At, Works, Go, RestoreStep, RequestStep, SameTold, SameAnswer
<1>15. CASE Unlock(c)
  BY <1>1, <1>2, <1>15
     DEF Unlock, At, Works, Go, Unlink, QuietStep, RequestStep, SameTold, SameAnswer, SameNames
<1>16. CASE Renote(c)
  BY <1>1, <1>2, <1>16
     DEF Renote, At, Works, Go, RenoteStep, RequestStep, SameTold, SameAnswer, SameNames
<1>17. CASE Found(c) \/ Resend(c)
  <2>1. SameNames /\ info' = info /\ Works(c) /\ pc'[c] = "sending"
    BY <1>1, <1>17 DEF Found, Resend, At, Works, Go, SameNames, cacheVars
  <2>2. CASE Found(c)
    <3>1. pc[c] = "found" /\ job' = [job EXCEPT ![c] = [job[c] EXCEPT !.got = disk["doc"]]]
      BY <1>1, <2>2, Zenon DEF Found, At, Works, Learn
    <3>2. QED
      BY <1>1, <1>2, <2>1, <3>1 DEF FoundStep, RequestStep, Job
  <2>3. CASE Resend(c)
    <3>1. /\ pc[c] = "resend"
          /\ job' = [job EXCEPT ![c] = [job[c] EXCEPT !.got = disk["doc"], !.same = TRUE]]
      BY <1>1, <2>3, Zenon DEF Resend, At, Works
    <3>2. QED
      BY <1>1, <1>2, <2>1, <3>1 DEF ResendStep, RequestStep, Job
  <2>4. QED
    BY <1>17, <2>2, <2>3
<1>18. CASE NotModified(c) \/ Document(c)
  <2>1. SameNames /\ info' = info /\ Works(c) /\ pc[c] = "ask"
    BY <1>18 DEF NotModified, Document, At, Works, SameNames, cacheVars
  <2>2. ASSUME NEW x, job' = [job EXCEPT ![c] = [job[c] EXCEPT !.v = origin, !.ex = x]]
        PROVE  /\ SameAnswer(c) /\ job'[c].v = origin /\ job'[c].ex = x
               /\ job'[c].misled = job[c].misled
    BY <1>1, <2>2 DEF SameAnswer, Job
  <2>3. \A life \in Lifetimes : clock + life >= clock
    BY <1>1, HttpdAssumption
  <2>4. CASE Document(c)
    <3>1. PICK life \in Lifetimes :
             /\ pc'[c] = "body"
             /\ job' = [job EXCEPT ![c] = [job[c] EXCEPT !.v = origin, !.ex = clock + life]]
      BY <1>1, <2>4, Zenon DEF Document, Go
    <3>2. QED
      BY <1>2, <2>1, <2>2, <2>3, <3>1, Zenon DEF DocumentStep, RequestStep
  <2>5. CASE NotModified(c)
    <3> DEFINE Told(x) == [job EXCEPT ![c] = [job[c] EXCEPT !.v = origin, !.ex = x]]
    <3>1. PICK life \in Lifetimes, given \in BOOLEAN :
             IF given /\ ~WorthIt(c, life, given)
             THEN Go(c, "cancel") /\ UNCHANGED job
             ELSE /\ Go(c, "reread")
                  /\ job' = Told(IF WorthIt(c, life, given) THEN clock + life ELSE 0)
      BY <2>5, Zenon DEF NotModified
    <3>2. job[c].ims # 0 /\ origin <= job[c].ims
      BY <2>5 DEF NotModified
    <3>3. CASE Go(c, "cancel") /\ UNCHANGED job
      BY <1>1, <1>2, <2>1, <3>3 DEF QuietStep, RequestStep, SameTold, SameAnswer, Go
    <3>4. ASSUME NEW x, x = 0 \/ x >= clock, Go(c, "reread"), job' = Told(x)
          PROVE  Alone(c) /\ RequestStep(c) /\ Works(c)
      BY <1>1, <1>2, <2>1, <2>2, <3>2, <3>4, Zenon DEF NotModifiedStep, RequestStep, Go
    <3>5. LET x == IF WorthIt(c, life, given) THEN clock + life ELSE 0 IN x = 0 \/ x >= clock
      BY <2>3
    <3> HIDE DEF Told
    <3>6. QED
      BY <3>1, <3>3, <3>4, <3>5
  <2>6. QED
    BY <1>18, <2>4, <2>5
<1>19. CASE Body(c) \/ Mismatch(c)
  <2>1. /\ pc[c] = "body" /\ Works(c) /\ info' = info /\ pc'[c] \in {"created", "cancel"}
        /\ \E whole \in BOOLEAN : Write(c, Copy(c, whole))
    BY <1>1, <1>19, Zenon DEF Body, Mismatch, At, Works, Go
  <2>2. \A n \in {"doc", "backup"} : disk[n] # None => disk[n].by # c
    BY <2>1 DEF FilesWhole, Early, Served
  <2>3. SameNames
    BY <1>1, <2>1, <2>2 DEF Write, SameNames
  <2>4. SameTold(c)
    <3>1. job' = job \/ job' = [job EXCEPT ![c] = [job[c] EXCEPT !.status = StoredStatus]]
      BY <1>1, <1>19, Zenon DEF Body, Mismatch, Learn
    <3>2. QED
      BY <1>1, <3>1 DEF SameTold, SameAnswer, Job
  <2>5. QED
    BY <1>2, <2>1, <2>3, <2>4 DEF QuietStep, RequestStep
<1>20. CASE Reread(c)
  <2>1. /\ SameNames /\ info' = info /\ Works(c) /\ pc[c] = "reread" /\ pc'[c] = "restore"
        /\ job' = [job EXCEPT ![c] = [job[c] EXCEPT !.ims = IF info = None THEN 0 ELSE info.lm]]
    BY <1>1, <1>20, Zenon DEF Reread, At, Works, Go, Learn, SameNames, cacheVars
  <2>2. QED
    BY <1>1, <1>2, <2>1 DEF RereadStep, RequestStep, SameAnswer, Job
<1>21. CASE PipeIgnored(c)
  <2>1. /\ SameNames /\ info' = info /\ UNCHANGED pc
        /\ job' = [job EXCEPT ![c] = [job[c] EXCEPT !.deaf = TRUE]]
    BY <1>1, <1>21, Zenon DEF PipeIgnored, Learn, SameNames, cacheVars
  <2>2. SameTold(c)
    BY <1>1, <2>1 DEF SameTold, SameAnswer, Job
  <2>3. Still
    BY <1>1, <1>2, <2>1, <2>2, HttpdAssumption DEF Still, Alone, world, CacheTypeOK, Time
  <2>4. QED
    BY <1>2, <2>3
<1>22. QED
  BY <1>4, <1>5, <1>6, <1>7, <1>8, <1>9, <1>10, <1>11, <1>12, <1>13, <1>14, <1>15, <1>16,
     <1>17, <1>18, <1>19, <1>20, <1>21 DEF Request

\* The steps of collections one by one.
AloneCollecting(c) ==
    /\ UNCHANGED world
    /\ \A d \in Child : SameTold(d)
    /\ \A d \in Child \ {c} : pc'[d] = pc[d] /\ sweep'[d] = sweep[d]

ReadInfoStep(c) ==
    /\ SameNames /\ info' = info
    /\ pc[c] = "read" /\ pc'[c] = "collect"
    /\ sweep'[c].entry.ex = IF info = None THEN 0 ELSE info.anyEx
    /\ sweep'[c].entry.lm = IF info = None THEN 0 ELSE info.anyLm

CollectStep(c) ==
    /\ SameNames /\ info' = None
    /\ pc[c] = "collect" /\ pc'[c] = "flush"
    /\ sweep'[c].entry = sweep[c].entry /\ sweep'[c].files = sweep[c].files

SweepStep(c) ==
    /\ info' = info /\ pc[c] = "flush" /\ pc'[c] = "flush"
    /\ \E n \in {"doc", "backup"} :
         disk' = Unlink(disk, n) /\ sweep'[c].files = sweep[c].files \ {n}
    /\ sweep'[c].entry = sweep[c].entry

FlushStep(c) ==
    /\ SameNames /\ pc[c] = "flush" /\ pc'[c] = "gone"
    /\ IF "doc" \in sweep[c].files THEN Rewrite(sweep[c].entry) ELSE info' \in {None, info}

CollectionStep(c) == ReadInfoStep(c) \/ CollectStep(c) \/ SweepStep(c) \/ FlushStep(c)

LEMMA CollectionSteps ==
    ASSUME CacheTypeOK, NEW c \in Child, Collection(c)
    PROVE  AloneCollecting(c) /\ (Still \/ CollectionStep(c))
<1>1. /\ job \in [Child -> Job] /\ job[c] \in Job /\ pc = [d \in Child |-> pc[d]]
      /\ sweep \in [Child -> Findings] /\ sweep[c] \in Findings
      /\ disk = [n \in Name |-> disk[n]] /\ Name = {"doc", "backup", "lock"}
      /\ clock \in Nat
  BY HttpdAssumption DEF CacheTypeOK, Name, Time
<1>2. CASE Scan(c) \/ Unstick(c)
  <2>1. job' = job \/ \E x : job' = [job EXCEPT ![c] = [job[c] EXCEPT !.seen = x]]
    BY <1>1, <1>2, Zenon DEF Scan, Unstick, Learn
  <2>2. \A d \in Child : SameTold(d)
    BY <1>1, <2>1 DEF SameTold, SameAnswer, Job
  <2>3. UNCHANGED world /\ \A d \in Child \ {c} : pc'[d] = pc[d] /\ sweep'[d] = sweep[d]
    BY <1>1, <1>2, Zenon DEF Scan, Unstick, Go, Decide
  <2>4. /\ SameNames /\ info' = info /\ pc[c] \in {"scan", "unstick"}
        /\ pc'[c] \in {"unstick", "read"}
    BY <1>1, <1>2, Zenon DEF Scan, Unstick, RemoveLock, Unlink, Go, SameNames, cacheVars
  <2>5. Still
    BY <1>1, <2>2, <2>3, <2>4 DEF Still, Cleared, Off, world
  <2>6. QED
    BY <2>2, <2>3, <2>5 DEF AloneCollecting
<1>3. ASSUME job' = job, UNCHANGED world, NEW s, sweep' = [sweep EXCEPT ![c] = s],
             NEW where, pc' = [pc EXCEPT ![c] = where]
      PROVE  AloneCollecting(c) /\ pc'[c] = where /\ sweep'[c] = s
  BY <1>1, <1>3 DEF AloneCollecting, SameTold, SameAnswer
<1>4. CASE ReadInfo(c)
  <2> DEFINE entry == IF info = None THEN [lc |-> sweep[c].at, ex |-> 0, lm |-> 0]
                      ELSE [lc |-> info.lc, ex |-> info.anyEx, lm |-> info.anyLm]
             s == [sweep[c] EXCEPT !.entry = entry]
  <2>1. /\ job' = job /\ UNCHANGED world /\ sweep' = [sweep EXCEPT ![c] = s]
        /\ pc' = [pc EXCEPT ![c] = "collect"]
        /\ SameNames /\ info' = info /\ pc[c] = "read"
    BY <1>1, <1>4, Zenon DEF ReadInfo, Decide, Go, SameNames, cacheVars
  <2>2. /\ entry.ex = IF info = None THEN 0 ELSE info.anyEx
        /\ entry.lm = IF info = None THEN 0 ELSE info.anyLm
    OBVIOUS
  <2> HIDE DEF entry
  <2>3. s.entry = entry
    BY <1>1 DEF Findings
  <2> HIDE DEF s
  <2>4. QED
    BY <1>3, <2>1, <2>2, <2>3, Zenon DEF ReadInfoStep, CollectionStep
<1>5. CASE Collect(c)
  <2>1. PICK kill : sweep' = [sweep EXCEPT ![c] = [sweep[c] EXCEPT !.kill = kill]]
    BY <1>1, <1>5, Zenon DEF Collect, Decide
  <2> DEFINE s == [sweep[c] EXCEPT !.kill = kill]
  <2>2. s.entry = sweep[c].entry /\ s.files = sweep[c].files
    BY <1>1 DEF Findings
  <2>3. /\ job' = job /\ UNCHANGED world /\ pc' = [pc EXCEPT ![c] = "flush"]
        /\ SameNames /\ info' = None /\ pc[c] = "collect"
    BY <1>1, <1>5 DEF Collect, Go, SameNames
  <2>4. sweep' = [sweep EXCEPT ![c] = s]
    BY <2>1
  <2> HIDE DEF s
  <2>5. QED
    BY <1>3, <2>2, <2>3, <2>4, Zenon DEF CollectStep, CollectionStep
<1>6. CASE Sweep(c)
  <2>1. PICK n \in {"doc", "backup"} :
           /\ disk' = Unlink(disk, n)
           /\ sweep' = [sweep EXCEPT ![c] = [sweep[c] EXCEPT !.files = sweep[c].files \ {n}]]
    BY <1>1, <1>6, Zenon DEF Sweep, Findings
  <2> DEFINE s == [sweep[c] EXCEPT !.files = sweep[c].files \ {n}]
  <2>2. s.entry = sweep[c].entry /\ s.files = sweep[c].files \ {n}
    BY <1>1 DEF Findings
  <2>3. /\ job' = job /\ UNCHANGED world /\ pc' = [pc EXCEPT ![c] = "flush"]
        /\ info' = info /\ pc[c] = "flush"
    BY <1>1, <1>6 DEF Sweep
  <2>4. sweep' = [sweep EXCEPT ![c] = s]
    BY <2>1
  <2> HIDE DEF s
  <2>5. QED
    BY <1>3, <2>1, <2>2, <2>3, <2>4, Zenon DEF SweepStep, CollectionStep
<1>7. CASE Flush(c)
  <2>1. /\ job' = job /\ UNCHANGED world /\ sweep' = [sweep EXCEPT ![c] = Idle]
        /\ pc' = [pc EXCEPT ![c] = "gone"] /\ SameNames /\ pc[c] = "flush"
    BY <1>1, <1>7 DEF Flush, Go, SameNames
  <2>2. "doc" \in sweep[c].files => Rewrite(sweep[c].entry)
    BY <1>7 DEF Flush
  <2>3. "doc" \notin sweep[c].files => info' \in {None, info}
    BY <1>7 DEF Flush
  <2>4. QED
    BY <1>3, <2>1, <2>2, <2>3, Zenon DEF FlushStep, CollectionStep
<1>8. QED
  BY <1>2, <1>4, <1>5, <1>6, <1>7 DEF Collection

\* What any step does to what is known of the document.
LEMMA Steps ==
    ASSUME IInv, CacheTypeOK', [Next]_vars, ~stolen'
    PROVE  /\ ~stolen /\ kind' = kind /\ crossed \subseteq crossed'
           /\ \/ Still
              \/ \E c \in Child : Alone(c) /\ RequestStep(c) /\ Works(c) /\ RequestCrosses(c)
              \/ \E c \in Child : AloneCollecting(c) /\ CollectionStep(c)
                                  /\ CollectionCrosses(c)
<1>1. /\ CacheTypeOK /\ FilesWhole /\ origin \in Nat /\ clock \in Nat /\ clock' \in Nat
      /\ pc = [d \in Child |-> pc[d]]
  BY HttpdAssumption DEF IInv, CacheTypeOK, Time
<1>2. CASE UNCHANGED vars
  BY <1>1, <1>2
     DEF vars, world, cacheVars, collectorVars, daemonVars, Still, SameNames, SameTold, SameAnswer
<1>3. CASE Tick
  BY <1>1, <1>3
     DEF Tick, cacheVars, collectorVars, daemonVars, Still, SameNames, SameTold, SameAnswer
<1>4. ASSUME NEW c \in Child, Request(c), RequestCrosses(c),
             UNCHANGED <<collectorVars, daemonVars>>
      PROVE  /\ ~stolen /\ kind' = kind /\ crossed \subseteq crossed'
             /\ Still \/ (Alone(c) /\ RequestStep(c) /\ Works(c) /\ RequestCrosses(c))
  <2>1. ~stolen
    BY <1>1, <1>4, RequestFiles
  <2>2. QED
    BY <1>1, <1>4, <2>1, RequestSteps, CrossedType DEF daemonVars
<1>5. ASSUME NEW c \in Child, Collection(c), CollectionCrosses(c), UNCHANGED daemonVars
      PROVE  /\ ~stolen /\ kind' = kind /\ crossed \subseteq crossed'
             /\ Still \/ (AloneCollecting(c) /\ CollectionStep(c) /\ CollectionCrosses(c))
  <2>1. ~stolen
    BY <1>1, <1>5, CollectionFrames DEF CollectionFrame
  <2>2. QED
    BY <1>1, <1>5, <2>1, CollectionSteps, CrossedType DEF daemonVars
<1>6. ASSUME NEW c \in Child, Loop(c), UNCHANGED crossed
      PROVE  ~stolen /\ kind' = kind /\ Still
  <2>1. LoopFrame(c)
    BY <1>1, <1>6, LoopFrames
  <2>2. /\ SameNames /\ info' = info /\ UNCHANGED world /\ sweep' = sweep
        /\ stolen' = stolen /\ kind' = kind
    BY <2>1 DEF LoopFrame, SameNames, cacheVars, collectorVars
  <2>3. \A d \in Child \ {c} : pc'[d] = pc[d] /\ SameTold(d)
    BY <1>1, <2>1 DEF LoopFrame, SameTold, SameAnswer
  <2>4. Cleared(c)
    <3>1. pc[c] = "none" /\ pc'[c] \in {"locked", "scan", "reaped"} /\ pc'[c] \in Off
      BY <2>1 DEF LoopFrame, Off
    <3>2. CASE Accept(c)
      <4>1. PICK g, t : job'[c] = Started(g, t, kind[c] = "bypass")
        BY <1>1, <3>2, Zenon DEF Accept, Started, CacheTypeOK
      <4>2. /\ Started(g, t, kind[c] = "bypass").got = None
            /\ ~Started(g, t, kind[c] = "bypass").same
            /\ Started(g, t, kind[c] = "bypass").ims = 0
            /\ Started(g, t, kind[c] = "bypass").forced = (kind[c] = "bypass")
        BY DEF Started, Blank
      <4>3. QED
        BY <3>1, <4>1, <4>2, Zenon DEF Cleared
    <3>3. CASE Daily(c) \/ ForkFails(c)
      <4>1. job' = job \/ job' = [job EXCEPT ![c] = [job[c] EXCEPT !.gc = TRUE]]
        BY <3>3 DEF Daily, ForkFails, Learn
      <4>2. job[c] \in Job /\ job \in [Child -> Job]
        BY <1>1 DEF CacheTypeOK
      <4>3. SameTold(c)
        BY <4>1, <4>2 DEF SameTold, SameAnswer, Job
      <4>4. pc'[c] # "locked"
        BY <1>1, <3>3, Zenon DEF Daily, ForkFails, Go
      <4>5. QED
        BY <3>1, <4>3, <4>4 DEF Cleared
    <3>4. QED
      BY <1>6, <3>2, <3>3 DEF Loop
  <2>5. QED
    BY <1>1, <2>2, <2>3, <2>4 DEF Still, world
<1>7. ASSUME NEW pid, ReapFrame(pid),
             \A d \in Child : pc[d] = "gone" => job'[d] \in {Blank, job[d]}
      PROVE  ~stolen /\ kind' = kind /\ Still
  <2>1. /\ SameNames /\ info' = info /\ UNCHANGED world /\ sweep' = sweep
        /\ stolen' = stolen /\ kind' = kind
        /\ \A d \in Child : \/ pc'[d] = pc[d] /\ job'[d] = job[d]
                            \/ pc[d] = "gone" /\ pc'[d] = "reaped"
    BY <1>7 DEF ReapFrame, SameNames, cacheVars, collectorVars
  <2>2. Blank.got = None /\ ~Blank.same /\ Blank.ims = 0 /\ ~Blank.forced
    BY DEF Blank
  <2>3. \A d \in Child : (pc'[d] = pc[d] /\ SameTold(d)) \/ Cleared(d)
    BY <1>7, <2>1, <2>2 DEF Cleared, Off, SameTold, SameAnswer
  <2>4. QED
    BY <1>1, <2>1, <2>3 DEF Still, world
<1>8. CASE SigChild /\ UNCHANGED crossed
  <2>1. ReapFrame(gc_pid)
    BY <1>1, <1>8, ReapFrames DEF SigChild, CacheTypeOK
  <2>2. \A d \in Child : pc[d] = "gone" => job'[d] \in {Blank, job[d]}
    BY <1>8 DEF SigChild, Reap, Gone
  <2>3. QED
    BY <1>7, <1>8, <2>1, <2>2
<1>9. CASE Forked /\ UNCHANGED crossed
  <2>1. ReapFrame(forked.pid)
    BY <1>1, <1>9, ForkedFrames
  <2>2. \A d \in Child : pc[d] = "gone" => job'[d] \in {Blank, job[d]}
    BY <1>9 DEF Forked, Reap, Gone
  <2>3. QED
    BY <1>7, <1>9, <2>1, <2>2
<1>10. QED
  BY <1>2, <1>3, <1>4, <1>5, <1>6, <1>8, <1>9 DEF Next

---------------------------------------------------------------------------
(* What children know                                                      *)

LEMMA NewLockIs ==
    ASSUME NEW c \in Child
    PROVE  /\ Copy(c, TRUE).v = job[c].v /\ Copy(c, TRUE).ex = job[c].ex
           /\ Copy(c, TRUE).by = c /\ NewFile(c).by = c
BY DEF Copy, NewFile

\* A lock file that is about to become the document is as it was, or has just been written.
LEMMA LockWritten ==
    ASSUME IInv, CacheTypeOK', [Next]_vars, NEW d \in Child, pc'[d] = "created",
           disk'["lock"] # None, disk'["lock"].by = d
    PROVE  \/ pc[d] = "created" /\ disk'["lock"] = disk["lock"] /\ SameTold(d)
           \/ disk'["lock"] = Copy(d, TRUE) /\ SameTold(d)
<1>1. /\ CacheTypeOK /\ FilesWhole /\ pc = [e \in Child |-> pc[e]]
      /\ job \in [Child -> Job] /\ job[d] \in Job
  BY DEF IInv, CacheTypeOK
<1>2. CASE UNCHANGED vars
  BY <1>2, Zenon DEF vars, cacheVars, SameTold, SameAnswer
<1>3. CASE Tick
  BY <1>3, Zenon DEF Tick, cacheVars, SameTold, SameAnswer
<1>4. ASSUME NEW c \in Child, Request(c)
      PROVE  \/ pc[d] = "created" /\ disk'["lock"] = disk["lock"] /\ SameTold(d)
             \/ disk'["lock"] = Copy(d, TRUE) /\ SameTold(d)
  <2>1. RequestFrame(c) /\ LockStep(c)
    BY <1>1, <1>4, RequestFrames, RequestFiles
  <2>2. CASE d # c
    <3>1. pc'[d] = pc[d] /\ job'[d] = job[d]
      BY <1>1, <2>1, <2>2 DEF RequestFrame
    <3>2. disk'["lock"] = disk["lock"]
      BY <2>1, <2>2, NewLockIs DEF LockStep, Copy
    <3>3. QED
      BY <3>1, <3>2, Zenon DEF SameTold, SameAnswer
  <2>3. CASE d = c
    <3>1. pc[c] = "body"
      BY <2>1, <2>3 DEF LockStep, Filling
    <3>2. disk'["lock"] = Copy(c, TRUE) \/ disk'["lock"] = disk["lock"]
      BY <2>1, <2>3, <3>1, Zenon DEF LockStep, Filling
    <3>3. job' = job
      BY <1>1, <1>4, <2>3, <3>1, Zenon
         DEF Request, At, Locked, Break, Stat, Info, Relock, Create, Backup, Found, Sent,
             ClientGone, NotModified, Document, Junk, Body, Mismatch, Created, Discard, Note,
             Reread, Restore, Unlock, Renote, Resend, Cancel, TimedOut, PipeIgnored, Stop, Go
    <3>4. disk["lock"] # None /\ disk["lock"].by = c => disk'["lock"] = Copy(c, TRUE)
      BY <2>1, <2>3, <3>1, Zenon DEF LockStep, Filling
    <3>5. QED
      BY <2>3, <3>2, <3>3, <3>4, Zenon DEF SameTold, SameAnswer
  <2>4. QED
    BY <2>2, <2>3, Zenon
<1>5. ASSUME NEW c \in Child, Collection(c)
      PROVE  pc[d] = "created" /\ disk'["lock"] = disk["lock"] /\ SameTold(d)
  <2>1. CollectionFrame(c) /\ AloneCollecting(c)
    BY <1>1, <1>5, CollectionFrames, CollectionSteps
  <2>2. "lock" \in Name
    BY DEF Name
  <2>3. QED
    BY <2>1, <2>2 DEF CollectionFrame, AloneCollecting
<1>6. ASSUME NEW c \in Child, Loop(c)
      PROVE  pc[d] = "created" /\ disk'["lock"] = disk["lock"] /\ SameTold(d)
  <2>1. LoopFrame(c)
    BY <1>1, <1>6, LoopFrames
  <2>2. QED
    BY <1>1, <2>1 DEF LoopFrame, cacheVars, SameTold, SameAnswer
<1>7. ASSUME NEW pid, ReapFrame(pid)
      PROVE  pc[d] = "created" /\ disk'["lock"] = disk["lock"] /\ SameTold(d)
  BY <1>7 DEF ReapFrame, cacheVars, SameTold, SameAnswer
<1>8. CASE SigChild
  BY <1>1, <1>7, <1>8, ReapFrames, Zenon DEF SigChild, CacheTypeOK
<1>9. CASE Forked
  BY <1>1, <1>7, <1>9, ForkedFrames, Zenon
<1>10. QED
  BY <1>2, <1>3, <1>4, <1>5, <1>6, <1>8, <1>9, Zenon DEF Next

LEMMA JobsTrueKept ==
    ASSUME IInv, CacheTypeOK', [Next]_vars, ~stolen', JobsTrue
    PROVE  JobsTrue'
<1> DEFINE Fits(d) ==
             /\ pc'[d] \in {"locked", "break", "stat", "info", "create"} => job'[d].ims = 0
             /\ pc'[d] \in Served \ {"sending"} => job'[d].got = None /\ ~job'[d].same
             /\ job'[d].forced => kind'[d] = "bypass"
<1>1. ASSUME NEW d \in Child, pc'[d] = "created", disk'["lock"] # None, disk'["lock"].by = d
      PROVE  disk'["lock"].v = job'[d].v /\ disk'["lock"].ex = job'[d].ex
  <2>1. \/ pc[d] = "created" /\ disk'["lock"] = disk["lock"] /\ SameTold(d)
        \/ disk'["lock"] = Copy(d, TRUE) /\ SameTold(d)
    BY <1>1, LockWritten, Zenon
  <2>2. Copy(d, TRUE).v = job[d].v /\ Copy(d, TRUE).ex = job[d].ex
    BY NewLockIs, Zenon
  <2>3. QED
    BY <1>1, <2>1, <2>2, Zenon DEF JobsTrue, SameTold
<1>2. /\ kind' = kind
      /\ \/ Still
         \/ \E c \in Child : Alone(c) /\ RequestStep(c)
         \/ \E c \in Child : AloneCollecting(c) /\ CollectionStep(c)
  BY Steps
<1>3. ASSUME NEW d \in Child
      PROVE  Fits(d)
  <2>1. CASE Still
    BY <1>2, <2>1 DEF Still, Cleared, Off, Served, JobsTrue, SameTold, SameAnswer
  <2>2. ASSUME NEW c \in Child, Alone(c), RequestStep(c)
        PROVE  Fits(d)
    <3>1. CASE d # c
      BY <1>2, <2>2, <3>1 DEF Alone, JobsTrue, SameTold, SameAnswer
    <3>2. CASE d = c
      <4>1. job'[c].forced => kind'[c] = "bypass"
        BY <1>2, <2>2, <3>2, Zenon
           DEF RequestStep, QuietStep, InfoStep, FoundStep, ResendStep, NotModifiedStep,
               DocumentStep, BackupStep, CreatedStep, DiscardStep, NoteStep, RereadStep,
               RestoreStep, RenoteStep, SameTold, SameAnswer, Cleared, JobsTrue
      <4>2. pc'[c] \in {"locked", "break", "stat", "info", "create"} => job'[c].ims = 0
        BY <2>2
           DEF RequestStep, QuietStep, InfoStep, FoundStep, ResendStep, NotModifiedStep,
               DocumentStep, BackupStep, CreatedStep, DiscardStep, NoteStep, RereadStep,
               RestoreStep, RenoteStep, SameTold, Cleared, Off, JobsTrue
      <4>3. pc'[c] \in Served \ {"sending"} => job'[c].got = None /\ ~job'[c].same
        BY <2>2
           DEF RequestStep, QuietStep, InfoStep, FoundStep, ResendStep, NotModifiedStep,
               DocumentStep, BackupStep, CreatedStep, DiscardStep, NoteStep, RereadStep,
               RestoreStep, RenoteStep, SameTold, SameAnswer, Cleared, Off, Served, JobsTrue
      <4>4. QED
        BY <3>2, <4>1, <4>2, <4>3
    <3>3. QED
      BY <3>1, <3>2
  <2>3. ASSUME NEW c \in Child, AloneCollecting(c), CollectionStep(c)
        PROVE  Fits(d)
    BY <1>2, <2>3
       DEF AloneCollecting, CollectionStep, ReadInfoStep, CollectStep, SweepStep, FlushStep,
           Served, JobsTrue, SameTold, SameAnswer
  <2>4. QED
    BY <1>2, <2>1, <2>2, <2>3
<1>4. QED
  BY <1>1, <1>3 DEF JobsTrue

---------------------------------------------------------------------------
(* Versions                                                                *)

LEMMA InfoType ==
    ASSUME CacheTypeOK
    PROVE  /\ clock \in Nat /\ origin \in Nat /\ Margin \in Nat
           /\ info # None => info.ex \in Nat /\ info.anyEx \in Nat /\ info.lm \in Time
                             /\ info.anyLm \in Time
           /\ \A c \in Child : job[c].now \in Nat /\ job[c].v \in Time /\ job[c].ex \in Nat
                               /\ job[c].ims \in Time
           /\ \A d \in Child : Held(d) => sweep[d].entry.ex \in Nat /\ sweep[d].entry.lm \in Time
           /\ \A n \in {"doc", "backup", "lock"} : disk[n] # None =>
                  disk[n].v \in Time /\ disk[n].ex \in Nat
           /\ Time \subseteq Nat /\ 0 \in Time
<1>1. \A d \in Child : Held(d) => sweep[d].entry.ex \in Nat /\ sweep[d].entry.lm \in Time
  BY DEF CacheTypeOK, Held, Findings
<1>2. QED
  BY <1>1, HttpdAssumption DEF CacheTypeOK, Entry, Job, File, Time, Name

LEMMA KnownStill ==
    ASSUME CacheTypeOK, Still
    PROVE  Known' \subseteq Known
<1> SUFFICES ASSUME NEW k \in Known' PROVE k \in Known
  OBVIOUS
<1>1. k \in Time /\ info' = info
  BY DEF Known, Still
<1>2. CASE info' # None /\ k \in {info'.lm, info'.anyLm}
  BY <1>1, <1>2 DEF Known
<1>3. ASSUME NEW d \in Child,
             \/ Held(d)' /\ k = sweep'[d].entry.lm
             \/ KnowsDocument(d)' /\ k = job'[d].v
             \/ KnowsEntry(d)' /\ k = job'[d].ims
      PROVE  k \in Known
  <2>1. pc'[d] \notin Off
    BY <1>3 DEF Held, KnowsDocument, KnowsEntry, Off
  <2>2. pc'[d] = pc[d] /\ SameTold(d) /\ sweep'[d] = sweep[d]
    BY <2>1 DEF Still, Cleared
  <2>3. \/ Held(d) /\ k = sweep[d].entry.lm
        \/ KnowsDocument(d) /\ k = job[d].v
        \/ KnowsEntry(d) /\ k = job[d].ims
    BY <1>3, <2>2 DEF Held, KnowsDocument, KnowsEntry, SameTold
  <2>4. QED
    BY <1>1, <2>3 DEF Known
<1>4. QED
  BY <1>2, <1>3 DEF Known

\* A request only learns what is known: from the entry, or from the server when it has not
\* changed; but what comes from the server is known when it has been put in place.
LEMMA KnownRequest ==
    ASSUME CacheTypeOK, JobsTrue, NEW c \in Child, Alone(c), RequestStep(c), NEW k \in Known'
    PROVE  \/ k = 0 \/ k \in Known
           \/ NotModifiedStep(c) /\ job[c].ims \in Known /\ k <= job[c].ims
           \/ CreatedStep(c) /\ k = job[c].v
<1> DEFINE Goal == \/ k = 0 \/ k \in Known
                   \/ NotModifiedStep(c) /\ job[c].ims \in Known /\ k <= job[c].ims
                   \/ CreatedStep(c) /\ k = job[c].v
<1>1. /\ k \in Time /\ None \notin Entry /\ sweep' = sweep
      /\ \A d \in Child \ {c} : pc'[d] = pc[d] /\ SameTold(d)
      /\ job[c].ims \in Time
  BY InfoType, HttpdAssumption DEF Known, Alone
<1>2. ASSUME NEW d \in Child,
             \/ Held(d) /\ k = sweep[d].entry.lm
             \/ KnowsDocument(d) /\ k = job[d].v
             \/ KnowsEntry(d) /\ k = job[d].ims
      PROVE  k \in Known
  BY <1>1, <1>2 DEF Known
<1>3. ASSUME info # None, k \in {info.lm, info.anyLm}
      PROVE  k \in Known
  BY <1>1, <1>3 DEF Known
<1>4. CASE info' # None /\ k \in {info'.lm, info'.anyLm}
  <2>1. CASE info' = info
    BY <1>3, <1>4, <2>1
  <2>2. CASE NoteStep(c)
    <3>1. k = job[c].v \/ (info # None /\ k = info.anyLm)
      BY <1>4, <2>2 DEF NoteStep, Enter
    <3>2. KnowsDocument(c)
      BY <2>2 DEF NoteStep, KnowsDocument
    <3>3. QED
      BY <1>2, <1>3, <3>1, <3>2
  <2>3. CASE RenoteStep(c)
    <3>1. k = job[c].ims \/ (info # None /\ k = info.anyLm)
      BY <1>4, <2>3 DEF RenoteStep, Enter
    <3>2. KnowsEntry(c)
      BY <2>3 DEF RenoteStep, KnowsEntry
    <3>3. QED
      BY <1>2, <1>3, <3>1, <3>2
  <2>4. QED
    BY <2>1, <2>2, <2>3
       DEF RequestStep, QuietStep, InfoStep, FoundStep, ResendStep, NotModifiedStep,
           DocumentStep, BackupStep, CreatedStep, DiscardStep, RereadStep, RestoreStep
<1>5. ASSUME NEW d \in Child \ {c},
             \/ Held(d)' /\ k = sweep'[d].entry.lm
             \/ KnowsDocument(d)' /\ k = job'[d].v
             \/ KnowsEntry(d)' /\ k = job'[d].ims
      PROVE  k \in Known
  BY <1>1, <1>2, <1>5 DEF Held, KnowsDocument, KnowsEntry, SameTold
<1>6. ~Held(c)'
  BY DEF Held, RequestStep, QuietStep, InfoStep, FoundStep, ResendStep, NotModifiedStep,
         DocumentStep, BackupStep, CreatedStep, DiscardStep, NoteStep, Cleared, Off, RereadStep,
         RestoreStep, RenoteStep
<1>7. CASE KnowsDocument(c)' /\ k = job'[c].v
  <2>1. CASE NotModifiedStep(c)
    <3>1. KnowsEntry(c) /\ k <= job[c].ims
      BY <1>7, <2>1 DEF NotModifiedStep, KnowsDocument, KnowsEntry
    <3>2. job[c].ims \in Known
      BY <1>1, <3>1 DEF Known
    <3>3. QED
      BY <2>1, <3>1, <3>2
  <2>2. CASE CreatedStep(c)
    BY <1>7, <2>2 DEF CreatedStep, SameTold
  <2>3. CASE ~NotModifiedStep(c) /\ ~CreatedStep(c)
    <3>1. KnowsDocument(c) /\ job'[c].v = job[c].v
      BY <1>7, <2>3
         DEF RequestStep, QuietStep, InfoStep, FoundStep, ResendStep, DocumentStep, BackupStep,
             DiscardStep, NoteStep, Cleared, Off, RereadStep, RestoreStep, RenoteStep,
             SameTold, KnowsDocument
    <3>2. QED
      BY <1>2, <1>7, <3>1
  <2>4. QED
    BY <2>1, <2>2, <2>3
<1>8. CASE KnowsEntry(c)' /\ k = job'[c].ims
  <2>1. CASE InfoStep(c) \/ RereadStep(c)
    <3>1. k = 0 \/ (info # None /\ k = info.lm)
      BY <1>8, <2>1 DEF InfoStep, RereadStep, KnowsEntry
    <3>2. QED
      BY <1>3, <3>1
  <2>2. CASE pc[c] = "create"
    <3>1. k = 0
      BY <1>8, <2>2
         DEF RequestStep, QuietStep, InfoStep, FoundStep, ResendStep, NotModifiedStep,
             DocumentStep, BackupStep, CreatedStep, DiscardStep, NoteStep, RereadStep,
             RestoreStep, RenoteStep, SameTold, JobsTrue
    <3>2. QED
      BY <3>1
  <2>3. CASE ~(InfoStep(c) \/ RereadStep(c)) /\ pc[c] # "create"
    <3>1. KnowsEntry(c) /\ job'[c].ims = job[c].ims
      BY <1>8, <2>3
         DEF RequestStep, QuietStep, FoundStep, ResendStep, NotModifiedStep, DocumentStep,
             BackupStep, CreatedStep, DiscardStep, NoteStep, Cleared, Off, RestoreStep,
             RenoteStep, SameTold, KnowsEntry
    <3>2. QED
      BY <1>2, <1>8, <3>1
  <2>4. QED
    BY <2>1, <2>2, <2>3
<1>9. QED
  BY <1>4, <1>5, <1>6, <1>7, <1>8 DEF Known

LEMMA KnownCollection ==
    ASSUME CacheTypeOK, NEW c \in Child, AloneCollecting(c), CollectionStep(c),
           NEW k \in Known'
    PROVE  k = 0 \/ k \in Known
<1>1. k \in Time /\ (\A d \in Child : SameTold(d))
      /\ \A d \in Child \ {c} : pc'[d] = pc[d] /\ sweep'[d] = sweep[d]
  BY DEF Known, AloneCollecting
<1>2. ASSUME NEW d \in Child,
             \/ Held(d) /\ k = sweep[d].entry.lm
             \/ KnowsDocument(d) /\ k = job[d].v
             \/ KnowsEntry(d) /\ k = job[d].ims
      PROVE  k \in Known
  BY <1>1, <1>2 DEF Known
<1>3. ASSUME info # None, k \in {info.lm, info.anyLm}
      PROVE  k \in Known
  BY <1>1, <1>3 DEF Known
<1>4. CASE info' # None /\ k \in {info'.lm, info'.anyLm}
  <2>1. CASE FlushStep(c)
    <3>1. CASE "doc" \in sweep[c].files
      <4>1. Held(c) /\ k = sweep[c].entry.lm
        BY <1>4, <2>1, <3>1 DEF FlushStep, Rewrite, Held
      <4>2. QED
        BY <1>2, <4>1
    <3>2. CASE "doc" \notin sweep[c].files
      BY <1>3, <1>4, <2>1, <3>2 DEF FlushStep
    <3>3. QED
      BY <3>1, <3>2
  <2>2. CASE ~FlushStep(c)
    BY <1>3, <1>4, <2>2 DEF CollectionStep, ReadInfoStep, CollectStep, SweepStep
  <2>3. QED
    BY <2>1, <2>2
<1>5. ASSUME NEW d \in Child, Held(d)', k = sweep'[d].entry.lm
      PROVE  k = 0 \/ k \in Known
  <2>1. CASE d # c
    BY <1>1, <1>2, <1>5, <2>1 DEF Held
  <2>2. CASE d = c /\ ReadInfoStep(c)
    BY <1>3, <1>5, <2>2 DEF ReadInfoStep
  <2>3. CASE d = c /\ ~ReadInfoStep(c)
    <3>1. Held(c) /\ sweep'[c].entry = sweep[c].entry
      BY <1>5, <2>3 DEF CollectionStep, CollectStep, SweepStep, FlushStep, Held
    <3>2. QED
      BY <1>2, <1>5, <2>3, <3>1
  <2>4. QED
    BY <2>1, <2>2, <2>3
<1>6. ASSUME NEW d \in Child, \/ KnowsDocument(d)' /\ k = job'[d].v
                              \/ KnowsEntry(d)' /\ k = job'[d].ims
      PROVE  k \in Known
  <2>1. d # c
    BY <1>6
       DEF CollectionStep, ReadInfoStep, CollectStep, SweepStep, FlushStep, KnowsDocument,
           KnowsEntry
  <2>2. QED
    BY <1>1, <1>2, <1>6, <2>1 DEF KnowsDocument, KnowsEntry, SameTold
<1>7. QED
  BY <1>4, <1>5, <1>6 DEF Known

\* Two that fill the cache, and are not overdue, would both have the lock.
LEMMA SoleFiller ==
    ASSUME IInv, ~stolen, NEW c \in Child, NEW d \in Child, pc[c] \in Filling, ~Due(c),
           pc[d] \in Filling, ~Due(d)
    PROVE  c = d
BY DEF IInv, LockIsOwn

LEMMA SoleCollector ==
    ASSUME IInv, NEW c \in Child, NEW d \in Child, Collecting(c), Collecting(d)
    PROVE  c = d
BY HttpdAssumption DEF IInv, CollectorKnown, OneCollector

\* Nothing is newer than what was known, but for what is put in place.
LEMMA KnownGrows ==
    ASSUME CacheTypeOK, JobsTrue, NEW b \in Nat, \A k \in Known : k <= b,
           \/ Still
           \/ \E c \in Child : Alone(c) /\ RequestStep(c) /\ (CreatedStep(c) => job[c].v <= b)
           \/ \E c \in Child : AloneCollecting(c) /\ CollectionStep(c)
    PROVE  \A k \in Known' : k <= b
<1> SUFFICES ASSUME NEW k \in Known' PROVE k <= b
  OBVIOUS
<1>1. CASE Still
  BY <1>1, KnownStill
<1>2. ASSUME NEW c \in Child, Alone(c), RequestStep(c), CreatedStep(c) => job[c].v <= b
      PROVE  k <= b
  <2>1. \/ k = 0 \/ k \in Known
        \/ job[c].ims \in Known /\ k <= job[c].ims
        \/ CreatedStep(c) /\ k = job[c].v
    BY <1>2, KnownRequest
  <2>2. k \in Nat /\ job[c].ims \in Nat
    BY InfoType DEF Known
  <2>3. QED
    BY <1>2, <2>1, <2>2
<1>3. ASSUME NEW c \in Child, AloneCollecting(c), CollectionStep(c)
      PROVE  k <= b
  BY <1>3, KnownCollection
<1>4. QED
  BY <1>1, <1>2, <1>3

\* Children wait no less for being told to.
LEMMA DueStays ==
    ASSUME CacheTypeOK, NEW c \in Child, clock \in Nat, clock' \in Nat, clock <= clock',
           job'[c].now = job[c].now, ~Due(c)'
    PROVE  ~Due(c)
BY InfoType, HttpdAssumption DEF Due

\* Only who had the lock has it when its copy is ready.
HoldersStay ==
    \A d \in Child : pc'[d] \in {"body", "created"} /\ Holds(d)' => Holds(d)

LEMMA HoldersKept ==
    ASSUME CacheTypeOK, [Next]_vars
    PROVE  HoldersStay
<1>1. ASSUME disk' = disk
      PROVE  HoldersStay
  BY <1>1 DEF HoldersStay, Holds
<1>2. ASSUME NEW c \in Child, Request(c)
      PROVE  HoldersStay
  <2>1. LockStep(c)
    BY <1>2, RequestFiles
  <2>2. NewFile(c).by = c /\ \A whole \in BOOLEAN : Copy(c, whole).by = c
    BY DEF NewFile, Copy
  <2>3. ASSUME NEW d \in Child, pc'[d] \in {"body", "created"},
               disk'["lock"] # None, disk'["lock"].by = d
        PROVE  disk["lock"] # None /\ disk["lock"].by = d
    BY <2>1, <2>2, <2>3 DEF LockStep
  <2>4. QED
    BY <2>3 DEF HoldersStay, Holds
<1>3. ASSUME NEW c \in Child, Collection(c)
      PROVE  HoldersStay
  <2>1. disk'["lock"] \in {None, disk["lock"]}
    BY <1>3, CollectionFrames DEF CollectionFrame, Name
  <2>2. QED
    BY <2>1 DEF HoldersStay, Holds
<1>4. ASSUME NEW c \in Child, Loop(c)
      PROVE  disk' = disk
  BY <1>4, LoopFrames DEF LoopFrame, cacheVars
<1>5. ASSUME NEW pid, ReapFrame(pid)
      PROVE  disk' = disk
  BY <1>5 DEF ReapFrame, cacheVars
<1>6. CASE SigChild
  BY <1>1, <1>5, <1>6, ReapFrames DEF SigChild, CacheTypeOK
<1>7. CASE Forked
  BY <1>1, <1>5, <1>7, ForkedFrames
<1>8. CASE UNCHANGED vars \/ Tick
  BY <1>1, <1>8 DEF vars, Tick, cacheVars
<1>9. QED
  BY <1>1, <1>2, <1>3, <1>4, <1>6, <1>7, <1>8 DEF Next

\* The parts of the versions, each by itself.
OriginNewest == origin <= clock /\ Newest(origin)
DocNewest    == disk["doc"] # None => Newest(disk["doc"].v)
BackupNewest == disk["doc"] = None /\ disk["backup"] # None => Newest(disk["backup"].v)
CopyNewest(c) ==
    pc[c] \in {"body", "created"} => job[c].v <= origin /\ (Holds(c) => Newest(job[c].v))
DocAway(c) == Asking(c) /\ ~Due(c) => disk["doc"] = None

AllNewest ==
    /\ OriginNewest /\ DocNewest /\ BackupNewest
    /\ \A c \in Child : CopyNewest(c) /\ DocAway(c)

LEMMA VersionParts == Versions <=> AllNewest
BY DEF AllNewest, Versions, OriginNewest, DocNewest, BackupNewest, CopyNewest, DocAway

\* Where the files keep their names, and nothing is put in place.
LEMMA VersionsStay ==
    ASSUME CacheTypeOK, Versions, SameNames, \A k \in Known' : k = 0 \/ \E m \in Known : k <= m,
           UNCHANGED world, HoldersStay,
           NEW c \in Child,
           \A d \in Child \ {c} : pc'[d] = pc[d] /\ SameTold(d),
           CopyNewest(c)', DocAway(c)'
    PROVE  Versions'
<1>1. ASSUME NEW b \in Nat, \A k \in Known : k <= b
      PROVE  \A k \in Known' : k <= b
  <2>1. Known \subseteq Nat /\ Known' \subseteq Nat
    BY InfoType DEF Known
  <2>2. QED
    BY <1>1, <2>1
<1>2. OriginNewest'
  BY <1>1, InfoType DEF OriginNewest, Versions, Newest, world
<1>3. DocNewest'
  BY <1>1, InfoType DEF DocNewest, Versions, Newest, SameNames
<1>4. BackupNewest'
  BY <1>1, InfoType DEF BackupNewest, Versions, Newest, SameNames
<1>5. ASSUME NEW d \in Child, d # c
      PROVE  CopyNewest(d)' /\ DocAway(d)'
  <2>1. pc'[d] = pc[d] /\ SameTold(d) /\ clock' = clock /\ origin' = origin
    BY <1>5 DEF world
  <2>2. ~Due(d)' => ~Due(d)
    BY <2>1 DEF Due, SameTold, SameAnswer
  <2>3. CopyNewest(d)'
    BY <1>1, <2>1, InfoType DEF CopyNewest, Versions, Newest, SameTold, HoldersStay
  <2>4. DocAway(d)'
    BY <2>1, <2>2 DEF DocAway, Versions, Asking, SameTold, SameNames
  <2>5. QED
    BY <2>3, <2>4
<1>6. AllNewest'
  BY <1>2, <1>3, <1>4, <1>5 DEF AllNewest
<1>7. QED
  BY <1>6, VersionParts, PTL

LEMMA VersionsStill ==
    ASSUME CacheTypeOK, CacheTypeOK', Versions, Still, HoldersStay
    PROVE  Versions'
<1>1. \A k \in Known' : k \in Known
  BY KnownStill
<1>2. /\ clock \in Nat /\ clock' \in Nat /\ clock <= clock' /\ origin \in Nat
      /\ origin' \in {origin, clock'} /\ origin <= clock /\ \A k \in Known : k <= origin
      /\ Known \subseteq Nat
  BY InfoType DEF Still, Versions, Newest, Known
<1>3. OriginNewest'
  <2>1. origin' <= clock'
    BY <1>2
  <2>2. ASSUME NEW k \in Known'
        PROVE  k <= origin'
    <3>1. k \in Nat /\ k <= origin
      BY <1>1, <1>2, Zenon
    <3>2. QED
      BY <1>2, <3>1
  <2>3. QED
    BY <2>1, <2>2 DEF OriginNewest, Newest
<1>4. DocNewest' /\ BackupNewest'
  BY <1>1 DEF DocNewest, BackupNewest, Versions, Newest, Still, SameNames
<1>5. ASSUME NEW d \in Child
      PROVE  CopyNewest(d)' /\ DocAway(d)'
  <2>1. CASE pc'[d] \in Off
    BY <2>1 DEF Off, CopyNewest, DocAway, Asking
  <2>2. CASE pc'[d] \notin Off
    <3>1. pc'[d] = pc[d] /\ SameTold(d)
      BY <2>2 DEF Still, Cleared
    <3>2. ~Due(d)' => ~Due(d)
      BY <1>2, <3>1, DueStays DEF SameTold, SameAnswer
    <3>3. pc[d] \in {"body", "created"} => job[d].v <= origin'
      BY <1>2, <3>1, InfoType DEF Versions
    <3>4. CopyNewest(d)'
      BY <1>1, <3>1, <3>3 DEF CopyNewest, Versions, Newest, SameTold, HoldersStay
    <3>5. DocAway(d)'
      BY <3>1, <3>2 DEF DocAway, Versions, Asking, SameTold, Still, SameNames
    <3>6. QED
      BY <3>4, <3>5
  <2>3. QED
    BY <2>1, <2>2
<1>6. AllNewest'
  BY <1>3, <1>4, <1>5 DEF AllNewest
<1>7. QED
  BY <1>6, VersionParts, PTL

\* Requests that move no file.
LEMMA VersionsRequest ==
    ASSUME CacheTypeOK, JobsTrue, Deaf, HoldersStay, Versions, NEW c \in Child, Alone(c),
           RequestStep(c), Works(c),
           ~BackupStep(c), ~CreatedStep(c), ~DiscardStep(c), ~RestoreStep(c)
    PROVE  Versions'
<1>1. SameNames /\ UNCHANGED world /\ \A d \in Child \ {c} : pc'[d] = pc[d] /\ SameTold(d)
  BY DEF Alone, RequestStep, QuietStep, InfoStep, FoundStep, ResendStep, NotModifiedStep,
         DocumentStep, NoteStep, RereadStep, RenoteStep
<1>2. \A k \in Known' : k = 0 \/ \E m \in Known : k <= m
  <2> SUFFICES ASSUME NEW k \in Known' PROVE k = 0 \/ \E m \in Known : k <= m
    OBVIOUS
  <2>1. k = 0 \/ k \in Known \/ (job[c].ims \in Known /\ k <= job[c].ims)
    BY KnownRequest
  <2>2. k \in Nat
    BY InfoType DEF Known
  <2>3. QED
    BY <2>1, <2>2
<1>3. \A b \in Nat : (\A k \in Known : k <= b) => \A k \in Known' : k <= b
  <2>1. Known \subseteq Nat /\ Known' \subseteq Nat
    BY InfoType DEF Known
  <2>2. QED
    BY <1>2, <2>1
<1>4. CopyNewest(c)'
  <2>1. CASE pc'[c] \notin {"body", "created"}
    BY <2>1 DEF CopyNewest
  <2>2. CASE pc'[c] \in {"body", "created"}
    <3>1. CASE DocumentStep(c)
      <4>1. job'[c].v = origin /\ origin' = origin /\ origin \in Nat
        BY <1>1, <3>1, InfoType DEF DocumentStep, world
      <4>2. \A k \in Known' : k <= origin
        BY <1>3, <4>1 DEF Versions, Newest
      <4>3. QED
        BY <4>1, <4>2 DEF CopyNewest, Newest
    <3>2. CASE ~DocumentStep(c)
      <4>1. pc[c] \in {"body", "created"} /\ SameTold(c) /\ origin' = origin
        BY <1>1, <2>2, <3>2
           DEF RequestStep, QuietStep, InfoStep, FoundStep, ResendStep, NotModifiedStep,
               NoteStep, Cleared, Off, RereadStep, RenoteStep, world
      <4>2. job[c].v \in Nat
        BY InfoType
      <4>3. Holds(c) => \A k \in Known' : k <= job[c].v
        BY <1>3, <4>1, <4>2 DEF Versions, Newest
      <4>4. QED
        BY <2>2, <4>1, <4>3 DEF CopyNewest, Newest, Versions, SameTold, HoldersStay
    <3>3. QED
      BY <3>1, <3>2
  <2>3. QED
    BY <2>1, <2>2
<1>5. DocAway(c)'
  <2> SUFFICES ASSUME Asking(c)' PROVE disk["doc"] = None
    BY <1>1 DEF DocAway, SameNames
  <2>1. CASE Asking(c)
    BY <2>1 DEF Versions, Works, Deaf, Asking
  <2>2. CASE pc[c] = "create"
    <3>1. SameTold(c) /\ pc'[c] \notin {"reread", "restore"}
      BY <2>2 DEF RequestStep, QuietStep, InfoStep, FoundStep, ResendStep, NotModifiedStep,
               DocumentStep, NoteStep, RereadStep, RenoteStep
    <3>2. QED
      BY <2>2, <3>1 DEF Asking, SameTold, JobsTrue
  <2>3. CASE ~Asking(c) /\ pc[c] # "create"
    BY <2>3
       DEF RequestStep, QuietStep, InfoStep, FoundStep, ResendStep, NotModifiedStep,
           DocumentStep, NoteStep, Cleared, Off, RereadStep, RenoteStep, Asking, SameTold
  <2>4. QED
    BY <2>1, <2>2, <2>3
<1>6. QED
  BY <1>1, <1>2, <1>4, <1>5, VersionsStay

\* The backup becomes the document, with the date its request has been told.
LEMMA RestoredFile ==
    ASSUME CacheTypeOK, NEW c \in Child, disk["backup"] # None,
           disk' = Rename(Restored(c), "backup", "doc")
    PROVE  /\ disk'["doc"] # None /\ disk'["backup"] = None
           /\ disk'["doc"].v = disk["backup"].v
           /\ disk'["doc"].ex = IF job[c].ex = 0 THEN clock ELSE job[c].ex
<1> DEFINE ex == IF job[c].ex = 0 THEN clock ELSE job[c].ex
           file == [disk["backup"] EXCEPT !.ex = ex]
<1>1. disk = [n \in Name |-> disk[n]] /\ disk["backup"] \in File
      /\ Name = {"doc", "backup", "lock"}
  BY DEF CacheTypeOK, Name
<1>2. Restored(c) = [disk EXCEPT !["backup"] = file]
  BY <1>1 DEF Restored
<1>3. ex \in Nat
  BY InfoType
<1> HIDE DEF ex
<1>4. file \in File /\ file.v = disk["backup"].v /\ file.ex = ex
  BY <1>1, <1>3 DEF File
<1>5. file # None
  BY <1>4, HttpdAssumption
<1> HIDE DEF file
<1>6. disk'["doc"] = file /\ disk'["backup"] = None
  BY <1>1, <1>2, <1>5 DEF Rename
<1>7. QED
  BY <1>4, <1>5, <1>6 DEF ex

\* Requests that move a file: nobody else who still has time is filling the cache.
LEMMA VersionsMoved ==
    ASSUME IInv, JobsTrue, Versions, ~stolen, HoldersStay, NEW c \in Child, Alone(c), Works(c),
           BackupStep(c) \/ CreatedStep(c) \/ DiscardStep(c) \/ RestoreStep(c)
    PROVE  Versions'
<1>1. /\ CacheTypeOK /\ RequestStep(c) /\ SameTold(c) /\ UNCHANGED world
      /\ disk = [n \in Name |-> disk[n]] /\ Name = {"doc", "backup", "lock"}
  BY DEF IInv, RequestStep, BackupStep, CreatedStep, DiscardStep, RestoreStep, Alone,
         CacheTypeOK, Name
<1>2. \A b \in Nat : /\ \A k \in Known : k <= b
                     /\ CreatedStep(c) => job[c].v <= b
                     => \A k \in Known' : k <= b
  BY <1>1, KnownGrows
<1>3. \A d \in Child : /\ SameTold(d) /\ (Due(d)' <=> Due(d))
                       /\ d # c => pc'[d] = pc[d]
  BY <1>1 DEF Alone, Due, SameTold, SameAnswer, world
<1>4. \A d \in Child : pc'[d] \in {"body", "created"} => d # c
  BY DEF BackupStep, CreatedStep, DiscardStep, RestoreStep
<1>5. CASE CreatedStep(c)
  <2>1. /\ pc[c] = "created" /\ disk["lock"] # None /\ disk["lock"].by = c
        /\ disk["lock"].v = job[c].v /\ disk'["doc"] = disk["lock"]
        /\ pc'[c] \in {"discard", "note"}
    BY <1>1, <1>5 DEF CreatedStep, Holds, JobsTrue, Rename
  <2>2. job[c].v \in Nat /\ job[c].v <= origin /\ \A k \in Known : k <= job[c].v
    BY <1>1, <2>1, InfoType DEF Versions, Newest, Holds
  <2>3. OriginNewest'
    BY <1>1, <1>2, <2>2, InfoType DEF OriginNewest, Versions, Newest, world
  <2>4. DocNewest'
    BY <1>1, <1>2, <2>1, <2>2, InfoType DEF DocNewest, Newest
  <2>5. BackupNewest'
    BY <2>1 DEF BackupNewest
  <2>6. ASSUME NEW d \in Child
        PROVE  CopyNewest(d)' /\ DocAway(d)'
    <3>1. pc'[d] \in Filling => d # c /\ pc[d] \in Filling
      BY <1>3, <2>1 DEF Filling
    <3>2. pc'[d] \in Filling => Due(d)'
      BY <1>3, <2>1, <3>1 DEF IInv, LockIsOwn
    <3>3. DocAway(d)'
      BY <3>2 DEF DocAway, Asking, Filling
    <3>4. CopyNewest(d)'
      <4>1. ~Holds(d)'
        BY <1>1, <1>5 DEF CreatedStep, Holds, Rename
      <4>2. QED
        BY <1>1, <1>3, <1>4, <4>1 DEF CopyNewest, Versions, SameTold, world
    <3>5. QED
      BY <3>3, <3>4
  <2>7. AllNewest'
    BY <2>3, <2>4, <2>5, <2>6 DEF AllNewest
  <2>8. QED
    BY <2>7, VersionParts, PTL
<1>6. CASE ~CreatedStep(c)
  <2>1. \A b \in Nat : (\A k \in Known : k <= b) => \A k \in Known' : k <= b
    BY <1>2, <1>6
  <2>2. OriginNewest'
    BY <1>1, <2>1, InfoType DEF OriginNewest, Versions, Newest, world
  <2>3. \A d \in Child : CopyNewest(d)'
    BY <1>1, <1>3, <1>4, <2>1, InfoType
       DEF CopyNewest, Versions, Newest, SameTold, HoldersStay, world
  <2>4. CASE BackupStep(c)
    <3>1. /\ disk'["doc"] = None
          /\ disk'["backup"] = IF disk["doc"] = None THEN disk["backup"] ELSE disk["doc"]
      BY <1>1, <2>4 DEF BackupStep, Rename
    <3>2. DocNewest' /\ \A d \in Child : DocAway(d)'
      BY <3>1 DEF DocNewest, DocAway
    <3>3. BackupNewest'
      BY <1>1, <2>1, <3>1, InfoType DEF BackupNewest, Versions, Newest
    <3>4. AllNewest'
      BY <2>2, <2>3, <3>2, <3>3 DEF AllNewest
    <3>5. QED
      BY <3>4, VersionParts, PTL
  <2>5. CASE DiscardStep(c)
    <3>1. /\ disk'["doc"] = disk["doc"] /\ disk'["backup"] = None
          /\ pc[c] = "discard" /\ pc'[c] = "note"
      BY <1>1, <2>5 DEF DiscardStep, Unlink
    <3>2. DocNewest' /\ BackupNewest'
      BY <1>1, <2>1, <3>1, InfoType DEF DocNewest, BackupNewest, Versions, Newest
    <3>3. \A d \in Child : DocAway(d)'
      BY <1>3, <3>1 DEF DocAway, Versions, Asking, SameTold
    <3>4. AllNewest'
      BY <2>2, <2>3, <3>2, <3>3 DEF AllNewest
    <3>5. QED
      BY <3>4, VersionParts, PTL
  <2>6. CASE RestoreStep(c)
    <3>1. pc[c] = "restore" /\ pc'[c] = "unlock" /\ ~Due(c) /\ disk["doc"] = None
      BY <2>6 DEF RestoreStep, Versions, Asking, Works, IInv, Deaf
    <3>2. disk["backup"] = None =>
              disk'["doc"] = None /\ disk'["backup"] = None
      BY <1>1, <2>6, <3>1 DEF RestoreStep, Restored, Rename
    <3>3. disk["backup"] # None =>
              /\ disk'["doc"].v = disk["backup"].v /\ disk'["backup"] = None
      BY <1>1, <2>6, RestoredFile DEF RestoreStep
    <3>4. DocNewest'
      BY <1>1, <2>1, <3>1, <3>2, <3>3, InfoType DEF DocNewest, Versions, Newest
    <3>5. BackupNewest'
      BY <3>2, <3>3 DEF BackupNewest
    <3>6. ASSUME NEW d \in Child
          PROVE  DocAway(d)'
      <4>1. Asking(d)' => d # c /\ pc[d] \in Filling
        BY <1>3, <3>1 DEF Asking, Filling
      <4>2. Asking(d)' => Due(d)'
        BY <1>1, <1>3, <3>1, <4>1, SoleFiller DEF Filling
      <4>3. QED
        BY <4>2 DEF DocAway
    <3>7. AllNewest'
      BY <2>2, <2>3, <3>4, <3>5, <3>6 DEF AllNewest
    <3>8. QED
      BY <3>7, VersionParts, PTL
  <2>7. QED
    BY <1>6, <2>4, <2>5, <2>6
<1>7. QED
  BY <1>5, <1>6

\* The only collection that removes the document when it is the last that knows of it.
LEMMA SweptUnknown ==
    ASSUME IInv, NEW c \in Child, AloneCollecting(c), SweepStep(c), info = None,
           ~Meets(c, InUse), disk' = Unlink(disk, "doc"),
           sweep'[c].files = sweep[c].files \ {"doc"}
    PROVE  Known' = {}
<1>1. /\ info' = None /\ pc[c] = "flush" /\ pc'[c] = "flush" /\ "doc" \notin sweep'[c].files
      /\ \A d \in Child \ {c} : pc'[d] = pc[d]
  BY DEF SweepStep, AloneCollecting
<1>2. ASSUME NEW d \in Child, Held(d)'
      PROVE  FALSE
  <2>1. d # c
    BY <1>1, <1>2 DEF Held
  <2>2. Collecting(d) /\ Collecting(c)
    BY <1>1, <1>2, <2>1 DEF Held, Collecting
  <2>3. QED
    BY <2>1, <2>2, SoleCollector
<1>3. ASSUME NEW d \in Child, KnowsDocument(d)' \/ KnowsEntry(d)'
      PROVE  FALSE
  <2>1. d # c
    BY <1>1, <1>3 DEF KnowsDocument, KnowsEntry
  <2>2. pc[d] \in InUse
    BY <1>1, <1>3, <2>1 DEF KnowsDocument, KnowsEntry, InUse, Refilling
  <2>3. QED
    BY <2>1, <2>2 DEF Meets
<1>4. QED
  BY <1>1, <1>2, <1>3 DEF Known

LEMMA VersionsCollection ==
    ASSUME IInv, JobsTrue, Versions, HoldersStay, NEW c \in Child, AloneCollecting(c),
           CollectionStep(c), CollectionCrosses(c), "sweep" \notin crossed'
    PROVE  Versions'
<1>1. /\ CacheTypeOK /\ UNCHANGED world /\ disk = [n \in Name |-> disk[n]]
      /\ Name = {"doc", "backup", "lock"}
  BY DEF IInv, AloneCollecting, CacheTypeOK, Name
<1>2. \A b \in Nat : (\A k \in Known : k <= b) => \A k \in Known' : k <= b
  BY <1>1, KnownGrows
<1>3. \A d \in Child : SameTold(d) /\ (Due(d)' <=> Due(d)) /\ (d # c => pc'[d] = pc[d])
  BY <1>1 DEF AloneCollecting, Due, SameTold, SameAnswer, world
<1>4. pc'[c] \in {"collect", "flush", "gone"}
  BY DEF CollectionStep, ReadInfoStep, CollectStep, SweepStep, FlushStep
<1>5. OriginNewest'
  BY <1>1, <1>2, InfoType DEF OriginNewest, Versions, Newest, world
<1>6. \A d \in Child : CopyNewest(d)'
  BY <1>1, <1>2, <1>3, <1>4, InfoType
     DEF CopyNewest, Versions, Newest, SameTold, HoldersStay, world
<1>7. ASSUME disk'["doc"] = None \/ disk'["doc"] = disk["doc"]
      PROVE  \A d \in Child : DocAway(d)'
  BY <1>3, <1>4, <1>7 DEF DocAway, Versions, Asking, SameTold
<1>8. CASE SameNames
  <2>1. DocNewest' /\ BackupNewest'
    BY <1>1, <1>2, <1>8, InfoType DEF DocNewest, BackupNewest, Versions, Newest, SameNames
  <2>2. AllNewest'
    BY <1>5, <1>6, <1>7, <1>8, <2>1 DEF AllNewest, SameNames
  <2>3. QED
    BY <2>2, VersionParts, PTL
<1>9. CASE ~SameNames
  <2>1. SweepStep(c)
    BY <1>9 DEF CollectionStep, ReadInfoStep, CollectStep, FlushStep
  <2>2. PICK n \in {"doc", "backup"} :
           disk' = Unlink(disk, n) /\ sweep'[c].files = sweep[c].files \ {n}
    BY <2>1 DEF SweepStep
  <2>3. CASE n = "backup"
    <3>1. disk'["doc"] = disk["doc"] /\ disk'["backup"] = None
      BY <1>1, <2>2, <2>3 DEF Unlink
    <3>2. DocNewest' /\ BackupNewest'
      BY <1>1, <1>2, <3>1, InfoType DEF DocNewest, BackupNewest, Versions, Newest
    <3>3. AllNewest'
      BY <1>5, <1>6, <1>7, <3>1, <3>2 DEF AllNewest
    <3>4. QED
      BY <3>3, VersionParts, PTL
  <2>4. CASE n = "doc"
    <3>1. disk'["doc"] = None /\ disk' # disk
      BY <1>1, <1>9, <2>2, <2>4 DEF Unlink, SameNames
    <3>2. info = None /\ ~Meets(c, InUse)
      BY <2>1, <3>1 DEF CollectionCrosses, SweepStep
    <3>3. Known' = {}
      BY <2>1, <2>2, <2>4, <3>2, SweptUnknown
    <3>4. DocNewest' /\ BackupNewest'
      BY <3>1, <3>3 DEF DocNewest, BackupNewest, Newest
    <3>5. AllNewest'
      BY <1>5, <1>6, <1>7, <3>1, <3>4 DEF AllNewest
    <3>6. QED
      BY <3>5, VersionParts, PTL
  <2>5. QED
    BY <2>3, <2>4
<1>10. QED
  BY <1>8, <1>9

LEMMA VersionsKept ==
    ASSUME IInv, CacheTypeOK', [Next]_vars, ~stolen', "sweep" \notin crossed', JobsTrue, Versions
    PROVE  Versions'
<1>1. CacheTypeOK /\ Deaf /\ ~stolen /\ HoldersStay
  BY Steps, HoldersKept DEF IInv
<1>2. CASE Still
  BY <1>1, <1>2, VersionsStill
<1>3. ASSUME NEW c \in Child, Alone(c), RequestStep(c), Works(c)
      PROVE  Versions'
  <2>1. CASE BackupStep(c) \/ CreatedStep(c) \/ DiscardStep(c) \/ RestoreStep(c)
    BY <1>1, <1>3, <2>1, VersionsMoved
  <2>2. CASE ~(BackupStep(c) \/ CreatedStep(c) \/ DiscardStep(c) \/ RestoreStep(c))
    BY <1>1, <1>3, <2>2, VersionsRequest
  <2>3. QED
    BY <2>1, <2>2
<1>4. ASSUME NEW c \in Child, AloneCollecting(c), CollectionStep(c), CollectionCrosses(c)
      PROVE  Versions'
  BY <1>1, <1>4, VersionsCollection
<1>5. QED
  BY <1>2, <1>3, <1>4, Steps

\* Who has been told that the document has not changed, and knows of which one that has been
\* said, has that one or a newer one when it opens it.
LEMMA SameKept ==
    ASSUME IInv, CacheTypeOK', [Next]_vars, JobsTrue, ~stolen', "sweep" \notin crossed', Versions,
           SameDocument
    PROVE  SameDocument'
<1> DEFINE Good(d) == job'[d].same /\ job'[d].got # None /\ ~job'[d].misled
                          => job'[d].got.v >= job'[d].v
<1>1. /\ CacheTypeOK /\ ~stolen /\ "sweep" \notin crossed
  BY Steps DEF IInv
<1>2. ASSUME NEW d \in Child, SameTold(d) \/ job'[d].got = None
      PROVE  Good(d)
  BY <1>1, <1>2, Zenon DEF SameTold, SameAnswer, SameDocument
<1>3. CASE Still
  <2>1. \A d \in Child : Good(d)
    BY <1>2, <1>3 DEF Still, Cleared
  <2>2. QED
    BY <2>1 DEF SameDocument
<1>4. ASSUME NEW c \in Child, Alone(c), RequestStep(c)
      PROVE  SameDocument'
  <2>1. \A d \in Child \ {c} : Good(d)
    BY <1>2, <1>4 DEF Alone
  <2>2. CASE ResendStep(c)
    <3>1. /\ job'[c].got = disk["doc"] /\ job'[c].v = job[c].v /\ job'[c].misled = job[c].misled
          /\ pc[c] = "resend"
      BY <2>2 DEF ResendStep
    <3>2. ASSUME disk["doc"] # None, ~job[c].misled
          PROVE  job[c].v <= disk["doc"].v
      <4>1. job[c].v \in Known
        BY <1>1, <3>1, <3>2, InfoType DEF Known, KnowsDocument
      <4>2. QED
        BY <3>2, <4>1 DEF Versions, Newest
    <3>3. disk["doc"] # None => disk["doc"].v \in Nat /\ job[c].v \in Nat
      BY <1>1, InfoType
    <3>4. Good(c)
      BY <3>1, <3>2, <3>3
    <3>5. QED
      BY <2>1, <3>4 DEF SameDocument
  <2>3. CASE FoundStep(c)
    <3>1. ~job[c].same
      BY <2>3 DEF FoundStep, JobsTrue, Served
    <3>2. QED
      BY <2>1, <2>3, <3>1 DEF FoundStep, SameDocument
  <2>4. CASE NoteStep(c)
    <3>1. SameTold(c) \/ job'[c].got = None
      BY <2>4 DEF NoteStep, Cleared
    <3>2. QED
      BY <1>2, <2>1, <3>1 DEF SameDocument
  <2>5. CASE ~ResendStep(c) /\ ~FoundStep(c) /\ ~NoteStep(c)
    <3>1. pc[c] \in Served \ {"sending"} /\ SameAnswer(c)
      BY <1>4, <2>5
         DEF RequestStep, QuietStep, InfoStep, NotModifiedStep, DocumentStep, BackupStep,
             CreatedStep, DiscardStep, RereadStep, RestoreStep, RenoteStep, Served, SameTold
    <3>2. job'[c].got = None
      BY <3>1 DEF JobsTrue, SameAnswer
    <3>3. QED
      BY <1>2, <2>1, <3>2 DEF SameDocument
  <2>6. QED
    BY <2>2, <2>3, <2>4, <2>5
<1>5. ASSUME NEW c \in Child, AloneCollecting(c)
      PROVE  SameDocument'
  <2>1. \A d \in Child : Good(d)
    BY <1>2, <1>5 DEF AloneCollecting
  <2>2. QED
    BY <2>1 DEF SameDocument
<1>6. QED
  BY <1>3, <1>4, <1>5, Steps

---------------------------------------------------------------------------
(* Dates                                                                   *)

\* The parts of the dates, child by child.
End == IF disk["doc"] # None THEN disk["doc"].ex ELSE clock

EntryEnds ==
    info # None => /\ info.ex = info.anyEx \/ (info.ex = 0 /\ info.anyEx <= clock + Margin)
                   /\ info.anyEx <= End + Margin
HeldEnds(d)   == Held(d) => sweep[d].entry.ex <= End + Margin
RefillEnds(c) == pc[c] \in Refilling /\ info # None => info.anyEx <= clock + Margin
CopyEnds(c) ==
    /\ pc[c] \in {"body", "created"} /\ info # None => info.anyEx <= job[c].ex + Margin
    /\ pc[c] \in {"reread", "restore"} /\ info # None =>
           job[c].ex = 0 \/ info.anyEx <= job[c].ex + Margin
PlacedEnds(c) ==
    /\ pc[c] \in {"discard", "note"} => disk["doc"] # None /\ disk["doc"].ex = job[c].ex
    /\ pc[c] \in {"unlock", "renote"} =>
           disk["doc"] # None /\ (job[c].ex = 0 \/ disk["doc"].ex = job[c].ex)
Backed(c) ==
    /\ pc[c] \in {"info", "relock", "backup"} => disk["doc"] # None \/ disk["backup"] # None
    /\ Asking(c) => disk["backup"] # None
FoundEnds(c) ==
    pc[c] = "found" =>
        /\ disk["doc"] # None => disk["doc"].ex > job[c].now
        /\ \/ job[c].now < clock
           \/ info # None /\ info.anyEx > job[c].now + Margin
           \/ Flushing
CopyLater(c, e) ==
    pc[c] = "found" =>
        \/ Flushing
        \/ /\ pc[e] \in {"body", "created"} => job[e].ex > job[c].now
           /\ pc[e] \in {"reread", "restore"} => job[e].ex = 0 \/ job[e].ex > job[c].now

ChildDates(c) ==
    HeldEnds(c) /\ RefillEnds(c) /\ CopyEnds(c) /\ PlacedEnds(c) /\ Backed(c) /\ FoundEnds(c)

AllDates ==
    EntryEnds /\ \A c \in Child : ChildDates(c) /\ \A e \in Child : CopyLater(c, e)

LEMMA DateParts == Dates <=> AllDates
<1>1. EntryDates <=> EntryEnds /\ \A c \in Child : HeldEnds(c) /\ RefillEnds(c)
  BY DEF EntryDates, EntryEnds, HeldEnds, RefillEnds, End
<1>2. JobDates <=> \A c \in Child : CopyEnds(c) /\ PlacedEnds(c) /\ Backed(c)
  BY DEF JobDates, CopyEnds, PlacedEnds, Backed
<1>3. FoundDates <=> \A c \in Child : FoundEnds(c) /\ \A e \in Child : CopyLater(c, e)
  BY DEF FoundDates, FoundEnds, CopyLater
<1>4. QED
  BY <1>1, <1>2, <1>3 DEF Dates, AllDates, ChildDates

LEMMA DatesStill ==
    ASSUME CacheTypeOK, AllDates, Still
    PROVE  AllDates'
<1>1. /\ SameNames /\ info' = info /\ clock \in Nat /\ clock' \in Nat /\ clock <= clock'
      /\ Margin \in Nat
      /\ info # None => info.anyEx \in Nat
      /\ \A d \in Child : /\ job[d].now \in Nat
                          /\ Held(d) => sweep[d].entry.ex \in Nat
      /\ disk["doc"] # None => disk["doc"].ex \in Nat
  BY InfoType DEF Still
<1>2. End \in Nat /\ End' \in Nat /\ End <= End'
  BY <1>1 DEF End, SameNames
<1>3. ASSUME NEW d \in Child
      PROVE  \/ pc'[d] \in Off
             \/ pc'[d] = pc[d] /\ SameTold(d) /\ sweep'[d] = sweep[d]
  BY DEF Still, Cleared
<1>4. Flushing => Flushing'
  BY DEF Flushing, Still, Cleared
<1>5. EntryEnds'
  <2>1. ASSUME info # None
        PROVE  /\ info.ex = info.anyEx \/ (info.ex = 0 /\ info.anyEx <= clock' + Margin)
               /\ info.anyEx <= End' + Margin
    <3>1. /\ info.ex = info.anyEx \/ (info.ex = 0 /\ info.anyEx <= clock + Margin)
          /\ info.anyEx <= End + Margin /\ info.anyEx \in Nat
      BY <1>1, <2>1 DEF AllDates, EntryEnds
    <3>2. QED
      BY <1>1, <1>2, <3>1
  <2>2. QED
    BY <1>1, <2>1 DEF EntryEnds
<1>6. ASSUME NEW d \in Child
      PROVE  ChildDates(d)'
  <2>1. CASE pc'[d] \in Off
    BY <2>1
       DEF Off, Refilling, ChildDates, HeldEnds, Held, RefillEnds, CopyEnds, PlacedEnds, Backed,
           Asking, FoundEnds
  <2>2. CASE pc'[d] = pc[d] /\ SameTold(d) /\ sweep'[d] = sweep[d]
    <3>0. ChildDates(d)
      BY DEF AllDates
    <3>1. HeldEnds(d)' /\ RefillEnds(d)'
      BY <1>1, <1>2, <2>2, <3>0 DEF ChildDates, HeldEnds, Held, RefillEnds
    <3>2. CopyEnds(d)' /\ PlacedEnds(d)' /\ Backed(d)'
      BY <1>1, <2>2
         DEF AllDates, ChildDates, CopyEnds, PlacedEnds, Backed, Asking, SameNames, SameTold
    <3>3. FoundEnds(d)'
      <4>1. job[d].now < clock => job[d].now < clock'
        BY <1>1
      <4>2. QED
        BY <1>1, <1>4, <2>2, <3>0, <4>1
           DEF ChildDates, FoundEnds, SameNames, SameTold, SameAnswer
    <3>4. QED
      BY <3>1, <3>2, <3>3 DEF ChildDates
  <2>3. QED
    BY <1>3, <2>1, <2>2
<1>7. ASSUME NEW d \in Child, NEW e \in Child
      PROVE  CopyLater(d, e)'
  BY <1>3, <1>4 DEF Off, CopyLater, AllDates, SameTold, SameAnswer
<1>8. QED
  BY <1>5, <1>6, <1>7 DEF AllDates

\* A request that moves no file and writes no entry only changes what is said of itself.
LEMMA DatesStay ==
    ASSUME CacheTypeOK, AllDates, NEW c \in Child, Alone(c), SameNames, info' = info,
           pc[c] # "flush", ChildDates(c)',
           \A d \in Child : CopyLater(c, d)' /\ CopyLater(d, c)'
    PROVE  AllDates'
<1>1. clock' = clock /\ sweep' = sweep /\ End' = End
  BY DEF Alone, world, End, SameNames
<1>2. \A d \in Child \ {c} : pc'[d] = pc[d] /\ SameTold(d)
  BY DEF Alone
<1>3. Flushing => Flushing'
  BY <1>2 DEF Flushing
<1>4. EntryEnds'
  BY <1>1 DEF EntryEnds, AllDates
<1>5. ASSUME NEW d \in Child \ {c}
      PROVE  ChildDates(d)'
  <2>1. ChildDates(d) /\ pc'[d] = pc[d] /\ SameTold(d)
    BY <1>2 DEF AllDates
  <2>2. HeldEnds(d)' /\ RefillEnds(d)'
    BY <1>1, <2>1 DEF ChildDates, HeldEnds, Held, RefillEnds
  <2>3. CopyEnds(d)' /\ PlacedEnds(d)' /\ Backed(d)'
    BY <2>1 DEF ChildDates, CopyEnds, PlacedEnds, Backed, Asking, SameNames, SameTold
  <2>4. FoundEnds(d)'
    BY <1>1, <1>3, <2>1 DEF ChildDates, FoundEnds, SameNames, SameTold, SameAnswer
  <2>5. QED
    BY <2>2, <2>3, <2>4 DEF ChildDates
<1>6. ASSUME NEW d \in Child \ {c}, NEW e \in Child \ {c}
      PROVE  CopyLater(d, e)'
  BY <1>2, <1>3 DEF CopyLater, AllDates, SameTold, SameAnswer
<1>7. QED
  BY <1>4, <1>5, <1>6 DEF AllDates

\* The entry is fresh only before the document expires, and before any copy does that is about
\* to replace it.
LEMMA FreshDates ==
    ASSUME CacheTypeOK, AllDates, NEW c \in Child, Fresh(c)
    PROVE  /\ info # None /\ info.anyEx > job[c].now + Margin /\ End > job[c].now
           /\ \A e \in Child :
                 /\ pc[e] \in {"body", "created"} => job[e].ex > job[c].now
                 /\ pc[e] \in {"reread", "restore"} => job[e].ex = 0 \/ job[e].ex > job[c].now
<1>1. /\ info # None /\ info.ex - Margin > job[c].now
      /\ info.ex \in Nat /\ info.anyEx \in Nat /\ Margin \in Nat /\ job[c].now \in Nat
      /\ \A e \in Child : job[e].ex \in Nat
  BY InfoType DEF Fresh
<1>2. info.ex = info.anyEx /\ info.anyEx <= End + Margin
  BY <1>1 DEF AllDates, EntryEnds
<1>3. info.anyEx > job[c].now + Margin /\ End \in Nat
  BY <1>1, <1>2, InfoType DEF End
<1>4. End > job[c].now
  BY <1>1, <1>2, <1>3
<1>5. ASSUME NEW e \in Child
      PROVE  /\ pc[e] \in {"body", "created"} => job[e].ex > job[c].now
             /\ pc[e] \in {"reread", "restore"} => job[e].ex = 0 \/ job[e].ex > job[c].now
  <2>1. /\ pc[e] \in {"body", "created"} => info.anyEx <= job[e].ex + Margin
        /\ pc[e] \in {"reread", "restore"} =>
               job[e].ex = 0 \/ info.anyEx <= job[e].ex + Margin
    BY <1>1 DEF AllDates, ChildDates, CopyEnds
  <2>2. QED
    BY <1>1, <1>3, <2>1
<1>6. QED
  BY <1>1, <1>3, <1>4, <1>5

\* The one that is not fresh has expired, unless the client has asked to bypass the cache.
LEMMA StaleDates ==
    ASSUME CacheTypeOK, LocksOld, AllDates, NEW c \in Child, ~Fresh(c), ~job[c].forced,
           pc[c] \in Served, info # None
    PROVE  info.anyEx <= clock + Margin
<1>1. /\ info.ex - Margin <= job[c].now /\ job[c].now <= clock
      /\ info.ex \in Nat /\ Margin \in Nat /\ job[c].now \in Nat /\ clock \in Nat
  BY InfoType DEF Fresh, LocksOld
<1>2. info.ex = info.anyEx \/ info.anyEx <= clock + Margin
  BY DEF AllDates, EntryEnds
<1>3. QED
  BY <1>1, <1>2

\* A copy that expires in the second it comes in or later does so after whoever has found the
\* entry fresh.
LEMMA NewCopyDates ==
    ASSUME CacheTypeOK, AllDates, NEW c \in Child, pc[c] \in Refilling, NEW ex \in Nat,
           ex >= clock, NEW d \in Child, pc[d] = "found", ~Flushing
    PROVE  ex > job[d].now
<1>1. clock \in Nat /\ Margin \in Nat /\ job[d].now \in Nat /\ (info # None => info.anyEx \in Nat)
  BY InfoType
<1>2. job[d].now < clock \/ (info # None /\ info.anyEx > job[d].now + Margin)
  BY DEF AllDates, ChildDates, FoundEnds
<1>3. info # None => info.anyEx <= clock + Margin
  BY DEF AllDates, ChildDates, RefillEnds
<1>4. job[d].now < clock
  BY <1>1, <1>2, <1>3
<1>5. QED
  BY <1>1, <1>4

LEMMA DatesQuiet ==
    ASSUME CacheTypeOK, JobsTrue, AllDates, NEW c \in Child, Alone(c), QuietStep(c)
    PROVE  AllDates'
<1>1. /\ SameNames /\ info' = info /\ SameTold(c) /\ clock' = clock
      /\ ChildDates(c) /\ pc[c] \notin {"collect", "flush"} /\ pc'[c] \notin {"collect", "flush"}
  BY DEF QuietStep, Alone, world, AllDates
<1>2. \A d \in Child \ {c} : pc'[d] = pc[d] /\ SameTold(d)
  BY DEF Alone
<1>3. Flushing <=> Flushing'
  BY <1>1, <1>2 DEF Flushing
<1>4. HeldEnds(c)'
  BY <1>1 DEF HeldEnds, Held
<1>5. RefillEnds(c)'
  <2>1. CASE pc[c] = "stat"
    BY <1>1, <2>1 DEF QuietStep, RefillEnds, Refilling, AllDates, EntryEnds, End
  <2>2. CASE pc[c] # "stat"
    BY <1>1, <2>2 DEF QuietStep, RefillEnds, Refilling, ChildDates
  <2>3. QED
    BY <2>1, <2>2
<1>6. CopyEnds(c)'
  BY <1>1 DEF QuietStep, CopyEnds, ChildDates, SameTold
<1>7. PlacedEnds(c)'
  BY <1>1 DEF QuietStep, PlacedEnds, ChildDates, SameTold, SameNames
<1>8. Backed(c)'
  BY <1>1 DEF QuietStep, Backed, Asking, ChildDates, SameTold, SameNames, JobsTrue
<1>9. FoundEnds(c)' /\ \A e \in Child : CopyLater(c, e)'
  <2>1. CASE pc'[c] # "found"
    BY <2>1 DEF FoundEnds, CopyLater
  <2>2. CASE pc'[c] = "found"
    <3>1. pc[c] = "info" /\ Fresh(c)
      BY <2>2 DEF QuietStep
    <3>2. /\ info # None /\ info.anyEx > job[c].now + Margin /\ End > job[c].now
          /\ \A e \in Child :
                /\ pc[e] \in {"body", "created"} => job[e].ex > job[c].now
                /\ pc[e] \in {"reread", "restore"} => job[e].ex = 0 \/ job[e].ex > job[c].now
      BY <3>1, FreshDates
    <3>3. FoundEnds(c)'
      BY <1>1, <3>2 DEF FoundEnds, End, SameNames, SameTold, SameAnswer
    <3>4. \A e \in Child \ {c} : CopyLater(c, e)'
      BY <1>1, <1>2, <3>2 DEF CopyLater, SameTold, SameAnswer
    <3>5. CopyLater(c, c)'
      BY <2>2 DEF CopyLater
    <3>6. QED
      BY <3>3, <3>4, <3>5
  <2>3. QED
    BY <2>1, <2>2
<1>10. ASSUME NEW d \in Child \ {c}
       PROVE  CopyLater(d, c)'
  BY <1>1, <1>2, <1>3 DEF QuietStep, CopyLater, AllDates, SameTold, SameAnswer
<1>11. ChildDates(c)'
  BY <1>4, <1>5, <1>6, <1>7, <1>8, <1>9 DEF ChildDates
<1>12. QED
  BY <1>1, <1>9, <1>10, <1>11, DatesStay

\* The other requests that move no file and write no entry.
LEMMA DatesTold ==
    ASSUME CacheTypeOK, CacheTypeOK', LocksOld, JobsTrue, NoBypass, AllDates, NEW c \in Child,
           Alone(c),
           \/ InfoStep(c) \/ FoundStep(c) \/ ResendStep(c) \/ NotModifiedStep(c)
           \/ DocumentStep(c) \/ RereadStep(c)
    PROVE  AllDates'
<1>1. /\ SameNames /\ info' = info /\ clock' = clock
      /\ ChildDates(c) /\ pc[c] \in Served /\ pc'[c] \notin {"collect", "flush", "found"}
      /\ pc'[c] \notin {"discard", "note", "unlock", "renote", "created", "info"}
  BY DEF InfoStep, FoundStep, ResendStep, NotModifiedStep, DocumentStep, RereadStep, Alone,
         world, AllDates, Served
<1>2. \A d \in Child \ {c} : pc'[d] = pc[d] /\ SameTold(d)
  BY DEF Alone
<1>3. Flushing <=> Flushing'
  BY <1>1, <1>2 DEF Flushing, Served
<1>4. /\ clock \in Nat /\ Margin \in Nat /\ job'[c].ex \in Nat /\ job[c].ex \in Nat
      /\ info # None => info.anyEx \in Nat
  <2>1. job'[c].ex \in Nat
    BY DEF CacheTypeOK, Job
  <2>2. QED
    BY <2>1, InfoType
<1>5. HeldEnds(c)' /\ PlacedEnds(c)' /\ FoundEnds(c)' /\ \A e \in Child : CopyLater(c, e)'
  BY <1>1 DEF HeldEnds, Held, PlacedEnds, FoundEnds, CopyLater
<1>6. RefillEnds(c)'
  <2>1. CASE InfoStep(c)
    <3>1. ~job[c].forced
      BY DEF JobsTrue, NoBypass
    <3>2. info # None => info.anyEx <= clock + Margin
      BY <1>1, <2>1, <3>1, StaleDates DEF InfoStep
    <3>3. QED
      BY <1>1, <3>2 DEF RefillEnds
  <2>2. CASE ~InfoStep(c)
    BY <1>1, <2>2
       DEF FoundStep, ResendStep, NotModifiedStep, DocumentStep, RereadStep, RefillEnds,
           Refilling, ChildDates
  <2>3. QED
    BY <2>1, <2>2
<1>7. CASE InfoStep(c) \/ FoundStep(c) \/ ResendStep(c)
  <2>1. CopyEnds(c)'
    BY <1>7 DEF InfoStep, FoundStep, ResendStep, CopyEnds
  <2>2. Backed(c)'
    BY <1>1, <1>7
       DEF InfoStep, FoundStep, ResendStep, Backed, Asking, ChildDates, SameNames
  <2>3. \A d \in Child \ {c} : CopyLater(d, c)'
    BY <1>7 DEF InfoStep, FoundStep, ResendStep, CopyLater
  <2>4. ChildDates(c)'
    BY <1>5, <1>6, <2>1, <2>2 DEF ChildDates
  <2>5. QED
    BY <1>1, <1>5, <2>3, <2>4, DatesStay DEF Served
<1>8. CASE NotModifiedStep(c) \/ DocumentStep(c)
  <2>1. /\ pc[c] = "ask" /\ pc[c] \in Refilling
        /\ \/ pc'[c] = "reread" /\ (job'[c].ex = 0 \/ job'[c].ex >= clock)
           \/ pc'[c] = "body" /\ job'[c].ex >= clock
    BY <1>8 DEF NotModifiedStep, DocumentStep, Refilling
  <2>2. info # None => info.anyEx <= clock + Margin
    BY <2>1 DEF AllDates, ChildDates, RefillEnds
  <2>3. CopyEnds(c)'
    BY <1>1, <1>4, <2>1, <2>2 DEF CopyEnds
  <2>4. Backed(c)'
    BY <1>1, <1>8
       DEF NotModifiedStep, DocumentStep, Backed, Asking, ChildDates, SameNames
  <2>5. ASSUME NEW d \in Child \ {c}
        PROVE  CopyLater(d, c)'
    <3>1. pc[d] = "found" /\ ~Flushing /\ job'[c].ex >= clock => job'[c].ex > job[d].now
      BY <1>4, <2>1, NewCopyDates
    <3>2. QED
      BY <1>2, <1>3, <2>1, <3>1 DEF CopyLater, SameTold, SameAnswer
  <2>6. ChildDates(c)'
    BY <1>5, <1>6, <2>3, <2>4 DEF ChildDates
  <2>7. QED
    BY <1>1, <1>5, <2>5, <2>6, DatesStay DEF Served
<1>9. CASE RereadStep(c)
  <2>1. pc[c] = "reread" /\ pc'[c] = "restore" /\ job'[c].ex = job[c].ex
    BY <1>9 DEF RereadStep
  <2>2. CopyEnds(c)' /\ Backed(c)'
    BY <1>1, <2>1 DEF CopyEnds, Backed, Asking, ChildDates, SameNames
  <2>3. ASSUME NEW d \in Child \ {c}
        PROVE  CopyLater(d, c)'
    BY <1>2, <1>3, <2>1 DEF CopyLater, AllDates, SameTold, SameAnswer
  <2>4. ChildDates(c)'
    BY <1>5, <1>6, <2>2 DEF ChildDates
  <2>5. QED
    BY <1>1, <1>5, <2>3, <2>4, DatesStay DEF Served
<1>10. QED
  BY <1>7, <1>8, <1>9

\* A request that moves a file or writes an entry does so while nobody else refills the cache,
\* and nobody collects.
LEMMA DatesMove ==
    ASSUME CacheTypeOK, AllDates, NEW c \in Child, Alone(c), RequestCrosses(c), crossed' = {},
           pc[c] \in Refilling,
           pc'[c] \in {"ask", "discard", "note", "unlock", "resend"} \cup Off,
           EntryEnds', RefillEnds(c)', PlacedEnds(c)', Backed(c)',
           SameNames \/ disk'["doc"] # None \/ disk'["backup"] # None,
           ~Flushing => \A d \in Child \ {c} : FoundEnds(d)'
    PROVE  AllDates'
<1>1. /\ pc[c] \notin {"collect", "flush"}
      /\ pc'[c] \notin {"collect", "flush", "found", "body", "created", "reread", "restore"}
  BY DEF Refilling, Off
<1>2. ChildDates(c)'
  BY <1>1 DEF ChildDates, HeldEnds, Held, CopyEnds, FoundEnds
<1>3. \A d \in Child : CopyLater(c, d)' /\ CopyLater(d, c)'
  BY <1>1 DEF CopyLater
<1>4. CASE info' = info /\ SameNames
  BY <1>1, <1>2, <1>3, <1>4, DatesStay
<1>5. CASE ~(info' = info /\ SameNames)
  <2>1. ~Meets(c, Refilling) /\ ~Meets(c, {"collect", "flush"})
    BY <1>5 DEF RequestCrosses, SameNames
  <2>2. \A d \in Child \ {c} : /\ pc'[d] = pc[d] /\ SameTold(d)
                               /\ pc[d] \notin Refilling \cup {"collect", "flush"}
    BY <2>1 DEF Meets, Alone
  <2>3. ~Flushing
    BY <1>1, <2>2 DEF Flushing
  <2>4. ASSUME NEW d \in Child \ {c}
        PROVE  ChildDates(d)'
    <3>1. HeldEnds(d)' /\ RefillEnds(d)' /\ CopyEnds(d)' /\ PlacedEnds(d)'
      BY <2>2 DEF HeldEnds, Held, RefillEnds, CopyEnds, PlacedEnds, Refilling
    <3>2. Backed(d)'
      BY <2>2 DEF Backed, Asking, Refilling, AllDates, ChildDates, SameNames
    <3>3. QED
      BY <2>3, <3>1, <3>2 DEF ChildDates
  <2>5. ASSUME NEW d \in Child \ {c}, NEW e \in Child \ {c}
        PROVE  CopyLater(d, e)'
    BY <2>2 DEF CopyLater, Refilling
  <2>6. QED
    BY <1>2, <1>3, <2>4, <2>5 DEF AllDates
<1>6. QED
  BY <1>4, <1>5

\* Whoever has found the entry fresh has done so before this second, if there is a request that
\* has found it stale.
LEMMA FoundBefore ==
    ASSUME CacheTypeOK, LocksOld, AllDates, NEW c \in Child, pc[c] \in Refilling,
           NEW d \in Child, pc[d] = "found", ~Flushing
    PROVE  job[d].now < clock
<1>1. clock \in Nat /\ Margin \in Nat /\ job[d].now \in Nat /\ (info # None => info.anyEx \in Nat)
  BY InfoType
<1>2. job[d].now < clock \/ (info # None /\ info.anyEx > job[d].now + Margin)
  BY DEF AllDates, ChildDates, FoundEnds
<1>3. info # None => info.anyEx <= clock + Margin
  BY DEF AllDates, ChildDates, RefillEnds
<1>4. QED
  BY <1>1, <1>2, <1>3, NewCopyDates

\* The entry of a document that has just been put in place.
LEMMA DatesEntered ==
    ASSUME CacheTypeOK, CacheTypeOK', LocksOld, AllDates, NEW c \in Child, Alone(c),
           NoteStep(c) \/ RenoteStep(c), RequestCrosses(c), crossed' = {}
    PROVE  AllDates'
<1>1. /\ SameNames /\ clock' = clock /\ ChildDates(c) /\ pc[c] \in Refilling
      /\ \E lm : Enter(job[c].ex, lm)
      /\ pc'[c] \in {"resend"} \cup Off
  BY DEF NoteStep, RenoteStep, Alone, world, AllDates, Refilling, Cleared
<1>2. /\ clock \in Nat /\ Margin \in Nat /\ job[c].ex \in Nat
      /\ info # None => info.anyEx \in Nat
      /\ disk["doc"] # None => disk["doc"].ex \in Nat
  BY InfoType
<1>3. End' = End /\ disk["doc"] # None /\ (job[c].ex = 0 \/ disk["doc"].ex = job[c].ex)
  BY <1>1 DEF End, SameNames, NoteStep, RenoteStep, ChildDates, PlacedEnds
<1>4. /\ info'.ex = job[c].ex
      /\ info'.anyEx = IF job[c].ex = 0 /\ info # None THEN info.anyEx ELSE job[c].ex
  BY <1>1 DEF Enter
<1>5. info # None => info.anyEx <= clock + Margin /\ info.anyEx <= disk["doc"].ex + Margin
  BY <1>1, <1>3 DEF ChildDates, RefillEnds, AllDates, EntryEnds, End
<1>6. EntryEnds'
  <2>1. End = disk["doc"].ex
    BY <1>3 DEF End
  <2>2. /\ info'.ex = info'.anyEx \/ (info'.ex = 0 /\ info'.anyEx <= clock + Margin)
        /\ info'.anyEx <= End + Margin
    BY <1>2, <1>3, <1>4, <1>5, <2>1
  <2>3. QED
    BY <1>1, <1>3, <2>2 DEF EntryEnds
<1>7. RefillEnds(c)' /\ PlacedEnds(c)' /\ Backed(c)'
  BY <1>1 DEF RefillEnds, PlacedEnds, Backed, Asking, Refilling, Off
<1>8. ASSUME ~Flushing, NEW d \in Child \ {c}
      PROVE  FoundEnds(d)'
  <2>1. pc'[d] = pc[d] /\ SameTold(d)
    BY DEF Alone
  <2>2. pc[d] = "found" => job[d].now < clock
    BY <1>1, <1>8, FoundBefore
  <2>3. QED
    BY <1>1, <2>1, <2>2, Zenon
       DEF FoundEnds, AllDates, ChildDates, SameNames, SameTold, SameAnswer
<1>9. QED
  BY <1>1, <1>6, <1>7, <1>8, DatesMove

\* The document goes, or the backup does that nobody needs any more.
LEMMA DatesAway ==
    ASSUME CacheTypeOK, AllDates, NEW c \in Child, Alone(c), BackupStep(c) \/ DiscardStep(c),
           RequestCrosses(c), crossed' = {}
    PROVE  AllDates'
<1>1. /\ info' = info /\ clock' = clock /\ ChildDates(c) /\ pc[c] \in Refilling /\ SameTold(c)
      /\ disk = [n \in Name |-> disk[n]] /\ Name = {"doc", "backup", "lock"}
      /\ \A d \in Child \ {c} : pc'[d] = pc[d] /\ SameTold(d)
  BY DEF BackupStep, DiscardStep, Alone, world, AllDates, Refilling, CacheTypeOK, Name
<1>2. RefillEnds(c)'
  BY <1>1 DEF RefillEnds, ChildDates
<1>3. CASE BackupStep(c)
  <2>1. /\ pc[c] = "backup" /\ pc'[c] = "ask" /\ disk'["doc"] = None
        /\ disk'["backup"] = IF disk["doc"] = None THEN disk["backup"] ELSE disk["doc"]
    BY <1>1, <1>3 DEF BackupStep, Rename
  <2>2. disk'["backup"] # None
    BY <1>1, <2>1 DEF ChildDates, Backed
  <2>3. EntryEnds'
    BY <1>1, <2>1 DEF EntryEnds, End, AllDates, ChildDates, RefillEnds
  <2>4. PlacedEnds(c)' /\ Backed(c)'
    BY <2>1, <2>2 DEF PlacedEnds, Backed
  <2>5. ASSUME ~Flushing, NEW d \in Child \ {c}
        PROVE  FoundEnds(d)'
    BY <1>1, <2>1, <2>5 DEF FoundEnds, AllDates, ChildDates, SameTold, SameAnswer
  <2>6. QED
    BY <1>1, <1>2, <2>1, <2>2, <2>3, <2>4, <2>5, DatesMove
<1>4. CASE DiscardStep(c)
  <2>1. /\ pc[c] = "discard" /\ pc'[c] = "note" /\ disk'["doc"] = disk["doc"]
        /\ disk["doc"] # None /\ disk["doc"].ex = job[c].ex
    BY <1>1, <1>4 DEF DiscardStep, Unlink, ChildDates, PlacedEnds
  <2>2. EntryEnds'
    BY <1>1, <2>1 DEF EntryEnds, End, AllDates
  <2>3. PlacedEnds(c)' /\ Backed(c)'
    BY <1>1, <2>1 DEF PlacedEnds, Backed, Asking, SameTold
  <2>4. ASSUME ~Flushing, NEW d \in Child \ {c}
        PROVE  FoundEnds(d)'
    BY <1>1, <2>1, <2>4 DEF FoundEnds, AllDates, ChildDates, SameTold, SameAnswer
  <2>5. QED
    BY <1>1, <1>2, <2>1, <2>2, <2>3, <2>4, DatesMove
<1>5. QED
  BY <1>3, <1>4

\* A document is put in place, a new one or the backup.
LEMMA DatesPlaced ==
    ASSUME IInv, JobsTrue, ~stolen, AllDates, NEW c \in Child, Alone(c),
           CreatedStep(c) \/ RestoreStep(c), RequestCrosses(c), crossed' = {}
    PROVE  AllDates'
<1>1. /\ CacheTypeOK /\ LocksOld /\ info' = info /\ clock' = clock /\ ChildDates(c)
      /\ pc[c] \in Refilling /\ SameTold(c)
      /\ disk = [n \in Name |-> disk[n]] /\ Name = {"doc", "backup", "lock"}
      /\ \A d \in Child \ {c} : pc'[d] = pc[d] /\ SameTold(d)
  BY DEF CreatedStep, RestoreStep, Alone, world, AllDates, Refilling, IInv, CacheTypeOK, Name
<1>2. /\ RefillEnds(c)' /\ clock \in Nat /\ Margin \in Nat /\ job[c].ex \in Nat
      /\ info # None => info.ex = info.anyEx
                        \/ (info.ex = 0 /\ info.anyEx <= clock + Margin)
  BY <1>1, InfoType DEF RefillEnds, ChildDates, AllDates, EntryEnds
<1>3. CASE CreatedStep(c)
  <2>1. /\ pc[c] = "created" /\ disk["lock"] # None /\ disk["lock"].ex = job[c].ex
        /\ disk'["doc"] = disk["lock"] /\ pc'[c] \in {"discard", "note"}
    BY <1>1, <1>3 DEF CreatedStep, Holds, JobsTrue, Rename
  <2>2. info # None => info.anyEx <= disk'["doc"].ex + Margin
    BY <1>1, <2>1 DEF ChildDates, CopyEnds
  <2>3. EntryEnds'
    BY <1>1, <1>2, <2>1, <2>2 DEF EntryEnds, End
  <2>4. PlacedEnds(c)' /\ Backed(c)'
    BY <1>1, <2>1 DEF PlacedEnds, Backed, Asking, SameTold
  <2>5. ASSUME ~Flushing, NEW d \in Child \ {c}
        PROVE  FoundEnds(d)'
    <3>1. pc[d] = "found" => job[c].ex > job[d].now
      BY <2>1, <2>5 DEF AllDates, CopyLater
    <3>2. QED
      BY <1>1, <2>1, <2>5, <3>1 DEF FoundEnds, AllDates, ChildDates, SameTold, SameAnswer
  <2>6. QED
    BY <1>1, <1>2, <2>1, <2>3, <2>4, <2>5, DatesMove, Zenon
<1>4. CASE RestoreStep(c)
  <2>1. pc[c] = "restore" /\ pc'[c] = "unlock" /\ disk["backup"] # None
    BY <1>1, <1>4 DEF RestoreStep, ChildDates, Backed, Asking
  <2>2. disk'["doc"] # None /\ disk'["doc"].ex = IF job[c].ex = 0 THEN clock ELSE job[c].ex
    BY <1>1, <1>4, <2>1, RestoredFile DEF RestoreStep
  <2>3. info # None => info.anyEx <= disk'["doc"].ex + Margin
    BY <1>1, <2>1, <2>2 DEF ChildDates, CopyEnds, RefillEnds
  <2>4. EntryEnds'
    BY <1>1, <1>2, <2>2, <2>3 DEF EntryEnds, End
  <2>5. PlacedEnds(c)' /\ Backed(c)'
    BY <1>1, <2>1, <2>2 DEF PlacedEnds, Backed, Asking, SameTold
  <2>6. ASSUME ~Flushing, NEW d \in Child \ {c}
        PROVE  FoundEnds(d)'
    <3>1. pc[d] = "found" => job[d].now < clock
      BY <1>1, <2>6, FoundBefore
    <3>2. pc[d] = "found" => job[c].ex = 0 \/ job[c].ex > job[d].now
      BY <2>1, <2>6 DEF AllDates, CopyLater
    <3>3. job[d].now \in Nat
      BY <1>1, InfoType
    <3>4. QED
      BY <1>1, <1>2, <2>2, <2>6, <3>1, <3>2, <3>3 DEF FoundEnds, SameTold, SameAnswer
  <2>7. QED
    BY <1>1, <1>2, <2>1, <2>2, <2>4, <2>5, <2>6, DatesMove
<1>5. QED
  BY <1>3, <1>4

LEMMA DatesCollection ==
    ASSUME IInv, CacheTypeOK', AllDates, NEW c \in Child, AloneCollecting(c), CollectionStep(c),
           CollectionCrosses(c), crossed' = {}
    PROVE  AllDates'
<1>1. /\ CacheTypeOK /\ clock' = clock /\ Margin \in Nat /\ clock \in Nat
      /\ \A d \in Child : SameTold(d) /\ ChildDates(d)
      /\ \A d \in Child \ {c} : pc'[d] = pc[d] /\ sweep'[d] = sweep[d]
      /\ Collecting(c)
      /\ pc[c] \in {"read", "collect", "flush"} /\ pc'[c] \in {"collect", "flush", "gone"}
      /\ disk = [n \in Name |-> disk[n]] /\ Name = {"doc", "backup", "lock"}
  BY InfoType
     DEF IInv, AloneCollecting, world, AllDates, CollectionStep, ReadInfoStep, CollectStep,
         SweepStep, FlushStep, Collecting, CacheTypeOK, Name
<1>2. RefillEnds(c)' /\ CopyEnds(c)' /\ PlacedEnds(c)' /\ Backed(c)' /\ FoundEnds(c)'
      /\ \A e \in Child : CopyLater(c, e)'
  BY <1>1 DEF RefillEnds, Refilling, CopyEnds, PlacedEnds, Backed, Asking, FoundEnds, CopyLater
<1>3. \A d \in Child \ {c} : ~Held(d)
  BY <1>1, SoleCollector DEF Held, Collecting
<1>4. \A d \in Child \ {c} : HeldEnds(d)'
  BY <1>1, <1>3 DEF HeldEnds, Held
<1>5. CASE ReadInfoStep(c) \/ CollectStep(c)
  <2>1. SameNames /\ End' = End
    BY <1>1, <1>5 DEF ReadInfoStep, CollectStep, SameNames, End
  <2>2. EntryEnds'
    BY <1>1, <1>5, <2>1 DEF ReadInfoStep, CollectStep, EntryEnds, AllDates
  <2>3. HeldEnds(c)'
    <3>1. End \in Nat
      BY <1>1, InfoType DEF End
    <3>2. CASE ReadInfoStep(c)
      <4>1. info # None => info.anyEx <= End + Margin
        BY DEF AllDates, EntryEnds
      <4>2. sweep'[c].entry.ex <= End + Margin
        BY <1>1, <3>1, <3>2, <4>1 DEF ReadInfoStep
      <4>3. QED
        BY <2>1, <4>2 DEF HeldEnds
    <3>3. CASE CollectStep(c)
      BY <1>1, <2>1, <3>3 DEF CollectStep, ChildDates, HeldEnds, Held
    <3>4. QED
      BY <1>5, <3>2, <3>3
  <2>4. info' = info \/ (info' = None /\ Flushing')
    BY <1>5 DEF ReadInfoStep, CollectStep, Flushing
  <2>5. Flushing => Flushing'
    BY <1>1, <1>5 DEF ReadInfoStep, CollectStep, Flushing
  <2>6. ASSUME NEW d \in Child \ {c}
        PROVE  ChildDates(d)'
    <3>1. RefillEnds(d)' /\ CopyEnds(d)'
      BY <1>1, <2>4 DEF ChildDates, RefillEnds, CopyEnds, SameTold
    <3>2. PlacedEnds(d)' /\ Backed(d)'
      BY <1>1, <2>1 DEF ChildDates, PlacedEnds, Backed, Asking, SameNames, SameTold
    <3>3. FoundEnds(d)'
      BY <1>1, <2>1, <2>4, <2>5 DEF ChildDates, FoundEnds, SameNames, SameTold, SameAnswer
    <3>4. QED
      BY <1>4, <3>1, <3>2, <3>3 DEF ChildDates
  <2>7. ASSUME NEW d \in Child \ {c}, NEW e \in Child
        PROVE  CopyLater(d, e)'
    <3>1. pc'[e] = pc[e] \/ pc'[e] \in {"collect", "flush", "gone"}
      BY <1>1
    <3>2. QED
      BY <1>1, <2>5, <3>1 DEF AllDates, CopyLater, SameTold, SameAnswer
  <2>8. QED
    BY <1>2, <2>2, <2>3, <2>6, <2>7 DEF AllDates, ChildDates
<1>6. CASE SweepStep(c) \/ FlushStep(c)
  <2>1. pc[c] = "flush"
    BY <1>6 DEF SweepStep, FlushStep
  <2>2. \A d \in Child \ {c} : pc'[d] \notin InUse
    BY <1>1, <2>1 DEF CollectionCrosses, Meets
  <2>3. ASSUME NEW d \in Child \ {c}
        PROVE  ChildDates(d)' /\ \A e \in Child : CopyLater(d, e)'
    BY <1>4, <2>2
       DEF ChildDates, RefillEnds, CopyEnds, PlacedEnds, Backed, Asking, FoundEnds, CopyLater,
           InUse, Refilling
  <2>4. CASE FlushStep(c)
    <3>1. SameNames /\ End' = End /\ HeldEnds(c)'
      BY <1>1, <2>4 DEF FlushStep, SameNames, End, HeldEnds, Held
    <3>2. EntryEnds'
      <4>1. CASE "doc" \in sweep[c].files
        <5>1. /\ info'.ex = sweep[c].entry.ex /\ info'.anyEx = sweep[c].entry.ex
              /\ sweep[c].entry.ex <= End + Margin
          BY <1>1, <2>1, <2>4, <4>1 DEF FlushStep, Rewrite, ChildDates, HeldEnds, Held
        <5>2. QED
          BY <3>1, <5>1 DEF EntryEnds
      <4>2. CASE "doc" \notin sweep[c].files
        BY <1>1, <2>4, <3>1, <4>2 DEF FlushStep, EntryEnds, AllDates
      <4>3. QED
        BY <4>1, <4>2
    <3>3. QED
      BY <1>2, <2>3, <3>1, <3>2 DEF AllDates, ChildDates
  <2>5. CASE SweepStep(c)
    <3>1. PICK n \in {"doc", "backup"} :
             disk' = Unlink(disk, n) /\ sweep'[c].files = sweep[c].files \ {n}
      BY <2>5 DEF SweepStep
    <3>2. CASE disk'["doc"] = disk["doc"]
      <4>1. End' = End
        BY <1>1, <3>2 DEF End
      <4>2. EntryEnds' /\ HeldEnds(c)'
        BY <1>1, <2>5, <3>1, <4>1
           DEF SweepStep, EntryEnds, AllDates, HeldEnds, Held, ChildDates
      <4>3. QED
        BY <1>2, <2>3, <4>2 DEF AllDates, ChildDates
    <3>3. CASE disk'["doc"] # disk["doc"]
      <4>1. n = "doc"
        BY <1>1, <3>1, <3>3 DEF Unlink
      <4>2. info' = None
        BY <2>1, <2>5, <3>3 DEF CollectionCrosses, SweepStep
      <4>3. EntryEnds' /\ HeldEnds(c)'
        BY <3>1, <4>1, <4>2 DEF EntryEnds, HeldEnds, Held
      <4>4. QED
        BY <1>2, <2>3, <4>3 DEF AllDates, ChildDates
    <3>4. QED
      BY <3>2, <3>3
  <2>6. QED
    BY <1>6, <2>4, <2>5
<1>7. QED
  BY <1>5, <1>6 DEF CollectionStep

LEMMA DatesKept ==
    ASSUME IInv, CacheTypeOK', [Next]_vars, ~stolen', crossed' = {}, NoBypass, JobsTrue, Dates
    PROVE  Dates'
<1>1. CacheTypeOK /\ LocksOld /\ ~stolen /\ AllDates
  BY Steps, DateParts DEF IInv
<1>2. ASSUME Still
      PROVE  AllDates'
  BY <1>1, <1>2, DatesStill
<1>3. ASSUME NEW c \in Child, Alone(c), RequestStep(c), RequestCrosses(c)
      PROVE  AllDates'
  BY <1>1, <1>3, DatesQuiet, DatesTold, DatesEntered, DatesAway, DatesPlaced DEF RequestStep
<1>4. ASSUME NEW c \in Child, AloneCollecting(c), CollectionStep(c), CollectionCrosses(c)
      PROVE  AllDates'
  BY <1>1, <1>4, DatesCollection
<1>5. AllDates'
  BY <1>1, <1>2, <1>3, <1>4, Steps
<1>6. QED
  BY <1>5, DateParts, PTL

\* What is opened has not expired, and nothing is opened but when it has been found fresh, or
\* the server has been asked.
LEMMA ExpiryKept ==
    ASSUME IInv, CacheTypeOK', [Next]_vars, ~stolen', crossed' = {}, NoBypass, JobsTrue, Dates,
           NotExpired
    PROVE  NotExpired'
<1> DEFINE Good(d) == job'[d].got # None /\ ~job'[d].same => job'[d].got.ex > job'[d].now
<1>1. /\ ~stolen /\ crossed = {} /\ AllDates
  BY Steps, DateParts
<1>2. ASSUME NEW d \in Child, SameAnswer(d) \/ job'[d].got = None
      PROVE  Good(d)
  BY <1>1, <1>2 DEF SameAnswer, NotExpired
<1>3. CASE Still
  <2>1. \A d \in Child : Good(d)
    BY <1>2, <1>3 DEF Still, Cleared, SameTold
  <2>2. QED
    BY <2>1 DEF NotExpired
<1>4. ASSUME NEW c \in Child, Alone(c), RequestStep(c)
      PROVE  NotExpired'
  <2>1. \A d \in Child \ {c} : Good(d)
    BY <1>2, <1>4 DEF Alone, SameTold
  <2>2. Good(c)
    <3>1. CASE FoundStep(c)
      <4>1. disk["doc"] # None => disk["doc"].ex > job[c].now
        BY <1>1, <3>1 DEF FoundStep, AllDates, ChildDates, FoundEnds
      <4>2. QED
        BY <3>1, <4>1 DEF FoundStep
    <3>2. CASE ResendStep(c)
      BY <3>2 DEF ResendStep
    <3>3. CASE NoteStep(c)
      <4>1. SameAnswer(c) \/ job'[c].got = None
        BY <3>3 DEF NoteStep, Cleared, SameTold
      <4>2. QED
        BY <1>2, <4>1
    <3>4. CASE ~FoundStep(c) /\ ~ResendStep(c) /\ ~NoteStep(c)
      <4>1. SameAnswer(c)
        BY <1>4, <3>4
           DEF RequestStep, QuietStep, InfoStep, NotModifiedStep, DocumentStep, BackupStep,
               CreatedStep, DiscardStep, RereadStep, RestoreStep, RenoteStep, SameTold
      <4>2. QED
        BY <1>2, <4>1
    <3>5. QED
      BY <3>1, <3>2, <3>3, <3>4
  <2>3. QED
    BY <2>1, <2>2 DEF NotExpired
<1>5. ASSUME NEW c \in Child, AloneCollecting(c)
      PROVE  NotExpired'
  <2>1. \A d \in Child : Good(d)
    BY <1>2, <1>5 DEF AloneCollecting, SameTold
  <2>2. QED
    BY <2>1 DEF NotExpired
<1>6. QED
  BY <1>3, <1>4, <1>5, Steps

---------------------------------------------------------------------------
(* The theorems                                                            *)

LEMMA DocumentAtInit == Init => DocInv
<1> SUFFICES ASSUME Init PROVE DocInv
  OBVIOUS
<1>1. /\ \A c \in Child : /\ pc[c] = "none" /\ job[c].ims = 0 /\ job[c].got = None
                          /\ ~job[c].same /\ ~job[c].forced
      /\ clock = 2 /\ origin = 2
  BY DEF Init, Blank
<1>2. SameDocument /\ NotExpired /\ JobsTrue
  BY <1>1 DEF SameDocument, NotExpired, JobsTrue, Served
<1>3. PICK life \in Lifetimes \ 0 .. Margin,
           files \in {{}, {"doc"}, {"doc", "backup"}, {"backup", "lock"}} :
         /\ "backup" \in files => life = Margin + 1
         /\ LET v == IF "backup" \in files THEN 1 ELSE 2
            IN /\ disk = [doc    |-> IF "doc" \in files THEN Left(2, life) ELSE None,
                          backup |-> IF "backup" \in files THEN Left(1, life) ELSE None,
                          lock   |-> IF "lock" \in files THEN OldLock ELSE None]
               /\ info = IF files = {} THEN None
                         ELSE [lc |-> v, ex |-> v + life, lm |-> v,
                               anyEx |-> v + life, anyLm |-> v]
  BY DEF Init
<1> DEFINE v == IF "backup" \in files THEN 1 ELSE 2
<1>4. /\ disk["doc"] = IF "doc" \in files THEN Left(2, life) ELSE None
      /\ disk["backup"] = IF "backup" \in files THEN Left(1, life) ELSE None
      /\ info = IF files = {} THEN None
                ELSE [lc |-> v, ex |-> v + life, lm |-> v, anyEx |-> v + life, anyLm |-> v]
  BY <1>3
<1>5. /\ Left(2, life).v = 2 /\ Left(2, life).ex = 2 + life /\ Left(1, life).v = 1
  BY DEF Left
<1>6. /\ info # None => /\ info.ex = v + life /\ info.anyEx = v + life
                        /\ info.lm = v /\ info.anyLm = v /\ files # {}
      /\ v \in {1, 2} /\ life \in Nat /\ Margin \in Nat
  BY <1>4, HttpdAssumption
<1>7. Known \subseteq {v}
  BY <1>1, <1>6 DEF Known, Held, KnowsDocument, KnowsEntry
<1>8. Versions
  <2>1. OriginNewest
    BY <1>1, <1>6, <1>7 DEF OriginNewest, Newest
  <2>2. DocNewest
    BY <1>4, <1>5, <1>6, <1>7 DEF DocNewest, Newest
  <2>3. BackupNewest
    <3>1. disk["backup"] # None => v = 1 /\ disk["backup"].v = 1
      BY <1>4, <1>5
    <3>2. QED
      BY <1>7, <3>1 DEF BackupNewest, Newest
  <2>4. \A c \in Child : CopyNewest(c) /\ DocAway(c)
    BY <1>1 DEF CopyNewest, DocAway, Asking
  <2>5. QED
    BY <2>1, <2>2, <2>3, <2>4, VersionParts DEF AllNewest
<1>9. Dates
  <2>1. EntryEnds
    <3>1. info # None => v + life <= End + Margin
      <4>1. CASE "doc" \in files
        <5>1. disk["doc"] # None => End = 2 + life
          BY <1>4, <1>5, <4>1 DEF End
        <5>2. disk["doc"] # None
          <6>1. Left(2, life) \in File
            BY <1>6, HttpdAssumption DEF Left, File, Time
          <6>2. QED
            BY <1>4, <4>1, <6>1, HttpdAssumption
        <5>3. QED
          BY <1>6, <5>1, <5>2
      <4>2. CASE "doc" \notin files
        <5>1. End = 2
          BY <1>1, <1>4, <4>2 DEF End
        <5>2. info # None => "backup" \in files
          BY <1>6, <4>2
        <5>3. info # None => v = 1 /\ life = Margin + 1
          BY <1>3, <5>2
        <5>4. QED
          BY <1>6, <5>1, <5>3
      <4>3. QED
        BY <4>1, <4>2
    <3>2. QED
      BY <1>6, <3>1 DEF EntryEnds
  <2>2. \A c \in Child : ChildDates(c) /\ \A e \in Child : CopyLater(c, e)
    BY <1>1
       DEF ChildDates, HeldEnds, Held, RefillEnds, Refilling, CopyEnds, PlacedEnds, Backed,
           Asking, FoundEnds, CopyLater
  <2>3. QED
    BY <2>1, <2>2, DateParts DEF AllDates
<1>10. QED
  BY <1>2, <1>8, <1>9 DEF DocInv

\* Whatever the children and the daemon do, no request loses sight of the newest document that
\* is known of; and if requests and collections do not cross, no entry outlives the document
\* it speaks of.
THEOREM DocumentInvariance == Spec => [](IInv /\ DocInv)
<1>1. IInv /\ DocInv /\ [Next]_vars => DocInv'
  <2> SUFFICES ASSUME IInv, DocInv, [Next]_vars PROVE DocInv'
    OBVIOUS
  <2>1. CacheTypeOK' /\ CacheTypeOK
    BY TypesKept DEF IInv
  <2>2. CASE stolen'
    BY <2>2 DEF DocInv, SameDocument, NotExpired
  <2>3. CASE ~stolen'
    <3>1. ~stolen /\ kind' = kind /\ crossed \subseteq crossed'
      BY <2>1, <2>3, Steps
    <3>2. JobsTrue'
      BY <2>1, <2>3, <3>1, JobsTrueKept DEF DocInv
    <3>3. ASSUME "sweep" \notin crossed'
          PROVE  Versions' /\ SameDocument'
      <4>1. JobsTrue /\ Versions /\ SameDocument
        BY <3>1, <3>3 DEF DocInv
      <4>2. QED
        BY <2>1, <2>3, <3>3, <4>1, VersionsKept, SameKept
    <3>4. ASSUME NoBypass', crossed' = {}
          PROVE  Dates' /\ NotExpired'
      <4>1. NoBypass /\ crossed = {}
        BY <3>1, <3>4 DEF NoBypass
      <4>2. JobsTrue /\ Dates /\ NotExpired
        BY <3>1, <4>1 DEF DocInv
      <4>3. QED
        BY <2>1, <2>3, <3>4, <4>1, <4>2, DatesKept, ExpiryKept
    <3>5. SameDocument' /\ NotExpired'
      BY <3>3, <3>4 DEF SameDocument, NotExpired
    <3>6. QED
      BY <3>2, <3>3, <3>4, <3>5 DEF DocInv
  <2>4. QED
    BY <2>2, <2>3
<1>2. QED
  BY <1>1, DocumentAtInit, HttpdInvariance, PTL DEF Spec

\* Who is told by the server that the document has not changed gets that document, or a newer
\* one (HTCache.c, cache_not_modified), unless a file in use has been collected or a lock
\* stolen.
THEOREM SameTheorem == Spec => []SameDocument
<1>1. DocInv => SameDocument
  BY DEF DocInv
<1>2. QED
  BY <1>1, DocumentInvariance, PTL

\* Nothing is sent from the cache after its expiry date (HTCache.c, cache_lookup), if nobody
\* who refills the cache is overtaken and no lock is stolen.
THEOREM ExpiryTheorem == Spec => []NotExpired
<1>1. DocInv => NotExpired
  BY DEF DocInv
<1>2. QED
  BY <1>1, DocumentInvariance, PTL

---------------------------------------------------------------------------
(* One request (Handle, Script): how its process runs a script, and what   *)
(* its client gets                                                         *)

\* Whose plan is followed.
LEMMA Plans ==
    ASSUME Shaped
    PROVE  /\ ScriptPlan \in Plan
           /\ ScriptPlan.header \in {"type", "local", "remote", "none"}
           /\ ScriptPlan.ops \in Seq({"in", "all", "out", "fork", "hang"})
<1> DEFINE k == IF server.hop > Len(req.scripts) THEN Len(req.scripts) ELSE server.hop
<1>1. k \in 1 .. Len(req.scripts)
  BY DEF Shaped
<1>2. req.scripts[k] \in Plan
  BY <1>1 DEF Shaped
<1>3. ScriptPlan = req.scripts[k]
  BY DEF ScriptPlan, Nth
<1>4. QED
  BY <1>2, <1>3 DEF Plan

\* Initially nothing is read, told or run.
LEMMA AnswerInit ==
    ASSUME Planned, HandleInit
    PROVE  AnswerInv
<1>1. /\ req \in Incoming
      /\ client = [unread |-> req.sends, got |-> <<>>, told |-> 0, left |-> FALSE]
      /\ server = [pc |-> "check", hop |-> 1, remain |-> 0, headers |-> TRUE, read |-> <<>>,
                 held |-> <<>>, direct |-> FALSE, redirect |-> FALSE,
                 out |-> <<>>, then |-> "wait", sized |-> FALSE, typed |-> req.typed]
      /\ script = Unstarted /\ pout = <<>>
  BY DEF HandleInit, ScriptInit
<1>2. Shaped
  BY <1>1 DEF Planned, Shaped, Unstarted
<1>3. ScriptAttended
  BY <1>1 DEF ScriptAttended, Running, Unstarted
<1>4. AnswerDue
  BY <1>1 DEF AnswerDue, Calling, Read
<1>5. OutputInOrder
  BY <1>1 DEF OutputInOrder, Passed, ScriptAsPlanned, BeingRead, BeingSent, AllSent, Partly, Read
<1>6. AnswerIsWhole
  BY <1>1 DEF AnswerIsWhole
<1>7. QED
  BY <1>2, <1>3, <1>4, <1>5, <1>6 DEF AnswerInv

\* What is read is dealt with by the kind of the header.
LEMMA BlockRead ==
    ASSUME Shaped, LoadBlock
    PROVE  /\ server.pc = "load" /\ server.read # <<>>
           /\ alarm' = alarm /\ script' = script /\ pin' = pin /\ pout' = pout
           /\ req' = req /\ down' = down
           /\ ScriptPlan.header = "type" => PutBlock
           /\ ScriptPlan.header = "none" =>
                  server' = [server EXCEPT !.read = <<>>] /\ client' = client
           /\ ScriptPlan.header = "local" => Redirect /\ client' = client
           /\ ScriptPlan.header = "remote" => Answer(<<"moved">>, "wait") /\ client' = client
<1> DEFINE h == ScriptPlan.header
<1>1. /\ server.pc = "load" /\ server.read # <<>>
      /\ alarm' = alarm /\ script' = script /\ pin' = pin /\ pout' = pout
      /\ req' = req /\ down' = down
  BY DEF LoadBlock, ServerAt, pipes
<1>2. \/ h = "type"   /\ PutBlock
      \/ h = "none"   /\ server' = [server EXCEPT !.read = <<>>] /\ client' = client
      \/ h = "local"  /\ Redirect /\ client' = client
      \/ h = "remote" /\ Answer(<<"moved">>, "wait") /\ client' = client
  BY Zenon DEF LoadBlock
<1> HIDE DEF h
<1>3. h = "type" => PutBlock
  BY <1>2
<1>4. h = "none" => server' = [server EXCEPT !.read = <<>>] /\ client' = client
  BY <1>2
<1>5. h = "local" => Redirect /\ client' = client
  BY <1>2
<1>6. h = "remote" => Answer(<<"moved">>, "wait") /\ client' = client
  BY <1>2
<1>7. QED
  BY <1>1, <1>3, <1>4, <1>5, <1>6 DEF h

\* A block is passed on, or kept.
LEMMA BlockPut ==
    ASSUME Shaped, PutBlock
    PROVE  /\ DOMAIN server' = DOMAIN server /\ DOMAIN client' = DOMAIN client
           /\ server'.read = <<>> /\ server'.then = "load" /\ server'.hop = server.hop
           /\ server'.redirect = server.redirect /\ server'.sized = server.sized
           /\ client'.got = client.got /\ client'.left = client.left
           /\ \/ /\ server'.pc = "send" /\ server'.direct /\ server'.held = <<>>
                 /\ server'.out = server.held \o server.read
                 /\ \/ client'.told = client.told
                    \/ server.sized /\ client'.told = DocSize
              \/ /\ server'.pc = "load" /\ ~server'.direct /\ ~server.direct /\ server'.out = <<>>
                 /\ server'.held = server.held \o server.read /\ client'.told = client.told
<1> USE DEF Shaped
<1> DEFINE both   == server.held \o server.read
           known  == server.headers /\ server.sized
           giveUp == server.direct \/ known \/ Len(both) >= Hold
<1>1. /\ server' = [server EXCEPT !.read = <<>>, !.headers = FALSE, !.direct = giveUp,
                        !.held = IF giveUp THEN <<>> ELSE both,
                        !.out  = IF giveUp THEN both ELSE <<>>,
                        !.pc   = IF giveUp THEN "send" ELSE "load", !.then = "load"]
      /\ client' = [client EXCEPT !.told = IF known THEN DocSize ELSE @]
  BY DEF PutBlock
<1>2. (~giveUp => ~server.direct /\ ~known) /\ (known => server.sized)
  OBVIOUS
<1> HIDE DEF both, giveUp, known
<1>3. /\ DOMAIN server' = DOMAIN server
      /\ server'.read = <<>> /\ server'.then = "load" /\ server'.hop = server.hop
      /\ server'.redirect = server.redirect /\ server'.direct = giveUp
      /\ server'.sized = server.sized
  BY <1>1
<1>4. /\ server'.held = (IF giveUp THEN <<>> ELSE both)
      /\ server'.out = (IF giveUp THEN both ELSE <<>>)
      /\ server'.pc = (IF giveUp THEN "send" ELSE "load")
  BY <1>1
<1>5. /\ DOMAIN client' = DOMAIN client
      /\ client'.got = client.got /\ client'.left = client.left
      /\ client'.told = IF known THEN DocSize ELSE client.told
  BY <1>1
<1>6. CASE giveUp
  BY <1>2, <1>3, <1>4, <1>5, <1>6 DEF both
<1>7. CASE ~giveUp
  BY <1>2, <1>3, <1>4, <1>5, <1>7 DEF both
<1>8. QED
  BY <1>6, <1>7

\* The request goes on to another path.
LEMMA Redirected ==
    ASSUME Shaped, Redirect
    PROVE  /\ DOMAIN server' = DOMAIN server
           /\ server'.pc = "wait" /\ server'.hop = server.hop /\ server'.read = <<>>
           /\ server'.held = server.held /\ server'.out = server.out /\ server'.redirect
           /\ server'.then = server.then /\ server'.sized = server.sized
BY DEF Shaped, Redirect

\* Blocks are given to the client, if there are any.
LEMMA Answered ==
    ASSUME Shaped, NEW blocks, NEW where \in {"load", "wait"}, Answer(blocks, where)
    PROVE  /\ DOMAIN server' = DOMAIN server
           /\ server'.read = <<>> /\ server'.then = where /\ server'.hop = server.hop
           /\ server'.redirect = server.redirect /\ server'.direct = server.direct
           /\ server'.held = server.held /\ server'.out = blocks /\ server'.sized = server.sized
           /\ server'.pc = IF blocks = <<>> THEN where ELSE "send"
BY DEF Shaped, Answer

LEMMA ShapeKept ==
    ASSUME Shaped, HandleNext
    PROVE  Shaped'
<1> USE DEF Shaped
<1>1. CASE HandleStep
  BY <1>1, Zenon
         DEF HandleStep, Refuse, Authorize, RunScript, Simple, NotHandled, Gateway, ListForbidden,
              ListStart, ListEntry, ListGone, ListEnd, ServerAt, ServerGoes, Reply, Tell,
              Handling, KeepScript, Unassigned, Attributes
<1>2. CASE ServerStep
  <2>1. CASE Call
    BY <2>1 DEF Call, ServerAt, Begun, Unstarted
  <2>2. CASE Feed
    BY <2>2, Zenon DEF Feed, GetBlock, WriteBlock, WriteNewline, ServerAt, ServerGoes, Written,
                SigPipeIgnored
  <2>3. CASE ReadOut
    BY <2>3 DEF ReadOut, ServerAt
  <2>4. CASE LoadBlock
    <3>1. CASE ScriptPlan.header = "type"
      BY <2>4, <3>1, BlockRead, BlockPut
    <3>2. CASE ScriptPlan.header = "remote"
      BY <2>4, <3>2, BlockRead, Answered
    <3>3. CASE ScriptPlan.header = "none"
      BY <2>4, <3>3, BlockRead, Zenon
    <3>4. CASE ScriptPlan.header = "local"
      BY <2>4, <3>4, BlockRead, Redirected
    <3>5. QED
      BY <3>1, <3>2, <3>3, <3>4, Plans
  <2>5. CASE LoadEnd
    BY <2>5 DEF LoadEnd, ServerAt, Answer
  <2>6. CASE Send
    BY <2>6, Zenon DEF Send, ServerAt, ServerGoes
  <2>7. CASE Wait \/ PidOff \/ Quit \/ KillScript
    BY <2>7 DEF Wait, PidOff, Quit, KillScript, ServerAt, ServerGoes
  <2>8. CASE AlarmOff
    <3>1. /\ req' = req /\ script' = script
          /\ \/ server' = [server EXCEPT !.pc = "ended"]
             \/ server' = [server EXCEPT !.pc = "check", !.hop = @ + 1]
      BY <2>8 DEF AlarmOff, ServerAt, ServerGoes
    <3>2. DOMAIN client' = DOMAIN client
      BY <2>8 DEF AlarmOff, Tell
    <3>3. server.hop + 1 \in Nat \ {0}
      OBVIOUS
    <3>4. DOMAIN server' = DOMAIN server /\ server'.hop \in Nat \ {0}
          /\ server'.then = server.then
      BY <3>1, <3>3, Zenon
    <3>5. QED
      BY <3>1, <3>2, <3>4
  <2>9. QED
    BY <1>2, <2>1, <2>2, <2>3, <2>4, <2>5, <2>6, <2>7, <2>8 DEF ServerStep
<1>3. CASE Alarm
  BY <1>3 DEF Alarm, OutputTimedOut, TermScript, TermAll, ServerAt, ServerGoes
<1>4. CASE ScriptStep
  <2>1. /\ req' = req /\ client' = client /\ server' = server
        /\ \/ script' = script
           \/ script' = [script EXCEPT !.at = @ + 1]
           \/ script' = [script EXCEPT !.at = @ + 1, !.wrote = @ + 1]
           \/ script' = [script EXCEPT !.at = @ + 1, !.child = TRUE]
           \/ script' = [script EXCEPT !.state = "gone"]
    BY <1>4 DEF ScriptStep, ReadIn, ReadAll, WriteOut, Fork, Exit, Step, Advance
  <2>2. script.wrote + 1 \in Nat
    OBVIOUS
  <2>3. DOMAIN script' = DOMAIN script /\ script'.wrote \in {script.wrote, script.wrote + 1}
    BY <2>1, Zenon
  <2>4. QED
    BY <2>1, <2>2, <2>3
<1>5. CASE ChildEnds \/ ClientLeaves
  BY <1>5 DEF ChildEnds, ClientLeaves
<1>6. QED
  BY <1>1, <1>2, <1>3, <1>4, <1>5 DEF HandleNext, Process, Others

LEMMA AttendedKept ==
    ASSUME Shaped, ScriptAttended, HandleNext
    PROVE  ScriptAttended'
<1> USE DEF Shaped, ScriptAttended, Quiet, Running
<1>1. CASE HandleStep
  BY <1>1, Zenon
         DEF HandleStep, Refuse, Authorize, RunScript, Simple, NotHandled, Gateway, ListForbidden,
              ListStart, ListEntry, ListGone, ListEnd, ServerAt, ServerGoes, Reply, Tell,
              Handling, KeepScript, Unassigned, Attributes, pipes
<1>2. CASE ServerStep
  <2>1. CASE Call
    BY <2>1 DEF Call, ServerAt, Begun, Unstarted
  <2>2. CASE Feed
    BY <2>2, Zenon DEF Feed, GetBlock, WriteBlock, WriteNewline, ServerAt, ServerGoes, Written,
                SigPipeIgnored
  <2>3. CASE ReadOut
    BY <2>3 DEF ReadOut, ServerAt
  <2>4. CASE LoadBlock
    <3>1. CASE ScriptPlan.header = "type"
      BY <2>4, <3>1, BlockRead, BlockPut
    <3>2. CASE ScriptPlan.header = "remote"
      BY <2>4, <3>2, BlockRead, Answered
    <3>3. CASE ScriptPlan.header = "none"
      BY <2>4, <3>3, BlockRead, Zenon
    <3>4. CASE ScriptPlan.header = "local"
      BY <2>4, <3>4, BlockRead, Redirected
    <3>5. QED
      BY <3>1, <3>2, <3>3, <3>4, Plans
  <2>5. CASE LoadEnd
    BY <2>5 DEF LoadEnd, ServerAt, Answer
  <2>6. CASE Send
    <3>1. script' = script /\ server.pc = "send"
      BY <2>6 DEF Send, ServerAt
    <3>2. \/ server' = [server EXCEPT !.out = Tail(@),
                           !.pc = IF Len(server.out) = 1 THEN server.then ELSE @]
          \/ server' = [server EXCEPT !.pc = "pipe"]
      BY <2>6 DEF Send, ServerGoes
    <3>3. server'.pc \in {server.then, "send", "pipe"} /\ server'.then = server.then
      BY <3>1, <3>2, Zenon
    <3>4. QED
      BY <3>1, <3>3
  <2>7. CASE Wait \/ PidOff \/ Quit \/ KillScript
    BY <2>7 DEF Wait, PidOff, Quit, KillScript, ServerAt, ServerGoes
  <2>8. CASE AlarmOff
    BY <2>8 DEF AlarmOff, ServerAt, ServerGoes, Tell
  <2>9. QED
    BY <1>2, <2>1, <2>2, <2>3, <2>4, <2>5, <2>6, <2>7, <2>8 DEF ServerStep
<1>3. CASE Alarm
  BY <1>3 DEF Alarm, OutputTimedOut, TermScript, TermAll, ServerAt, ServerGoes
<1>4. CASE ScriptStep
  BY <1>4, Zenon DEF ScriptStep, ReadIn, ReadAll, WriteOut, Fork, Exit, Step, Advance
<1>5. CASE ChildEnds \/ ClientLeaves
  BY <1>5 DEF ChildEnds, ClientLeaves
<1>6. QED
  BY <1>1, <1>2, <1>3, <1>4, <1>5 DEF HandleNext, Process, Others

LEMMA Joined ==
    ASSUME NEW S, NEW a \in Seq(S), NEW b \in Seq(S), NEW c \in Seq(S)
    PROVE  /\ a \o b \in Seq(S)
           /\ (a \o b) \o c = a \o (b \o c)
           /\ a \o <<>> = a /\ <<>> \o a = a
           /\ Len(a \o b) = Len(a) + Len(b)
           /\ a \o b = <<>> => a = <<>> /\ b = <<>>
<1>1. a \o b \in Seq(S)
  OBVIOUS
<1>2. (a \o b) \o c = a \o (b \o c)
  OBVIOUS
<1>3. a \o <<>> = a
  OBVIOUS
<1>4. <<>> \o a = a
  OBVIOUS
<1>5. Len(a \o b) = Len(a) + Len(b)
  OBVIOUS
<1>6. a \o b = <<>> => a = <<>> /\ b = <<>>
  BY <1>5
<1>7. QED
  BY <1>1, <1>2, <1>3, <1>4, <1>5, <1>6

\* The first element goes from the front of one list to the end of another.
LEMMA Passing ==
    ASSUME NEW S, NEW a \in Seq(S), NEW b \in Seq(S), b # <<>>
    PROVE  /\ Append(a, Head(b)) \in Seq(S) /\ Tail(b) \in Seq(S)
           /\ Append(a, Head(b)) \o Tail(b) = a \o b
           /\ Len(b) = 1 => Append(a, Head(b)) = a \o b
           /\ Len(b) # 1 => Tail(b) # <<>>
<1>1. Head(b) \in S /\ Tail(b) \in Seq(S) /\ Len(Tail(b)) = Len(b) - 1 /\ Len(b) \in Nat \ {0}
  OBVIOUS
<1>2. Append(a, Head(b)) \in Seq(S)
  BY <1>1
<1>3. Append(a, Head(b)) \o Tail(b) = a \o b
  OBVIOUS
<1>4. \A s \in Seq(S) : s = <<>> <=> Len(s) = 0
  OBVIOUS
<1>5. Tail(b) = <<>> <=> Len(b) = 1
  BY <1>1, <1>4
<1>6. Append(a, Head(b)) \o <<>> = Append(a, Head(b))
  BY <1>2, Joined
<1>7. QED
  BY <1>1, <1>2, <1>3, <1>5, <1>6, Zenon

LEMMA Lengthened ==
    ASSUME NEW S, NEW a \in Seq(S), NEW b \in Seq(S), NEW x \in S
    PROVE  /\ Append(b, x) \in Seq(S)
           /\ a \o Append(b, x) = Append(a \o b, x)
<1>1. Append(b, x) \in Seq(S)
  OBVIOUS
<1>2. a \o Append(b, x) = Append(a \o b, x)
  OBVIOUS
<1>3. QED
  BY <1>1, <1>2

LEMMA Single ==
    ASSUME NEW x
    PROVE  Append(<<>>, x) = <<x>> /\ Len(<<x>>) = 1 /\ <<x>> # <<>> /\ <<>> \o <<x>> = <<x>>
<1>1. <<>> \in Seq({x}) /\ <<x>> \in Seq({x})
  OBVIOUS
<1>2. Append(<<>>, x) = <<x>> /\ Len(<<x>>) = 1
  OBVIOUS
<1>3. <<x>> # <<>>
  OBVIOUS
<1>4. QED
  BY <1>1, <1>2, <1>3, Joined

LEMMA BlocksAre ==
    ASSUME NEW hop \in Nat, NEW n \in Nat
    PROVE  /\ Blocks(hop, n) \in Seq(Part)
           /\ Len(Blocks(hop, n)) = n
           /\ Blocks(hop, 0) = <<>>
           /\ Append(Blocks(hop, n), <<hop, n + 1>>) = Blocks(hop, n + 1)
           /\ <<hop, n + 1>> \in Part
<1>1. Blocks(hop, n) \in Seq(Part) /\ <<hop, n + 1>> \in Part
  BY DEF Blocks, Part
<1>2. Len(Blocks(hop, n)) = n
  BY DEF Blocks
<1>3. Blocks(hop, 0) = <<>>
  BY DEF Blocks
<1>4. Append(Blocks(hop, n), <<hop, n + 1>>) = Blocks(hop, n + 1)
  BY DEF Blocks
<1>5. QED
  BY <1>1, <1>2, <1>3, <1>4

LEMMA CountNext ==
    ASSUME NEW ops, NEW op, NEW k \in Nat
    PROVE  /\ Count(ops, op, k) \in Nat
           /\ ops[k + 1] = op => Count(ops, op, k + 1) = Count(ops, op, k) + 1
           /\ ops[k + 1] # op => Count(ops, op, k + 1) = Count(ops, op, k)
           /\ Count(ops, op, 0) = 0
<1> DEFINE K(n) == {i \in 1 .. n : ops[i] = op}
<1>1. IsFiniteSet(K(k))
  <2>1. IsFiniteSet(1 .. k) /\ K(k) \subseteq 1 .. k
    BY FS_Interval
  <2>2. QED
    BY <2>1, FS_Subset
<1>2. k + 1 \notin K(k)
  OBVIOUS
<1>3. ASSUME ops[k + 1] = op
      PROVE  K(k + 1) = K(k) \cup {k + 1}
  BY <1>3
<1>4. ASSUME ops[k + 1] # op
      PROVE  K(k + 1) = K(k)
  <2>1. \A i \in 1 .. k + 1 : ops[i] = op => i \in 1 .. k
    BY <1>4
  <2>2. QED
    BY <2>1
<1>5. K(0) = {}
  OBVIOUS
<1> HIDE DEF K
<1>6. ops[k + 1] = op => Cardinality(K(k + 1)) = Cardinality(K(k)) + 1
  BY <1>1, <1>2, <1>3, FS_AddElement
<1>7. QED
  BY <1>1, <1>4, <1>5, <1>6, FS_CardinalityType, FS_EmptySet, Zenon DEF Count, K

LEMMA CountGrows ==
    ASSUME NEW ops, NEW op, NEW m \in Nat, NEW n \in 0 .. m
    PROVE  Count(ops, op, n) <= Count(ops, op, m)
<1>1. {i \in 1 .. n : ops[i] = op} \subseteq {i \in 1 .. m : ops[i] = op}
  OBVIOUS
<1>2. IsFiniteSet({i \in 1 .. m : ops[i] = op})
  <2>1. IsFiniteSet(1 .. m) /\ {i \in 1 .. m : ops[i] = op} \subseteq 1 .. m
    BY FS_Interval
  <2>2. QED
    BY <2>1, FS_Subset
<1>3. QED
  BY <1>1, <1>2, FS_Subset DEF Count

---------------------------------------------------------------------------
\* What stays as it is during a hop.
LEMMA HopSame ==
    ASSUME req' = req, server'.hop = server.hop
    PROVE  ScriptPlan' = ScriptPlan /\ Expected' = Expected /\ Wrong' = Wrong
<1>1. ScriptPlan' = ScriptPlan
  BY DEF ScriptPlan
<1>2. Expected' = Expected
  <2>1. Output(ScriptPlan, server.hop)' = Output(ScriptPlan, server.hop)
    BY <1>1 DEF Output, Blocks
  <2>2. QED
    BY <1>1, <2>1 DEF Expected
<1>3. Wrong' = Wrong
  BY Zenon DEF Wrong, Site
<1>4. QED
  BY <1>1, <1>2, <1>3

LEMMA TaskSame ==
    ASSUME req' = req, server'.hop = server.hop, auth' = auth
    PROVE  Task' = Task /\ Allowed' = Allowed /\ MayList' = MayList
<1>1. Method' = Method
  BY DEF Method
<1>2. Task' = Task
  <2>1. Keywords' = Keywords /\ Site' = Site
    BY Zenon DEF Keywords, Site
  <2>2. QED
    BY <1>1, <2>1, Zenon DEF Task
<1>3. Allowed' = Allowed
  BY HopSame DEF Allowed
<1>4. MayList' = MayList
  BY Zenon DEF MayList, ListedDir, Site
<1>5. QED
  BY <1>2, <1>3, <1>4

\* The length told is right, or that of a document.
ToldOf(blocks) == Announced \/ client.told = Len(blocks)

\* The client has a second answer after an error.
Twice == /\ Len(client.got) = 2 /\ Task \in {"gateway", "unset", "unknown"}
         /\ client.got[1] \in {"404", "500", "501"}

LEMMA ToldSame ==
    ASSUME client'.told = client.told, server'.sized = server.sized
    PROVE  Announced' = Announced /\ \A blocks : ToldOf(blocks)' = ToldOf(blocks)
BY DEF Announced, ToldOf

\* Of what is said to the client below.
LEMMA WholeIf ==
    ASSUME \/ server'.pc # "ended"
           \/ ~Allowed' /\ Len(client'.got) = 1
           \/ /\ Allowed' /\ Task' = "script"
              /\ client'.got = Expected' /\ ToldOf(client.got)'
           \/ Allowed' /\ Task' = "list" /\ MayList'
           \/ /\ Allowed' /\ Task' # "script" /\ ~(Task' = "list" /\ MayList')
              /\ \/ Len(client'.got) = 1
                 \/ Twice'
    PROVE  AnswerIsWhole'
<1>1. CASE server'.pc # "ended"
  BY <1>1 DEF AnswerIsWhole
<1>2. CASE ~Allowed' /\ Len(client'.got) = 1
  BY <1>2, Zenon DEF AnswerIsWhole
<1>3. CASE /\ Allowed' /\ Task' = "script"
           /\ client'.got = Expected' /\ ToldOf(client.got)'
  BY <1>3 DEF AnswerIsWhole, ToldOf
<1>4. CASE Allowed' /\ Task' = "list" /\ MayList'
  BY <1>4 DEF AnswerIsWhole
<1>5. CASE /\ Allowed' /\ Task' # "script" /\ ~(Task' = "list" /\ MayList')
           /\ \/ Len(client'.got) = 1
              \/ Twice'
  BY <1>5 DEF AnswerIsWhole, Twice
<1>6. QED
  BY <1>1, <1>2, <1>3, <1>4, <1>5

\* While no script is called nothing has to be said of its output.
LEMMA OutputRests ==
    ASSUME Passed, server'.pc \in {"check", "handle", "list", "call", "ended"},
           server'.read = server.read, server'.held = server.held, server'.out = server.out,
           pout' = pout, client'.told = client.told
    PROVE  OutputInOrder'
<1>1. Passed'
  BY DEF Passed, Read
<1>2. ScriptAsPlanned' /\ BeingRead' /\ BeingSent' /\ AllSent'
  BY Zenon DEF ScriptAsPlanned, BeingRead, BeingSent, AllSent, Read, Partly
<1>3. QED
  BY <1>1, <1>2 DEF OutputInOrder

\* An answer is one item more.
LEMMA Told ==
    ASSUME Shaped, NEW what, Tell(what), ~client'.left, client.got = <<>>
    PROVE  /\ ~client.left /\ client'.told = client.told
           /\ client'.got = <<what>> /\ Len(client'.got) = 1
<1>1. ~client.left
  BY DEF Tell
<1>2. client' = [client EXCEPT !.got = Append(@, what)]
  BY <1>1 DEF Tell
<1>3. client'.told = client.told /\ client'.got = Append(client.got, what)
  BY <1>2 DEF Shaped
<1>4. QED
  BY <1>1, <1>3, Single

\* What the process goes on with, and what it keeps.
LEMMA GoingIs ==
    ASSUME Shaped, NEW where, Attributes(where) \/ ServerGoes(where)
    PROVE  /\ server'.pc = where /\ server'.hop = server.hop
           /\ server'.read = server.read /\ server'.held = server.held
           /\ server'.out = server.out
BY DEF Shaped, Attributes, ServerGoes

LEMMA HandleIs ==
    ASSUME Shaped, HandleStep
    PROVE  /\ server.pc \in {"check", "handle", "list"}
           /\ req' = req /\ pout' = pout
           /\ \/ server' = server
              \/ \E w \in {"handle", "list", "call", "ended"} : Attributes(w) \/ ServerGoes(w)
           /\ server'.pc = "call" => RunScript
           /\ server'.pc = "handle" => Authorize
           /\ server'.pc = "list" => ListStart \/ ListEntry
           /\ server'.pc # "check"
<1>1. server.pc \in {"check", "handle", "list"} /\ req' = req /\ pout' = pout
  BY Zenon DEF HandleStep, Refuse, Authorize, RunScript, Simple, NotHandled, Gateway,
     ListForbidden, ListStart, ListEntry, ListGone, ListEnd, ServerAt, Reply, Handling,
     KeepScript, Unassigned, pipes
<1>2. \/ Authorize /\ (Attributes("handle") \/ Attributes("ended"))
      \/ RunScript /\ ServerGoes("call")
      \/ ListStart /\ ServerGoes("list")
      \/ ListEntry /\ server' = server /\ server.pc = "list"
      \/ ServerGoes("ended")
  BY Zenon DEF HandleStep, Refuse, Authorize, RunScript, Simple, NotHandled, Gateway,
     ListForbidden, ListStart, ListEntry, ListGone, ListEnd, ServerAt, Reply, Handling,
     Unassigned
<1>3. \/ server' = server
      \/ \E w \in {"handle", "list", "call", "ended"} : Attributes(w) \/ ServerGoes(w)
  BY <1>2
<1>4. \A w : Attributes(w) \/ ServerGoes(w) => server'.pc = w
  BY GoingIs
<1>5. /\ server'.pc = "call" => RunScript
      /\ server'.pc = "handle" => Authorize
      /\ server'.pc = "list" => ListStart \/ ListEntry
      /\ server'.pc # "check"
  BY <1>2, <1>4
<1>6. QED
  BY <1>1, <1>3, <1>5, Zenon

Whole == AnswerDue /\ OutputInOrder /\ AnswerIsWhole

LEMMA HandleAnswers ==
    ASSUME Shaped, client.left \/ Whole, HandleStep, ~client'.left
    PROVE  Whole'
<1>1. /\ server.pc \in {"check", "handle", "list"} /\ req' = req /\ pout' = pout
      /\ \/ server' = server
         \/ \E w \in {"handle", "list", "call", "ended"} : Attributes(w) \/ ServerGoes(w)
      /\ server'.pc = "call" => RunScript
      /\ server'.pc = "handle" => Authorize
      /\ server'.pc = "list" => ListStart \/ ListEntry
      /\ server'.pc # "check"
  BY HandleIs
<1>2. /\ server'.hop = server.hop
      /\ server'.read = server.read /\ server'.held = server.held /\ server'.out = server.out
      /\ server'.pc \in {"handle", "list", "call", "ended"}
  <2>1. CASE server' = server
    BY <1>1, <2>1
  <2>2. CASE server' # server
    <3>1. PICK w \in {"handle", "list", "call", "ended"} : Attributes(w) \/ ServerGoes(w)
      BY <1>1, <2>2, Zenon
    <3>2. QED
      BY <3>1, GoingIs
  <2>3. QED
    BY <2>1, <2>2
<1>3. ~client.left
  BY Zenon DEF HandleStep, Refuse, Authorize, RunScript, Simple, NotHandled, Gateway, ListForbidden,
         ListStart, ListEntry, ListGone, ListEnd, Reply, Tell, Unassigned, Shaped
<1>4. AnswerDue /\ OutputInOrder /\ client.got = <<>> /\ client.told = 0
  BY <1>1, <1>3 DEF Whole, AnswerDue
<1>5. client'.told = client.told
  <2>1. \/ client' = client
        \/ \E got : client' = [client EXCEPT !.got = got]
    BY <1>3, Zenon DEF HandleStep, Refuse, Authorize, RunScript, Simple, NotHandled, Gateway,
           ListForbidden, ListStart, ListEntry, ListGone, ListEnd, Reply, Tell, Unassigned
  <2>2. QED
    BY <2>1 DEF Shaped
<1>6. OutputInOrder'
  BY <1>1, <1>2, <1>4, <1>5, OutputRests DEF OutputInOrder
<1>7. Wrong' = Wrong
  BY <1>1, <1>2, HopSame
<1>8. CASE Refuse
  <2>1. server.hop = 1 /\ Wrong # <<>> /\ server'.pc = "ended" /\ Tell(Wrong[1])
    BY <1>8 DEF Refuse, Reply, ServerGoes, Shaped
  <2>2. ~Allowed'
    BY <1>7, <2>1 DEF Allowed
  <2>3. AnswerDue'
    BY <1>2, <2>1 DEF AnswerDue, Calling, Read
  <2>4. QED
    BY <1>4, <1>6, <2>1, <2>2, <2>3, Told, WholeIf DEF Whole
<1>9. CASE Authorize
  <2>1. Wrong = <<>> /\ server.pc = "check"
    BY <1>4, <1>9 DEF Authorize, AnswerDue, Shaped, ServerAt
  <2>2. CASE Status(auth'.reason) \in Going
    <3>1. server'.pc = "handle" /\ client' = client
      <4>1. Attributes("handle") /\ client' = client
        BY <1>9, <2>2, Zenon DEF Authorize
      <4>2. QED
        BY <4>1, GoingIs
    <3>2. Allowed'
      BY <1>7, <2>1, <2>2 DEF Allowed
    <3>3. AnswerDue'
      BY <1>4, <1>7, <2>1, <3>1, <3>2 DEF AnswerDue, Calling, Read
    <3>4. QED
      BY <1>6, <3>1, <3>3, WholeIf DEF Whole
  <2>3. CASE Status(auth'.reason) \notin Going
    <3>1. server'.pc = "ended" /\ Tell(Status(auth'.reason))
      <4>1. Attributes("ended") /\ Tell(Status(auth'.reason))
        BY <1>9, <2>3, Zenon DEF Authorize
      <4>2. QED
        BY <4>1, GoingIs
    <3>2. ~Allowed'
      BY <2>3 DEF Allowed
    <3>3. AnswerDue'
      BY <1>7, <2>1, <3>1 DEF AnswerDue, Calling, Read
    <3>4. QED
      BY <1>4, <1>6, <3>1, <3>2, <3>3, Told, WholeIf DEF Whole
  <2>4. QED
    BY <2>2, <2>3
<1>10. CASE ~Refuse /\ ~Authorize
  <2>1. auth' = auth /\ server.pc \in {"handle", "list"}
    BY <1>10, Zenon DEF HandleStep, RunScript, Simple, NotHandled, Gateway, ListForbidden,
         ListStart, ListEntry, ListGone, ListEnd, ServerAt, Handling
  <2>2. Task' = Task /\ Allowed' = Allowed /\ MayList' = MayList
    BY <1>1, <1>2, <2>1, TaskSame
  <2>3. Allowed /\ (server.pc = "list" => Task = "list" /\ MayList)
    BY <1>4, <2>1 DEF AnswerDue
  <2>4. Wrong = <<>>
    BY <2>3 DEF Allowed
  <2>5. CASE RunScript
    <3>1. Task = "script" /\ server'.pc = "call" /\ client' = client
      BY <2>5 DEF RunScript, Handling, ServerGoes, Shaped
    <3>2. AnswerDue'
      BY <1>4, <1>7, <2>2, <2>3, <2>4, <3>1 DEF AnswerDue, Calling, Read
    <3>3. QED
      BY <1>6, <3>1, <3>2, WholeIf DEF Whole
  <2>6. CASE Simple
    <3>1. PICK what : Tell(what) /\ server'.pc = "ended"
      BY <2>6 DEF Simple, Reply, ServerGoes, Shaped
    <3>2. Task \in {"redirect", "unable", "unchanged", "document", "head"}
      BY <2>6 DEF Simple, Handling
    <3>3. AnswerDue'
      BY <1>7, <2>4, <3>1 DEF AnswerDue, Calling, Read
    <3>4. QED
      BY <1>4, <1>6, <2>2, <2>3, <3>1, <3>2, <3>3, Told, WholeIf DEF Whole
  <2>7. CASE NotHandled \/ Gateway
    <3>1. /\ server'.pc = "ended" /\ Task \in {"unset", "unknown", "gateway"}
          /\ \E what, nowhere :
                \/ Tell(what)
                \/ /\ what \in {"404", "500", "501"}
                   /\ client' = IF client.left THEN client
                                ELSE [client EXCEPT !.got = @ \o <<what, nowhere>>]
      <4>1. CASE NotHandled
        BY <2>7, <4>1, Zenon DEF NotHandled, Handling, ServerGoes, Unassigned, Shaped
      <4>2. CASE Gateway
        BY <2>7, <4>2, Zenon DEF Gateway, Handling, Reply, ServerGoes, Unassigned, Shaped
      <4>3. QED
        BY <2>7, <4>1, <4>2, Zenon
    <3>2. PICK what, nowhere :
                \/ Tell(what)
                \/ /\ what \in {"404", "500", "501"}
                   /\ client' = IF client.left THEN client
                                ELSE [client EXCEPT !.got = @ \o <<what, nowhere>>]
      BY <3>1, Zenon
    <3>3. \/ Len(client'.got) = 1
          \/ Twice'
      <4>1. CASE Tell(what)
        BY <1>4, <4>1, Told
      <4>2. CASE /\ what \in {"404", "500", "501"}
                 /\ client' = IF client.left THEN client
                              ELSE [client EXCEPT !.got = @ \o <<what, nowhere>>]
        <5>1. client'.got = client.got \o <<what, nowhere>>
          BY <1>3, <4>2 DEF Shaped
        <5>2. <<what, nowhere>> \in Seq({what, nowhere}) /\ Len(<<what, nowhere>>) = 2
          OBVIOUS
        <5>3. client'.got = <<what, nowhere>>
          BY <1>4, <5>1, <5>2, Joined
        <5>4. Task' \in {"gateway", "unset", "unknown"}
          BY <2>2, <3>1
        <5>5. <<what, nowhere>>[1] = what
          OBVIOUS
        <5>6. Len(client'.got) = 2 /\ client'.got[1] \in {"404", "500", "501"}
          BY <4>2, <5>2, <5>3, <5>5, Zenon
        <5>7. QED
          BY <5>4, <5>6, Zenon DEF Twice
      <4>3. QED
        BY <3>2, <4>1, <4>2
    <3>4. AnswerDue'
      BY <1>7, <2>4, <3>1 DEF AnswerDue, Calling, Read
    <3>5. QED
      BY <1>6, <2>2, <2>3, <3>1, <3>3, <3>4, WholeIf DEF Whole
  <2>8. CASE ListForbidden
    <3>1. PICK what : Tell(what) /\ server'.pc = "ended"
      BY <2>8 DEF ListForbidden, Reply, ServerGoes, Shaped
    <3>2. Task = "list" /\ ~MayList
      BY <2>8 DEF ListForbidden, Handling
    <3>3. AnswerDue'
      BY <1>7, <2>4, <3>1 DEF AnswerDue, Calling, Read
    <3>4. QED
      BY <1>4, <1>6, <2>2, <2>3, <3>1, <3>2, <3>3, Told, WholeIf DEF Whole
  <2>9. CASE ListStart \/ ListEntry
    <3>1. client' = client /\ Task = "list" /\ MayList /\ server'.pc = "list"
      BY <2>3, <2>9, Zenon DEF ListStart, ListEntry, Handling, ServerAt, ServerGoes, Shaped
    <3>2. AnswerDue'
      BY <1>4, <1>7, <2>2, <2>3, <2>4, <3>1 DEF AnswerDue, Calling, Read
    <3>3. QED
      BY <1>6, <3>1, <3>2, WholeIf DEF Whole
  <2>10. CASE ListGone \/ ListEnd
    <3>1. Task = "list" /\ MayList /\ server'.pc = "ended"
      BY <2>3, <2>10 DEF ListGone, ListEnd, ServerAt, ServerGoes, Shaped
    <3>2. AnswerDue'
      BY <1>7, <2>4, <3>1 DEF AnswerDue, Calling, Read
    <3>3. QED
      BY <1>6, <2>2, <2>3, <3>1, <3>2, WholeIf DEF Whole
  <2>11. QED
    BY <1>10, <2>5, <2>6, <2>7, <2>8, <2>9, <2>10 DEF HandleStep
<1>11. QED
  BY <1>8, <1>9, <1>10

\* A step of the process that runs a script, in the same hop.
Onward == req' = req /\ auth' = auth /\ server'.hop = server.hop

LEMMA OnwardSame ==
    ASSUME Onward
    PROVE  /\ ScriptPlan' = ScriptPlan /\ Expected' = Expected /\ Wrong' = Wrong
           /\ Task' = Task /\ Allowed' = Allowed /\ MayList' = MayList
BY HopSame, TaskSame DEF Onward

\* Nothing is decided anew while a script is run.
LEMMA DecidedStays ==
    ASSUME Onward, AnswerDue, server.pc \in Calling,
           server'.pc \in (Calling \ {"call"})
                            \cup {"ended", "pipe", "quit", "left", "term", "stopped"}
    PROVE  AnswerDue'
<1>1. /\ server'.hop = server.hop /\ Wrong' = Wrong /\ Task' = Task /\ Allowed' = Allowed
      /\ MayList' = MayList
  BY OnwardSame DEF Onward
<1>2. server'.hop > 1 => Wrong' = <<>>
  BY <1>1 DEF AnswerDue
<1>3. server'.pc \notin {"check", "handle", "list", "call"}
  BY DEF Calling, Read
<1>4. Allowed' /\ Task' = "script"
  BY <1>1 DEF AnswerDue
<1>5. QED
  BY <1>2, <1>3, <1>4 DEF AnswerDue

\* The output is not touched.
LEMMA OutputStays ==
    ASSUME OutputInOrder, Onward,
           \/ server'.pc = server.pc
           \/ server.pc \in Read /\ server'.pc \in Read
           \/ server.pc \in {"wait", "off"} /\ server'.pc \in {"off", "alarm"}
           \/ server'.pc \in {"call", "pipe", "quit", "left", "term", "stopped"},
           server'.read = server.read, server'.held = server.held, server'.out = server.out,
           server'.direct = server.direct, server'.redirect = server.redirect,
           server'.then = server.then, server'.sized = server.sized, pout' = pout,
           client'.got = client.got, client'.told = client.told,
           script'.at = script.at, script'.wrote = script.wrote, script'.state = script.state
    PROVE  OutputInOrder'
<1>1. ScriptPlan' = ScriptPlan /\ Expected' = Expected /\ server'.hop = server.hop
  BY OnwardSame DEF Onward
<1>2. Passed'
  BY DEF OutputInOrder, Passed, Read
<1>3. ScriptAsPlanned'
  BY <1>1 DEF OutputInOrder, ScriptAsPlanned, Partly, Running, Read
<1>0. Announced' = Announced
  BY ToldSame
<1>4. BeingRead'
  BY <1>0, <1>1, Zenon DEF OutputInOrder, BeingRead, Read
<1>5. BeingSent' /\ AllSent'
  BY <1>0, <1>1, Zenon DEF OutputInOrder, BeingSent, AllSent, Read
<1>6. QED
  BY <1>2, <1>3, <1>4, <1>5 DEF OutputInOrder

\* Of the first three conjuncts: the last one is about "ended".
LEMMA WholeGoesOn ==
    ASSUME AnswerDue', OutputInOrder', server'.pc # "ended"
    PROVE  Whole'
BY WholeIf DEF Whole

LEMMA CallAnswers ==
    ASSUME Shaped, Whole, Call, auth' = auth
    PROVE  Whole'
<1> USE DEF Shaped
<1>1. /\ server.pc = "call" /\ req' = req /\ client' = client /\ pout' = <<>>
      /\ script' = [Unstarted EXCEPT !.state = "run"] /\ server' = Begun
  BY DEF Call, ServerAt
<1>2. /\ server'.pc \in {"feed", "load"} /\ server'.hop = server.hop
      /\ server'.read = <<>> /\ server'.held = <<>> /\ ~server'.direct /\ ~server'.redirect
      /\ server'.out = server.out
  BY <1>1 DEF Begun
<1>3. script'.at = 1 /\ script'.wrote = 0 /\ script'.state = "run"
  BY <1>1 DEF Unstarted
<1>4. Onward
  BY <1>1, <1>2 DEF Onward
<1>5. AnswerDue /\ OutputInOrder /\ client.got = <<>> /\ client.told = 0
  BY <1>1 DEF Whole, AnswerDue
<1>6. AnswerDue'
  BY <1>1, <1>2, <1>4, <1>5, DecidedStays DEF Calling, Read
<1>7. Passed'
  BY <1>1, <1>2, <1>5 DEF OutputInOrder, Passed, Read
<1>8. ScriptAsPlanned'
  <2>1. ScriptPlan' = ScriptPlan /\ Len(ScriptPlan.ops) \in Nat
    BY <1>4, OnwardSame, Plans
  <2>2. Count(ScriptPlan.ops, "out", 0) = 0
    BY CountNext
  <2>3. QED
    BY <1>3, <2>1, <2>2 DEF ScriptAsPlanned, Running
<1>9. BeingRead'
  <2>1. Blocks(server.hop, 0) = <<>>
    BY BlocksAre, Zenon
  <2>2. <<>> \o <<>> = <<>>
    BY Joined, <<>> \in Seq(Nat)
  <2>3. QED
    BY <1>1, <1>2, <1>3, <1>5, <2>1, <2>2 DEF BeingRead, Announced
<1>10. BeingSent' /\ AllSent'
  BY <1>2 DEF BeingSent, AllSent
<1>11. QED
  BY <1>2, <1>6, <1>7, <1>8, <1>9, <1>10, WholeGoesOn DEF OutputInOrder

LEMMA FeedAnswers ==
    ASSUME Shaped, Whole, Feed, auth' = auth
    PROVE  Whole'
<1> USE DEF Shaped
<1>1. /\ server.pc \in Read \ {"load"} /\ server'.pc \in Read /\ req' = req /\ pout' = pout
      /\ script' = script
  BY Zenon DEF Feed, GetBlock, WriteBlock, WriteNewline, ServerAt, ServerGoes, pipes, Read
<1>2. client'.got = client.got /\ client'.told = client.told
  BY DEF Feed, GetBlock, WriteBlock, WriteNewline
<1>3. /\ server'.hop = server.hop /\ server'.read = server.read /\ server'.held = server.held
      /\ server'.out = server.out /\ server'.direct = server.direct
      /\ server'.redirect = server.redirect /\ server'.then = server.then
      /\ server'.sized = server.sized
  BY Zenon DEF Feed, GetBlock, WriteBlock, WriteNewline, ServerGoes
<1>4. Onward
  BY <1>1, <1>3 DEF Onward
<1>5. AnswerDue'
  BY <1>1, <1>4, DecidedStays DEF Whole, Calling, Read
<1>6. OutputInOrder'
  BY <1>1, <1>2, <1>3, <1>4, OutputStays DEF Whole
<1>7. QED
  BY <1>1, <1>5, <1>6, WholeGoesOn DEF Read

LEMMA ReadAnswers ==
    ASSUME Shaped, Whole, ReadOut, auth' = auth
    PROVE  Whole'
<1>1. /\ server.pc = "load" /\ req' = req /\ client' = client /\ script' = script /\ pout # <<>>
      /\ server' = [server EXCEPT !.read = Append(@, Head(pout))] /\ pout' = Tail(pout)
  BY DEF ReadOut, ServerAt
<1>2. /\ server'.pc = "load" /\ server'.hop = server.hop /\ server'.held = server.held
      /\ server'.out = server.out /\ server'.direct = server.direct
      /\ server'.redirect = server.redirect /\ server'.then = server.then
      /\ server'.read = Append(server.read, Head(pout)) /\ server'.sized = server.sized
  BY <1>1 DEF Shaped
<1>3. Onward
  BY <1>1, <1>2 DEF Onward
<1>4. ScriptPlan' = ScriptPlan
  BY <1>3, OnwardSame
<1>5. Passed /\ ScriptAsPlanned /\ BeingRead /\ AnswerDue
  BY DEF Whole, OutputInOrder
<1>6. /\ server.read \in Seq(Part) /\ pout \in Seq(Part) /\ server.held \in Seq(Part)
      /\ client.got \in Seq(Part)
  BY <1>1, <1>5 DEF Passed, Read
<1>7. /\ server'.read \in Seq(Part) /\ pout' \in Seq(Part)
      /\ server'.read \o pout' = server.read \o pout
  <2>1. /\ Append(server.read, Head(pout)) \in Seq(Part) /\ Tail(pout) \in Seq(Part)
        /\ Append(server.read, Head(pout)) \o Tail(pout) = server.read \o pout
    BY <1>1, <1>6, Passing
  <2>2. QED
    BY <1>1, <1>2, <2>1, Zenon
<1>8. client.got \o server.held \in Seq(Part)
  BY <1>6, Joined
<1>9. /\ client.got \o server.held \o server'.read \o pout' =
             client.got \o server.held \o (server'.read \o pout')
      /\ client.got \o server.held \o server.read \o pout =
             client.got \o server.held \o (server.read \o pout)
  <2> DEFINE front == client.got \o server.held
  <2>1. front \in Seq(Part)
    BY <1>8
  <2> HIDE DEF front
  <2>2. PICK r \in Seq(Part), p \in Seq(Part) : r = server.read /\ p = pout
    BY <1>6
  <2>3. PICK rr \in Seq(Part), pp \in Seq(Part) : rr = server'.read /\ pp = pout'
    BY <1>7
  <2>4. (front \o rr) \o pp = front \o (rr \o pp)
    BY <2>1
  <2>5. (front \o r) \o p = front \o (r \o p)
    BY <2>1
  <2>6. QED
    BY <2>2, <2>3, <2>4, <2>5 DEF front
<1>10. client'.got \o server'.held \o server'.read \o pout' =
             client.got \o server.held \o server.read \o pout
  BY <1>1, <1>2, <1>7, <1>9, Zenon
<1>11. AnswerDue'
  BY <1>1, <1>2, <1>3, <1>5, DecidedStays DEF Calling, Read
<1>12. Passed'
  BY <1>1, <1>2, <1>5, <1>6, <1>7 DEF Passed
<1>13. ScriptAsPlanned'
  BY <1>1, <1>2, <1>4, <1>5 DEF ScriptAsPlanned, Read, Running
<1>14. BeingRead'
  <2>1. Announced' = Announced
    BY <1>1, <1>2, ToldSame
  <2>2. QED
    BY <1>1, <1>2, <1>4, <1>5, <1>7, <1>10, <2>1, Zenon DEF BeingRead, Read
<1>15. BeingSent' /\ AllSent'
  BY <1>2 DEF BeingSent, AllSent
<1>16. QED
  BY <1>2, <1>11, <1>12, <1>13, <1>14, <1>15, WholeGoesOn DEF OutputInOrder

\* What is expected, by the kind of the header.
LEMMA ExpectedIs ==
    ASSUME Shaped
    PROVE  LET o == Output(ScriptPlan, server.hop)
               h == ScriptPlan.header
           IN /\ o = <<>> => Expected = <<>>
              /\ h = "none" => Expected = <<>>
              /\ o # <<>> /\ h = "remote" => Expected = <<"moved">>
              /\ o # <<>> /\ h = "local" => Expected = <<"error">>
              /\ h = "type" => Expected = o
<1> DEFINE o == Output(ScriptPlan, server.hop)
           h == ScriptPlan.header
<1>1. Expected = IF o = <<>> THEN <<>>
                 ELSE CASE h = "none"   -> <<>>
                        [] h = "remote" -> <<"moved">>
                        [] h = "local"  -> <<"error">>
                        [] h = "type"   -> o
  BY DEF Expected
<1> HIDE DEF o, h
<1>2. o = <<>> => Expected = <<>>
  BY <1>1
<1>3. o # <<>> /\ h = "none" => Expected = <<>>
  BY <1>1
<1>4. o # <<>> /\ h = "remote" => Expected = <<"moved">>
  BY <1>1
<1>5. o # <<>> /\ h = "local" => Expected = <<"error">>
  BY <1>1
<1>6. o # <<>> /\ h = "type" => Expected = o
  BY <1>1
<1>7. QED
  BY <1>2, <1>3, <1>4, <1>5, <1>6 DEF o, h

\* What is written so far is no more than all the output.
LEMMA Writing ==
    ASSUME Shaped, ScriptAsPlanned, server.pc \in Read
    PROVE  /\ script.wrote \in 0 .. Count(ScriptPlan.ops, "out", Len(ScriptPlan.ops))
           /\ Len(Blocks(server.hop, script.wrote)) = script.wrote
           /\ Len(Output(ScriptPlan, server.hop)) =
                  Count(ScriptPlan.ops, "out", Len(ScriptPlan.ops))
           /\ ~Running => Output(ScriptPlan, server.hop) = Blocks(server.hop, script.wrote)
<1> DEFINE ops == ScriptPlan.ops
           n == Len(ops)
           C(k) == Count(ops, "out", k)
<1>1. n \in Nat
  BY Plans
<1>2. script.at \in 1 .. n + 1 /\ script.wrote = C(script.at - 1)
      /\ (~Running => script.at = n + 1)
  BY DEF ScriptAsPlanned
<1>3. server.hop \in Nat
  BY DEF Shaped
<1>4. PICK k \in 0 .. n : script.at = k + 1 /\ script.wrote = C(k) /\ (~Running => k = n)
  <2>1. script.at - 1 \in 0 .. n /\ script.at = (script.at - 1) + 1
    BY <1>1, <1>2
  <2>2. ~Running => script.at - 1 = n
    BY <1>1, <1>2
  <2>3. QED
    BY <1>2, <2>1, <2>2
<1>5. C(k) \in Nat /\ C(n) \in Nat
  BY <1>1, CountNext
<1>6. C(k) <= C(n)
  BY <1>1, CountGrows
<1>7. Output(ScriptPlan, server.hop) = Blocks(server.hop, C(n))
  BY DEF Output
<1> HIDE DEF C, n
<1>8. Len(Blocks(server.hop, C(n))) = C(n) /\ Len(Blocks(server.hop, C(k))) = C(k)
  BY <1>3, <1>5, BlocksAre, Zenon
<1>9. script.wrote \in 0 .. C(n)
  BY <1>4, <1>5, <1>6
<1>10. ~Running => Output(ScriptPlan, server.hop) = Blocks(server.hop, script.wrote)
  BY <1>4, <1>7
<1>11. Len(Output(ScriptPlan, server.hop)) = C(n)
       /\ Len(Blocks(server.hop, script.wrote)) = script.wrote
  BY <1>4, <1>7, <1>8
<1>12. QED
  BY <1>9, <1>10, <1>11 DEF C, n

\* What is read of a redirection shows that there is output.
LEMMA SomeOutput ==
    ASSUME Shaped, OutputInOrder, server.pc = "load", server.read # <<>>,
           ScriptPlan.header \in {"local", "remote"}
    PROVE  Output(ScriptPlan, server.hop) # <<>>
<1>1. /\ server.read \in Seq(Part) /\ pout \in Seq(Part)
      /\ server.read \o pout = Blocks(server.hop, script.wrote)
  BY DEF OutputInOrder, Passed, BeingRead, Read
<1>2. /\ script.wrote \in 0 .. Count(ScriptPlan.ops, "out", Len(ScriptPlan.ops))
      /\ Len(Blocks(server.hop, script.wrote)) = script.wrote
      /\ Len(Output(ScriptPlan, server.hop)) = Count(ScriptPlan.ops, "out", Len(ScriptPlan.ops))
  BY Writing DEF OutputInOrder, Read
<1>3. PICK r \in Seq(Part), p \in Seq(Part) : r = server.read /\ p = pout
  BY <1>1
<1>4. Len(r \o p) = Len(r) + Len(p) /\ Len(r) \in Nat \ {0} /\ Len(p) \in Nat
  BY <1>3
<1>5. script.wrote = Len(r) + Len(p)
  BY <1>1, <1>2, <1>3, <1>4, Zenon
<1>6. Len(Output(ScriptPlan, server.hop)) # 0
  <2> DEFINE n == Count(ScriptPlan.ops, "out", Len(ScriptPlan.ops))
  <2>1. script.wrote \in 0 .. n /\ Len(Output(ScriptPlan, server.hop)) = n
    BY <1>2
  <2> HIDE DEF n
  <2>2. script.wrote # 0
    BY <1>4, <1>5
  <2>3. QED
    BY <2>1, <2>2
<1>7. QED
  BY <1>6

LEMMA BlockAnswers ==
    ASSUME Shaped, Whole, LoadBlock, auth' = auth
    PROVE  Whole'
<1> DEFINE h == ScriptPlan.header
<1>1. /\ server.pc = "load" /\ server.read # <<>> /\ script' = script
      /\ pout' = pout /\ req' = req /\ (h # "type" => client' = client)
  BY BlockRead, Plans
<1>2. AnswerDue /\ OutputInOrder /\ Passed /\ ScriptAsPlanned /\ BeingRead
  BY DEF Whole, OutputInOrder
<1>3. /\ Announced /\ ~server.redirect
      /\ server.direct => server.held = <<>>
      /\ ~server.direct => client.got = <<>> /\ client.told = 0
      /\ h = "type" => client.got \o server.held \o server.read \o pout
                           = Blocks(server.hop, script.wrote)
      /\ h # "type" => ~server.direct /\ server.held = <<>>
      /\ h \in {"local", "remote"} => server.read \o pout = Blocks(server.hop, script.wrote)
  BY <1>1, <1>2, Zenon DEF BeingRead, Read
<1>4. /\ server.read \in Seq(Part) /\ server.held \in Seq(Part) /\ pout \in Seq(Part)
      /\ client.got \in Seq(Part) /\ server.out \in Seq(Part) /\ client.told \in Nat
  BY <1>1, <1>2 DEF Passed, Read
<1>5. h \in {"type", "local", "remote", "none"}
  BY Plans
<1>6. Running' = Running
  BY <1>1 DEF Running
<1>7. CASE h = "none"
  <2>1. server' = [server EXCEPT !.read = <<>>]
    BY <1>7, BlockRead
  <2>2. /\ server'.pc = "load" /\ server'.hop = server.hop /\ server'.read = <<>>
        /\ server'.held = server.held /\ server'.out = server.out
        /\ server'.direct = server.direct /\ server'.sized = server.sized
        /\ server'.redirect = server.redirect /\ client' = client
    BY <1>1, <1>7, <2>1 DEF Shaped
  <2>3. Onward
    BY <1>1, <2>2 DEF Onward
  <2>4. ScriptPlan' = ScriptPlan
    BY <2>3, OnwardSame
  <2>5. AnswerDue'
    BY <1>1, <1>2, <2>2, <2>3, DecidedStays DEF Calling, Read
  <2>6. Passed'
    BY <1>1, <1>4, <2>2 DEF Passed
  <2>7. ScriptAsPlanned'
    BY <1>1, <1>2, <1>6, <2>2, <2>4 DEF ScriptAsPlanned, Read
  <2>8. BeingRead'
    <3>1. Announced' = Announced
      BY <2>2, ToldSame
    <3>2. QED
      BY <1>1, <1>3, <1>7, <2>2, <2>4, <3>1, Zenon DEF BeingRead
  <2>9. BeingSent' /\ AllSent'
    BY <2>2 DEF BeingSent, AllSent
  <2>10. QED
    BY <2>2, <2>5, <2>6, <2>7, <2>8, <2>9, WholeGoesOn DEF OutputInOrder
<1>8. CASE h = "local"
  <2>1. Redirect /\ client' = client
    BY <1>8, BlockRead
  <2>2. /\ server'.pc = "wait" /\ server'.hop = server.hop /\ server'.read = <<>>
        /\ server'.held = server.held /\ server'.out = server.out /\ server'.redirect
        /\ client' = client
    BY <2>1, Redirected
  <2>3. Onward
    BY <1>1, <2>2 DEF Onward
  <2>4. ScriptPlan' = ScriptPlan /\ Expected' = Expected
    BY <2>3, OnwardSame
  <2>5. Expected # <<>>
    <3>1. Expected = <<"error">>
      BY <1>1, <1>2, <1>8, SomeOutput, ExpectedIs
    <3>2. QED
      BY <3>1, Single
  <2>6. AnswerDue'
    BY <1>1, <1>2, <2>2, <2>3, DecidedStays DEF Calling, Read
  <2>7. Passed'
    BY <1>1, <1>4, <2>2 DEF Passed
  <2>8. ScriptAsPlanned' /\ BeingRead' /\ BeingSent'
    BY <2>2 DEF ScriptAsPlanned, BeingRead, BeingSent, Partly, Read
  <2>9. AllSent'
    BY <1>1, <1>3, <1>8, <2>2, <2>4, <2>5 DEF AllSent
  <2>10. QED
    BY <2>2, <2>6, <2>7, <2>8, <2>9, WholeGoesOn DEF OutputInOrder
<1>9. CASE h = "remote"
  <2>1. /\ Answer(<<"moved">>, "wait") /\ <<"moved">> # <<>> /\ <<"moved">> \in Seq(Part)
        /\ <<>> \o <<"moved">> = <<"moved">> /\ client' = client
    <3>1. "moved" \in Part
      BY DEF Part
    <3>2. QED
      BY <1>9, <3>1, BlockRead, Single
  <2>2. /\ server'.pc = "send" /\ server'.hop = server.hop /\ server'.read = <<>>
        /\ server'.held = server.held /\ server'.out = <<"moved">> /\ ~server'.redirect
        /\ server'.then = "wait" /\ client' = client
    BY <1>3, <2>1, Answered, Zenon
  <2>3. Onward
    BY <1>1, <2>2 DEF Onward
  <2>4. ScriptPlan' = ScriptPlan /\ Expected' = Expected
    BY <2>3, OnwardSame
  <2>5. Expected = <<"moved">>
    BY <1>1, <1>2, <1>9, SomeOutput, ExpectedIs
  <2>6. AnswerDue'
    BY <1>1, <1>2, <2>2, <2>3, DecidedStays DEF Calling, Read
  <2>7. Passed'
    BY <1>1, <1>4, <2>1, <2>2 DEF Passed
  <2>8. ScriptAsPlanned' /\ BeingRead' /\ AllSent'
    BY <2>2 DEF ScriptAsPlanned, BeingRead, AllSent, Partly, Read
  <2>9. BeingSent'
    <3>1. Announced'
      <4>1. ~server.direct
        BY <1>3, <1>9
      <4>2. client.told = 0
        BY <1>3, <4>1
      <4>3. QED
        BY <2>2, <4>2 DEF Announced
    <3>2. client.got = <<>>
      BY <1>3, <1>9
    <3>3. QED
      BY <1>1, <1>9, <2>1, <2>2, <2>4, <2>5, <3>1, <3>2, Zenon DEF BeingSent
  <2>10. QED
    BY <2>2, <2>6, <2>7, <2>8, <2>9, WholeGoesOn DEF OutputInOrder
<1>10. CASE h = "type"
  <2>1. PutBlock
    BY <1>10, BlockRead
  <2>2. /\ server'.read = <<>> /\ server'.then = "load" /\ server'.hop = server.hop
        /\ server'.redirect = server.redirect /\ client'.got = client.got
        /\ \/ /\ server'.pc = "send" /\ server'.direct /\ server'.held = <<>>
              /\ server'.out = server.held \o server.read
           \/ /\ server'.pc = "load" /\ ~server'.direct /\ ~server.direct /\ server'.out = <<>>
              /\ server'.held = server.held \o server.read /\ client'.told = client.told
    BY <2>1, BlockPut, Zenon
  <2>0. Announced' /\ client'.told \in Nat
    <3>1. server'.sized = server.sized
          /\ (client'.told = client.told \/ (server.sized /\ client'.told = DocSize))
      BY <2>1, BlockPut, Zenon
    <3>2. QED
      BY <1>3, <1>4, <3>1, ScriptAssumption DEF Announced
  <2>3. Onward
    BY <1>1, <2>2 DEF Onward
  <2>4. ScriptPlan' = ScriptPlan
    BY <2>3, OnwardSame
  <2>5. AnswerDue'
    BY <1>1, <1>2, <2>2, <2>3, DecidedStays, Zenon DEF Calling, Read
  <2>6. PICK g \in Seq(Part), k \in Seq(Part), r \in Seq(Part), p \in Seq(Part) :
            g = client.got /\ k = server.held /\ r = server.read /\ p = pout
    BY <1>4
  <2>7. k \o r \in Seq(Part) /\ k \o r # <<>>
    <3>1. k \o r \in Seq(Part)
      OBVIOUS
    <3>2. Len(k \o r) = Len(k) + Len(r) /\ Len(k) \in Nat /\ Len(r) \in Nat \ {0}
      BY <1>1, <2>6
    <3>3. Len(k \o r) # 0
      BY <3>2
    <3>4. QED
      BY <3>1, <3>3
  <2>8. (g \o k) \o r = g \o (k \o r)
    OBVIOUS
  <2>9. (g \o k) \o r \o p = Blocks(server.hop, script.wrote)
    BY <1>3, <1>10, <2>6, Zenon
  <2>10. Passed'
    <3>1. server'.held \in Seq(Part) /\ server'.out \in Seq(Part)
      <4>1. k \o r = server.held \o server.read /\ <<>> \in Seq(Part)
        BY <2>6
      <4>2. QED
        BY <2>2, <2>7, <4>1, Zenon
    <3>2. QED
      BY <1>1, <1>4, <2>0, <2>2, <3>1 DEF Passed
  <2>11. ScriptAsPlanned'
    BY <1>1, <1>2, <1>6, <2>2, <2>4 DEF ScriptAsPlanned, Read
  <2>12. AllSent'
    BY <2>2, Zenon DEF AllSent
  <2>13. CASE server'.pc = "send"
    <3>1. g \o (k \o r) \o p = Blocks(server.hop, script.wrote)
      BY <2>8, <2>9
    <3>2. client'.got \o server'.out \o pout' = Blocks(server'.hop, script'.wrote)
      BY <1>1, <2>2, <2>6, <2>13, <3>1, Zenon
    <3>3. BeingSent'
      BY <1>1, <1>3, <1>10, <2>0, <2>2, <2>4, <2>6, <2>7, <2>13, <3>2, Zenon DEF BeingSent
    <3>4. BeingRead'
      BY <2>13 DEF BeingRead, Read
    <3>5. QED
      BY <2>5, <2>10, <2>11, <2>12, <2>13, <3>3, <3>4, WholeGoesOn DEF OutputInOrder
  <2>14. CASE server'.pc = "load"
    <3>1. g \o (k \o r) \o <<>> = g \o (k \o r)
      <4>1. g \o (k \o r) \in Seq(Part)
        BY <2>7
      <4>2. QED
        BY <4>1
    <3>2. g \o (k \o r) \o <<>> \o p = Blocks(server.hop, script.wrote)
      BY <2>8, <2>9, <3>1, Zenon
    <3>3. client'.got \o server'.held \o server'.read \o pout'
              = Blocks(server'.hop, script'.wrote)
      BY <1>1, <2>2, <2>6, <2>14, <3>2, Zenon
    <3>4. BeingRead'
      BY <1>1, <1>3, <1>10, <2>0, <2>2, <2>4, <2>14, <3>3, Zenon DEF BeingRead
    <3>5. BeingSent'
      BY <2>14 DEF BeingSent
    <3>6. QED
      BY <2>5, <2>10, <2>11, <2>12, <2>14, <3>4, <3>5, WholeGoesOn DEF OutputInOrder
  <2>15. QED
    BY <2>2, <2>13, <2>14, Zenon
<1>11. QED
  BY <1>5, <1>7, <1>8, <1>9, <1>10

LEMMA EndAnswers ==
    ASSUME Shaped, Whole, LoadEnd, auth' = auth
    PROVE  Whole'
<1> DEFINE h == ScriptPlan.header
           o == Output(ScriptPlan, server.hop)
<1>1. /\ server.pc = "load" /\ server.read = <<>> /\ pout = <<>> /\ ~Running
      /\ script' = script /\ pout' = pout /\ req' = req /\ Answer(server.held, "wait")
      /\ client' = [client EXCEPT !.told = IF server.direct THEN @ ELSE Len(server.held)]
  BY DEF LoadEnd, ServerAt, Eof, pipes
<1>2. AnswerDue /\ OutputInOrder /\ Passed /\ ScriptAsPlanned /\ BeingRead
  BY DEF Whole, OutputInOrder
<1>3. /\ Announced /\ ~server.redirect
      /\ server.direct => server.held = <<>>
      /\ ~server.direct => client.got = <<>> /\ client.told = 0
      /\ h = "type" => client.got \o server.held \o server.read \o pout
                           = Blocks(server.hop, script.wrote)
      /\ h # "type" => ~server.direct /\ server.held = <<>>
      /\ h \in {"local", "remote"} => server.read \o pout = Blocks(server.hop, script.wrote)
  BY <1>1, <1>2, Zenon DEF BeingRead, Read
<1>4. /\ server.held \in Seq(Part) /\ client.got \in Seq(Part) /\ server.read \in Seq(Part)
  BY <1>1, <1>2 DEF Passed, Read
<1>5. h \in {"type", "local", "remote", "none"}
  BY Plans
<1>6. o = Blocks(server.hop, script.wrote)
  BY <1>1, <1>2, Writing DEF Read
<1>7. /\ server'.hop = server.hop /\ server'.read = <<>> /\ server'.held = server.held
      /\ server'.out = server.held /\ ~server'.redirect /\ server'.then = "wait"
      /\ server'.pc = IF server.held = <<>> THEN "wait" ELSE "send"
      /\ server'.sized = server.sized
  BY <1>1, <1>3, Answered
<1>8. /\ client'.got = client.got
      /\ client'.told = IF server.direct THEN client.told ELSE Len(server.held)
  BY <1>1 DEF Shaped
<1>9. Onward
  BY <1>1, <1>7 DEF Onward
<1>10. Expected' = Expected
  BY <1>9, OnwardSame
<1>11. client.got \o server.held = Expected /\ (server.held = <<>> => client.got = Expected)
  <2>1. PICK g \in Seq(Part), k \in Seq(Part) : g = client.got /\ k = server.held
    BY <1>4
  <2>2. g \o <<>> = g /\ <<>> \o k = k /\ g \o k \in Seq(Part)
    OBVIOUS
  <2>3. (g \o k) \o <<>> = g \o k
    BY <2>2
  <2>4. <<>> \o <<>> = <<>>
    BY Joined, <<>> \in Seq(Part)
  <2>5. CASE h = "type"
    <3>1. (g \o k) \o <<>> \o <<>> = o
      BY <1>1, <1>3, <1>6, <2>1, <2>5, Zenon
    <3>2. g \o k = Expected
      BY <2>3, <2>5, <3>1, ExpectedIs
    <3>3. QED
      BY <2>1, <2>2, <3>2, Zenon
  <2>6. CASE h # "type"
    <3>1. g = <<>> /\ k = <<>>
      BY <1>3, <2>1, <2>6
    <3>2. h \in {"local", "remote"} => o = <<>>
      BY <1>1, <1>3, <1>6, <2>4
    <3>3. Expected = <<>>
      BY <1>5, <2>6, <3>2, ExpectedIs
    <3>4. QED
      BY <2>1, <2>4, <3>1, <3>3
  <2>7. QED
    BY <2>5, <2>6, Zenon
<1>12. Announced' \/ client'.told = Len(Expected)
  <2>1. CASE server.direct
    <3>1. client'.told = client.told
      BY <1>8, <2>1
    <3>2. QED
      BY <1>3, <1>7, <3>1, ToldSame
  <2>2. CASE ~server.direct
    <3>1. client.got = <<>> /\ client'.told = Len(server.held)
      BY <1>3, <1>8, <2>2
    <3>2. PICK k \in Seq(Part) : k = server.held
      BY <1>4
    <3>3. <<>> \o k = k
      OBVIOUS
    <3>4. server.held = Expected
      BY <1>11, <3>1, <3>2, <3>3
    <3>5. QED
      BY <3>1, <3>4
  <2>3. QED
    BY <2>1, <2>2
<1>13. AnswerDue'
  BY <1>1, <1>2, <1>7, <1>9, DecidedStays DEF Calling, Read
<1>14. Passed'
  <2>1. client'.told \in Nat
    BY <1>2, <1>4, <1>8 DEF Passed
  <2>2. <<>> \in Seq(Part)
    OBVIOUS
  <2>3. QED
    BY <1>1, <1>4, <1>7, <1>8, <2>1, <2>2 DEF Passed
<1>15. ScriptAsPlanned' /\ BeingRead'
  BY <1>7 DEF ScriptAsPlanned, BeingRead, Partly, Read
<1>16. BeingSent'
  BY <1>7, <1>8, <1>10, <1>11, <1>12 DEF BeingSent
<1>17. AllSent'
  BY <1>7, <1>8, <1>10, <1>11, <1>12 DEF AllSent
<1>18. QED
  BY <1>7, <1>13, <1>14, <1>15, <1>16, <1>17, WholeGoesOn DEF OutputInOrder

\* The next part is with the client.
LEMMA SendAnswers ==
    ASSUME Shaped, Whole, ~client.left, Send, auth' = auth
    PROVE  Whole'
<1>1. /\ server.pc = "send" /\ req' = req /\ script' = script /\ pout' = pout
      /\ server' = [server EXCEPT !.out = Tail(@),
                       !.pc = IF Len(server.out) = 1 THEN server.then ELSE @]
      /\ client' = [client EXCEPT !.got = Append(@, Head(server.out))]
  BY DEF Send, ServerAt, pipes
<1>2. /\ server'.hop = server.hop /\ server'.read = server.read /\ server'.held = server.held
      /\ server'.out = Tail(server.out) /\ server'.redirect = server.redirect
      /\ server'.then = server.then /\ server'.direct = server.direct
      /\ server'.pc = IF Len(server.out) = 1 THEN server.then ELSE "send"
      /\ client'.got = Append(client.got, Head(server.out)) /\ client'.told = client.told
      /\ server'.sized = server.sized
  BY <1>1 DEF Shaped
<1>0. Announced' = Announced
  BY <1>2, ToldSame
<1>3. AnswerDue /\ OutputInOrder /\ Passed /\ ScriptAsPlanned /\ BeingSent
  BY DEF Whole, OutputInOrder
<1>4. /\ server.out # <<>> /\ ~server.redirect
      /\ server.then = "load" =>
            /\ ScriptPlan.header = "type" /\ Announced /\ server.direct
            /\ server.held = <<>> /\ server.read = <<>>
            /\ client.got \o server.out \o pout = Blocks(server.hop, script.wrote)
      /\ server.then = "wait" =>
            client.got \o server.out = Expected /\ (Announced \/ client.told = Len(Expected))
  BY <1>1, <1>3, Zenon DEF BeingSent
<1>5. /\ server.read \in Seq(Part) /\ server.held \in Seq(Part) /\ pout \in Seq(Part)
      /\ client.got \in Seq(Part) /\ server.out \in Seq(Part) /\ client.told \in Nat
  BY <1>1, <1>3 DEF Passed
<1>6. PICK g \in Seq(Part), b \in Seq(Part), p \in Seq(Part) :
          g = client.got /\ b = server.out /\ p = pout
  BY <1>5
<1>7. /\ Append(g, Head(b)) \in Seq(Part) /\ Tail(b) \in Seq(Part)
      /\ Append(g, Head(b)) \o Tail(b) = g \o b
      /\ Len(b) = 1 => Append(g, Head(b)) = g \o b
      /\ Len(b) # 1 => Tail(b) # <<>>
  <2>1. b # <<>>
    BY <1>4, <1>6
  <2>2. QED
    BY <2>1, Passing, Zenon
<1>8. server'.pc \in {"load", "wait", "send"} /\ server.then \in {"load", "wait"}
  BY <1>2 DEF Shaped
<1>9. Onward
  BY <1>1, <1>2 DEF Onward
<1>10. ScriptPlan' = ScriptPlan /\ Expected' = Expected
  BY <1>9, OnwardSame
<1>11. AnswerDue'
  BY <1>1, <1>3, <1>8, <1>9, DecidedStays DEF Calling, Read
<1>12. Passed'
  BY <1>1, <1>2, <1>5, <1>6, <1>7 DEF Passed
<1>13. ScriptAsPlanned'
  BY <1>1, <1>2, <1>3, <1>8, <1>10 DEF ScriptAsPlanned, Partly, Read, Running
<1>14. CASE server.then = "load"
  <2>1. g \o b \o p = Blocks(server.hop, script.wrote)
    BY <1>4, <1>6, <1>14, Zenon
  <2>2. CASE server'.pc = "load"
    <3>1. Len(b) = 1
      BY <1>2, <1>6, <2>2
    <3>2. Append(g, Head(b)) \o <<>> \o <<>> \o p = Append(g, Head(b)) \o p
      <4>1. Append(g, Head(b)) \o <<>> = Append(g, Head(b))
        BY <1>7, Joined
      <4>2. QED
        BY <4>1
    <3>3. client'.got \o server'.held \o server'.read \o pout'
              = Blocks(server'.hop, script'.wrote)
      BY <1>1, <1>2, <1>4, <1>6, <1>7, <1>14, <2>1, <3>1, <3>2, Zenon
    <3>4. BeingRead'
      BY <1>0, <1>2, <1>4, <1>10, <1>14, <2>2, <3>3, Zenon DEF BeingRead
    <3>5. BeingSent' /\ AllSent'
      BY <2>2 DEF BeingSent, AllSent
    <3>6. QED
      BY <1>11, <1>12, <1>13, <2>2, <3>4, <3>5, WholeGoesOn DEF OutputInOrder
  <2>3. CASE server'.pc = "send"
    <3>1. Len(b) # 1
      BY <1>2, <1>6, <1>14, <2>3
    <3>2. client'.got \o server'.out \o pout' = Blocks(server'.hop, script'.wrote)
      BY <1>1, <1>2, <1>6, <1>7, <2>1, Zenon
    <3>3. BeingSent'
      BY <1>0, <1>2, <1>4, <1>6, <1>7, <1>10, <1>14, <3>1, <3>2, Zenon DEF BeingSent
    <3>4. BeingRead' /\ AllSent'
      BY <2>3 DEF BeingRead, AllSent, Read
    <3>5. QED
      BY <1>11, <1>12, <1>13, <2>3, <3>3, <3>4, WholeGoesOn DEF OutputInOrder
  <2>4. QED
    BY <1>2, <1>14, <2>2, <2>3
<1>15. CASE server.then = "wait"
  <2>1. g \o b = Expected
    BY <1>4, <1>6, <1>15, Zenon
  <2>2. CASE server'.pc = "wait"
    <3>1. Len(b) = 1
      BY <1>2, <1>6, <2>2
    <3>2. client'.got = Expected
      BY <1>2, <1>6, <1>7, <2>1, <3>1
    <3>3. AllSent'
      BY <1>0, <1>2, <1>4, <1>10, <1>15, <3>2, Zenon DEF AllSent
    <3>4. BeingRead' /\ BeingSent'
      BY <2>2 DEF BeingRead, BeingSent, Read
    <3>5. QED
      BY <1>11, <1>12, <1>13, <2>2, <3>3, <3>4, WholeGoesOn DEF OutputInOrder
  <2>3. CASE server'.pc = "send"
    <3>1. Len(b) # 1
      BY <1>2, <1>6, <1>15, <2>3
    <3>2. client'.got \o server'.out = Expected
      BY <1>2, <1>6, <1>7, <2>1, Zenon
    <3>3. BeingSent'
      BY <1>0, <1>2, <1>4, <1>6, <1>7, <1>10, <1>15, <3>1, <3>2, Zenon DEF BeingSent
    <3>4. BeingRead' /\ AllSent'
      BY <2>3 DEF BeingRead, AllSent, Read
    <3>5. QED
      BY <1>11, <1>12, <1>13, <2>3, <3>3, <3>4, WholeGoesOn DEF OutputInOrder
  <2>4. QED
    BY <1>2, <1>15, <2>2, <2>3
<1>16. QED
  BY <1>8, <1>14, <1>15

\* The process goes on to its end without saying anything.
LEMMA RestAnswers ==
    ASSUME Shaped, Whole, Wait \/ PidOff \/ Quit \/ KillScript, auth' = auth
    PROVE  Whole'
<1>1. /\ req' = req /\ pout' = pout /\ client' = client
      /\ \/ server.pc \in {"wait", "off"} /\ server'.pc \in {"off", "alarm"}
         \/ server.pc \in {"pipe", "quit", "term"} /\ server'.pc \in {"quit", "left", "stopped"}
      /\ \E w : server' = [server EXCEPT !.pc = w]
  BY DEF Wait, PidOff, Quit, KillScript, ServerAt, ServerGoes, pipes, Shaped
<1>2. /\ server'.hop = server.hop /\ server'.read = server.read /\ server'.held = server.held
      /\ server'.out = server.out /\ server'.direct = server.direct
      /\ server'.redirect = server.redirect /\ server'.then = server.then
      /\ server'.sized = server.sized
  BY <1>1 DEF Shaped
<1>0. Announced' = Announced
  BY <1>1, <1>2, ToldSame
<1>3. Onward
  BY <1>1, <1>2 DEF Onward
<1>4. AnswerDue /\ OutputInOrder /\ Passed /\ AllSent
  BY DEF Whole, OutputInOrder
<1>5. Passed'
  BY <1>1, <1>2, <1>4 DEF Passed, Read
<1>6. ScriptAsPlanned' /\ BeingRead' /\ BeingSent'
  BY <1>1, Zenon DEF ScriptAsPlanned, BeingRead, BeingSent, Partly, Read
<1>7. AllSent'
  <2>1. Expected' = Expected /\ ScriptPlan' = ScriptPlan
    BY <1>3, OnwardSame
  <2>2. QED
    BY <1>0, <1>1, <1>2, <1>4, <2>1 DEF AllSent
<1>8. AnswerDue'
  <2>1. CASE server.pc \in {"wait", "off"} /\ server'.pc \in {"off", "alarm"}
    BY <1>3, <1>4, <2>1, DecidedStays DEF Calling, Read
  <2>2. CASE server'.pc \in {"quit", "left", "stopped"}
    BY <1>3, <1>4, <2>2, OnwardSame DEF AnswerDue, Calling, Read, Onward
  <2>3. QED
    BY <1>1, <2>1, <2>2
<1>9. QED
  BY <1>1, <1>5, <1>6, <1>7, <1>8, WholeGoesOn DEF OutputInOrder

\* What comes after the script.
LEMMA OffAnswers ==
    ASSUME Shaped, Whole, AlarmOff, ~client'.left, auth' = auth
    PROVE  Whole'
<1>1. /\ server.pc = "alarm" /\ req' = req /\ pout' = pout
      /\ \/ ~server.redirect /\ server' = [server EXCEPT !.pc = "ended"] /\ client' = client
         \/ server.redirect /\ server' = [server EXCEPT !.pc = "ended"] /\ Tell("error")
         \/ /\ server.redirect /\ server' = [server EXCEPT !.pc = "check", !.hop = @ + 1]
            /\ client' = client
  BY DEF AlarmOff, ServerAt, ServerGoes, pipes
<1>2. /\ server'.read = server.read /\ server'.held = server.held /\ server'.out = server.out
      /\ server'.sized = server.sized
      /\ \/ ~server.redirect /\ server'.pc = "ended" /\ server'.hop = server.hop
            /\ client' = client
         \/ server.redirect /\ server'.pc = "ended" /\ server'.hop = server.hop /\ Tell("error")
         \/ server.redirect /\ server'.pc = "check" /\ client' = client
  BY <1>1, Zenon DEF Shaped
<1>3. AnswerDue /\ OutputInOrder /\ Passed /\ AllSent
  BY DEF Whole, OutputInOrder
<1>4. Allowed /\ Task = "script" /\ Wrong = <<>>
  BY <1>1, <1>3 DEF AnswerDue, Calling, Allowed
<1>5. Wrong' = <<>>
  BY <1>1, <1>4, Zenon DEF Wrong, Site
<1>6. /\ server.redirect => /\ client.got = <<>> /\ client.told = 0
                            /\ ScriptPlan.header = "local" /\ Expected # <<>>
      /\ ~server.redirect => client.got = Expected /\ ToldOf(Expected)
  BY <1>1, <1>3 DEF AllSent, ToldOf
<1>7. CASE ~server.redirect
  <2>1. server'.pc = "ended" /\ client' = client /\ Onward
    BY <1>1, <1>2, <1>7 DEF Onward
  <2>2. OutputInOrder'
    BY <1>1, <1>2, <1>3, <2>1, OutputRests
  <2>3. AnswerDue'
    BY <1>5, <2>1 DEF AnswerDue, Calling, Read
  <2>4. client'.got = Expected' /\ ToldOf(client.got)'
    <3>1. client'.got = Expected' /\ client.got = Expected /\ ToldOf(client.got)
      BY <1>6, <1>7, <2>1, OnwardSame
    <3>2. QED
      BY <1>2, <2>1, <3>1, ToldSame DEF ToldOf
  <2>5. Allowed' /\ Task' = "script"
    BY <1>4, <2>1, OnwardSame
  <2>6. QED
    BY <2>2, <2>3, <2>4, <2>5, WholeIf DEF Whole
<1>8. CASE server.redirect /\ server'.pc = "ended"
  <2>1. Tell("error") /\ Onward
    BY <1>1, <1>2, <1>8 DEF Onward
  <2>2. client'.told = client.told /\ client'.got = <<"error">>
    BY <1>6, <1>8, <2>1, Told
  <2>3. OutputInOrder'
    BY <1>1, <1>2, <1>3, <1>8, <2>2, OutputRests
  <2>4. AnswerDue'
    BY <1>5, <1>8 DEF AnswerDue, Calling, Read
  <2>5. Expected = <<"error">>
    BY <1>6, <1>8, ExpectedIs
  <2>6. client'.got = Expected' /\ ToldOf(client.got)'
    <3>1. client'.got = Expected' /\ client'.told = 0
      BY <1>6, <1>8, <2>1, <2>2, <2>5, OnwardSame
    <3>2. QED
      BY <3>1 DEF ToldOf, Announced
  <2>7. Allowed' /\ Task' = "script"
    BY <1>4, <2>1, OnwardSame
  <2>8. QED
    BY <2>3, <2>4, <2>6, <2>7, WholeIf DEF Whole
<1>9. CASE server.redirect /\ server'.pc = "check"
  <2>1. client' = client
    BY <1>2, <1>9
  <2>2. OutputInOrder'
    BY <1>1, <1>2, <1>3, <1>9, <2>1, OutputRests
  <2>3. AnswerDue'
    BY <1>5, <1>6, <1>9, <2>1 DEF AnswerDue, Calling, Read
  <2>4. QED
    BY <1>9, <2>2, <2>3, WholeGoesOn
<1>10. QED
  BY <1>2, <1>7, <1>8, <1>9

\* The alarm, and steps of others that touch neither the process nor what it reads.
LEMMA AsideAnswers ==
    ASSUME Shaped, Whole,
           Alarm \/ (ChildEnds /\ UNCHANGED <<auth, listing>>) \/ UNCHANGED all
    PROVE  Whole'
<1>1. /\ req' = req /\ auth' = auth /\ client' = client /\ pout' = pout
      /\ \/ server' = server /\ (script' = script \/ script' = [script EXCEPT !.child = FALSE])
         \/ \E w \in {"term", "stopped"} : server' = [server EXCEPT !.pc = w]
  BY DEF Alarm, OutputTimedOut, TermScript, TermAll, ChildEnds, ServerAt, ServerGoes, pipes,
         scriptVars, all
<1>2. AnswerDue /\ OutputInOrder /\ Passed /\ AnswerIsWhole
  BY DEF Whole, OutputInOrder
<1>3. CASE server' = server /\ (script' = script \/ script' = [script EXCEPT !.child = FALSE])
  <2>1. script'.at = script.at /\ script'.wrote = script.wrote /\ script'.state = script.state
    BY <1>3 DEF Shaped
  <2>2. Onward
    BY <1>1, <1>3 DEF Onward
  <2>3. OutputInOrder'
    BY <1>1, <1>2, <1>3, <2>1, <2>2, OutputStays
  <2>4. AnswerDue' /\ AnswerIsWhole'
    <3>1. Announced' = Announced
      BY <1>1, <1>3, ToldSame
    <3>2. QED
      BY <1>1, <1>2, <1>3, <2>2, <3>1, OnwardSame DEF AnswerDue, AnswerIsWhole
  <2>5. QED
    BY <2>3, <2>4 DEF Whole
<1>4. CASE \E w \in {"term", "stopped"} : server' = [server EXCEPT !.pc = w]
  <2>1. /\ server'.pc \in {"term", "stopped"} /\ server'.hop = server.hop
        /\ server'.read = server.read /\ server'.held = server.held /\ server'.out = server.out
    BY <1>4 DEF Shaped
  <2>2. Onward
    BY <1>1, <2>1 DEF Onward
  <2>3. Passed'
    BY <1>1, <1>2, <2>1 DEF Passed, Read
  <2>4. ScriptAsPlanned' /\ BeingRead' /\ BeingSent' /\ AllSent'
    BY <2>1, Zenon DEF ScriptAsPlanned, BeingRead, BeingSent, AllSent, Partly, Read
  <2>5. AnswerDue'
    BY <1>2, <2>1, <2>2, OnwardSame DEF AnswerDue, Calling, Read, Onward
  <2>6. QED
    BY <2>1, <2>3, <2>4, <2>5, WholeGoesOn DEF OutputInOrder
<1>5. QED
  BY <1>1, <1>3, <1>4

\* The script goes on: what it writes comes after all that it has written.
LEMMA ScriptAnswers ==
    ASSUME Shaped, ScriptAttended, Whole, ScriptStep, auth' = auth
    PROVE  Whole'
<1> DEFINE ops == ScriptPlan.ops
           W == Blocks(server.hop, script.wrote)
<1>1. Running /\ req' = req /\ client' = client /\ server' = server
  BY DEF ScriptStep, ReadIn, ReadAll, WriteOut, Fork, Exit, Step
<1>2. AnswerDue /\ OutputInOrder /\ AnswerIsWhole /\ Passed /\ ScriptAsPlanned /\ BeingRead
      /\ BeingSent /\ AllSent
  BY DEF Whole, OutputInOrder
<1>3. Onward
  BY <1>1 DEF Onward
<1>4. /\ ScriptPlan' = ScriptPlan /\ Expected' = Expected /\ Wrong' = Wrong
      /\ Task' = Task /\ Allowed' = Allowed /\ MayList' = MayList
  BY <1>3, OnwardSame
<1>0. Announced' = Announced
  BY <1>1, ToldSame
<1>5. AnswerDue' /\ AnswerIsWhole' /\ AllSent'
  BY <1>0, <1>1, <1>2, <1>4 DEF AnswerDue, AnswerIsWhole, AllSent
<1>6. Len(ops) \in Nat /\ server.hop \in Nat /\ script.wrote \in Nat
  BY Plans DEF Shaped
<1>7. \/ /\ script'.wrote = script.wrote /\ pout' = pout
         /\ \/ script'.at = script.at /\ script'.state = script.state
            \/ /\ script'.at = script.at + 1 /\ script'.state = script.state
               /\ script.at <= Len(ops) /\ ops[script.at] # "out"
            \/ /\ script'.at = script.at /\ script'.state = "gone"
               /\ script.at > Len(ops) \/ script.termed
      \/ /\ script'.wrote = script.wrote + 1
         /\ pout' = Append(pout, <<server.hop, script.wrote + 1>>)
         /\ script'.at = script.at + 1 /\ script'.state = script.state
         /\ script.at <= Len(ops) /\ ops[script.at] = "out"
  <2>1. CASE ReadIn \/ Fork
    BY <2>1, Zenon DEF ReadIn, Fork, Step, Advance, pipes, Shaped
  <2>2. CASE ReadAll
    BY <2>2 DEF ReadAll, Step, Advance, Shaped
  <2>3. CASE WriteOut
    BY <2>3 DEF WriteOut, Step, Shaped
  <2>4. CASE Exit
    BY <2>4 DEF Exit, pipes, Shaped
  <2>5. QED
    BY <2>1, <2>2, <2>3, <2>4 DEF ScriptStep
<1>8. /\ W \in Seq(Part)
      /\ Append(W, <<server.hop, script.wrote + 1>>) = Blocks(server.hop, script.wrote + 1)
      /\ <<server.hop, script.wrote + 1>> \in Part
  BY <1>6, BlocksAre, Zenon
<1>9. PICK x \in Part : x = <<server.hop, script.wrote + 1>>
  BY <1>8
<1>10. /\ server.read \in Seq(Part) /\ server.held \in Seq(Part) /\ pout \in Seq(Part)
       /\ server.out \in Seq(Part)
  BY <1>2 DEF Passed
<1>11. Passed'
  <2>1. pout' = pout \/ pout' = Append(pout, x)
    BY <1>7, <1>9
  <2>2. PICK p \in Seq(Part) : p = pout
    BY <1>10
  <2>3. Append(p, x) \in Seq(Part)
    OBVIOUS
  <2>4. pout' \in Seq(Part)
    BY <2>1, <2>2, <2>3
  <2>5. QED
    BY <1>1, <1>2, <2>4 DEF Passed
<1>12. CASE server.pc \notin Read /\ ~Partly
  <2>1. server'.pc \notin Read /\ ~Partly'
    BY <1>1, <1>12 DEF Partly
  <2>2. ScriptAsPlanned' /\ BeingRead'
    BY <2>1, Zenon DEF ScriptAsPlanned, BeingRead
  <2>3. BeingSent'
    BY <1>0, <1>1, <1>2, <1>4, <1>12, Zenon DEF BeingSent, Partly
  <2>4. QED
    BY <1>5, <1>11, <2>2, <2>3 DEF Whole, OutputInOrder
<1>13. CASE server.pc \in Read \/ Partly
  <2>1. /\ script.at \in 1 .. Len(ops) + 1
        /\ script.wrote = Count(ops, "out", script.at - 1)
    BY <1>2, <1>13 DEF ScriptAsPlanned
  <2>2. ~script.termed
    BY <1>13 DEF ScriptAttended, Partly, Read
  <2>3. client.got \in Seq(Part)
    BY <1>2, <1>13 DEF Passed, Partly
  <2>4. PICK k \in Nat : script.at = k + 1 /\ k <= Len(ops)
    <3>1. script.at - 1 \in Nat /\ script.at = (script.at - 1) + 1 /\ script.at - 1 <= Len(ops)
      BY <1>6, <2>1
    <3>2. QED
      BY <3>1
  <2>5. script.wrote = Count(ops, "out", k)
    <3>1. script.at - 1 = k
      BY <2>4
    <3>2. QED
      BY <2>1, <3>1
  <2>6. ScriptAsPlanned'
    <3> DEFINE C(n) == Count(ops, "out", n)
    <3>1. /\ ops[k + 1] = "out" => C(k + 1) = C(k) + 1
          /\ ops[k + 1] # "out" => C(k + 1) = C(k)
      BY CountNext
    <3>2. script'.at = k + 1 \/ (script'.at = k + 2 /\ k + 1 <= Len(ops))
      BY <1>7, <2>4
    <3>3. script'.at \in 1 .. Len(ops) + 1
      BY <1>6, <2>4, <3>2
    <3>4. script'.at = k + 1 => script'.wrote = C(k)
      BY <1>7, <2>4, <2>5
    <3>5. script'.at = k + 2 => script'.wrote = C(k + 1)
      BY <1>7, <2>4, <2>5, <3>1
    <3>6. script'.wrote = C(script'.at - 1)
      <4> HIDE DEF C
      <4>1. (k + 1) - 1 = k /\ (k + 2) - 1 = k + 1
        OBVIOUS
      <4>2. QED
        BY <3>2, <3>4, <3>5, <4>1
    <3>7. ~Running' => script'.at = Len(ops) + 1
      BY <1>1, <1>6, <1>7, <2>2, <2>4 DEF Running
    <3>8. QED
      BY <1>4, <3>3, <3>6, <3>7 DEF ScriptAsPlanned
  <2>7. CASE pout' = pout /\ script'.wrote = script.wrote
    <3>1. BeingRead' /\ BeingSent'
      BY <1>0, <1>1, <1>2, <1>4, <2>7, Zenon DEF BeingRead, BeingSent
    <3>2. QED
      BY <1>5, <1>11, <2>6, <3>1 DEF Whole, OutputInOrder
  <2>8. CASE pout' = Append(pout, x) /\ script'.wrote = script.wrote + 1
    <3>1. PICK g \in Seq(Part), h \in Seq(Part), r \in Seq(Part), o \in Seq(Part),
                  p \in Seq(Part) :
              /\ g = client.got /\ h = server.held /\ r = server.read /\ o = server.out
              /\ p = pout
      BY <1>10, <2>3
    <3>2. g \o h \o r \o Append(p, x) = Append(g \o h \o r \o p, x)
      <4>1. g \o h \in Seq(Part)
        OBVIOUS
      <4>2. g \o h \o r \in Seq(Part)
        BY <4>1
      <4>3. QED
        BY <4>2, Lengthened
    <3>3. r \o Append(p, x) = Append(r \o p, x)
      BY Lengthened
    <3>4. g \o o \o Append(p, x) = Append(g \o o \o p, x)
      <4>1. g \o o \in Seq(Part)
        OBVIOUS
      <4>2. QED
        BY <4>1, Lengthened
    <3>5. Append(W, x) = Blocks(server'.hop, script'.wrote)
      BY <1>1, <1>8, <1>9, <2>8
    <3>6. BeingRead'
      <4>1. ASSUME server.pc \in Read
            PROVE  /\ ScriptPlan.header = "type" => g \o h \o r \o p = W
                   /\ ScriptPlan.header \in {"local", "remote"} => r \o p = W
        BY <1>2, <3>1, <4>1, Zenon DEF BeingRead
      <4>2. ASSUME server.pc \in Read
            PROVE  /\ ScriptPlan.header = "type" =>
                        g \o h \o r \o Append(p, x) = Blocks(server'.hop, script'.wrote)
                   /\ ScriptPlan.header \in {"local", "remote"} =>
                        r \o Append(p, x) = Blocks(server'.hop, script'.wrote)
        BY <3>2, <3>3, <3>5, <4>1, <4>2, Zenon
      <4>3. QED
        BY <1>0, <1>1, <1>2, <1>4, <2>8, <3>1, <4>2, Zenon DEF BeingRead
    <3>7. BeingSent'
      <4>1. ASSUME Partly
            PROVE  g \o o \o p = W
        BY <1>2, <3>1, <4>1, Zenon DEF BeingSent, Partly
      <4>2. ASSUME Partly
            PROVE  g \o o \o Append(p, x) = Blocks(server'.hop, script'.wrote)
        BY <3>4, <3>5, <4>1, <4>2, Zenon
      <4>3. QED
        BY <1>0, <1>1, <1>2, <1>4, <2>8, <3>1, <4>2, Zenon DEF BeingSent, Partly
    <3>8. QED
      BY <1>5, <1>11, <2>6, <3>6, <3>7 DEF Whole, OutputInOrder
  <2>9. QED
    BY <1>7, <1>9, <2>7, <2>8
<1>14. QED
  BY <1>12, <1>13

\* Who has left does not come back.
LEMMA StaysLeft ==
    ASSUME Shaped, HandleNext, ~HandleStep, ~client'.left
    PROVE  ~client.left
<1>1. CASE ServerStep
  <2>1. CASE Feed
    BY <2>1 DEF Feed, GetBlock, WriteBlock, WriteNewline, Shaped
  <2>2. CASE LoadBlock
    BY <2>2, BlockRead, BlockPut, Plans
  <2>5. CASE LoadEnd \/ Call \/ ReadOut
    BY <2>5 DEF LoadEnd, Call, ReadOut, Shaped
  <2>3. CASE Send \/ AlarmOff
    BY <2>3 DEF Send, AlarmOff, Tell, Shaped
  <2>4. CASE Wait \/ PidOff \/ Quit \/ KillScript
    BY <2>4 DEF Wait, PidOff, Quit, KillScript
  <2>6. QED
    BY <1>1, <2>1, <2>2, <2>3, <2>4, <2>5 DEF ServerStep
<1>2. CASE Alarm \/ Others
  BY <1>2 DEF Alarm, Others, OutputTimedOut, TermScript, TermAll, ScriptStep, ReadIn, ReadAll,
              WriteOut, Fork, Exit, Step, ChildEnds, ClientLeaves, Shaped
<1>3. QED
  BY <1>1, <1>2 DEF HandleNext, Process

\* Every step keeps it, as long as the client is there.
LEMMA AnswerKept ==
    ASSUME AnswerInv, [HandleNext]_all
    PROVE  AnswerInv'
<1>1. Shaped /\ ScriptAttended /\ (client.left \/ Whole)
  BY DEF AnswerInv, Whole
<1>2. CASE UNCHANGED all
  <2>1. Shaped' /\ ScriptAttended'
    BY <1>1, <1>2 DEF Shaped, ScriptAttended, Running, all, scriptVars
  <2>2. client'.left = client.left
    BY <1>2 DEF all, scriptVars
  <2>3. client'.left \/ Whole'
    BY <1>1, <1>2, <2>2, AsideAnswers
  <2>4. QED
    BY <2>1, <2>3 DEF AnswerInv, Whole
<1>3. CASE HandleNext
  <2>1. Shaped' /\ ScriptAttended'
    BY <1>1, <1>3, ShapeKept, AttendedKept
  <2>2. ASSUME ~client'.left
        PROVE  Whole'
    <3>1. CASE HandleStep
      BY <1>1, <2>2, <3>1, HandleAnswers
    <3>2. CASE ~HandleStep
      <4>1. ~client.left
        BY <1>1, <1>3, <2>2, <3>2, StaysLeft
      <4>2. CASE ServerStep /\ UNCHANGED <<auth, listing>>
        BY <1>1, <2>2, <4>1, <4>2, CallAnswers, FeedAnswers, ReadAnswers, BlockAnswers,
           EndAnswers, SendAnswers, RestAnswers, OffAnswers DEF ServerStep
      <4>3. CASE Alarm \/ (ChildEnds /\ UNCHANGED <<auth, listing>>)
        BY <1>1, <4>1, <4>3, AsideAnswers
      <4>4. CASE ScriptStep /\ UNCHANGED <<auth, listing>>
        BY <1>1, <4>1, <4>4, ScriptAnswers
      <4>5. CASE ClientLeaves
        BY <1>1, <2>2, <4>5 DEF ClientLeaves, Shaped
      <4>6. QED
        BY <1>3, <3>2, <4>2, <4>3, <4>4, <4>5 DEF HandleNext, Process, Others
    <3>3. QED
      BY <3>1, <3>2
  <2>3. QED
    BY <2>1, <2>2 DEF AnswerInv, Whole
<1>4. QED
  BY <1>2, <1>3

\* What AnswerInv says of a request holds all the time.
THEOREM AnswerInvariance == HandleSpec => []AnswerInv
<1>1. HandleInit => AnswerInv
  BY AnswerInit, ScriptAssumption
<1>2. AnswerInv /\ [HandleNext]_all => AnswerInv'
  BY AnswerKept
<1>3. QED
  BY <1>1, <1>2, PTL DEF HandleSpec

\* When a request is over and its client was there to the end, its script is gone, whatever
\* it did (HTCallScript, script_timed_out).
THEOREM GoneTheorem == HandleSpec => []ScriptIsGone
<1>1. AnswerInv => ScriptIsGone
  BY DEF AnswerInv, ScriptAttended, ScriptIsGone, Quiet
<1>2. QED
  BY <1>1, AnswerInvariance, PTL

\* The client has the whole output of the script, once and in order, and of the length it was
\* told, unless that was the length of a document (HTScriptWrapper, HTRequest.c:824-833); or
\* one item, with a second one after an error without a status (HTHandle, HTDaemon.c:1985-2029).
THEOREM AnswerTheorem == HandleSpec => []AnswerIsWhole
<1>1. AnswerInv => AnswerIsWhole
  BY DEF AnswerInv, AnswerIsWhole
<1>2. QED
  BY <1>1, AnswerInvariance, PTL

---------------------------------------------------------------------------
(***************************************************************************)
(* Rules.  A path is translated to the same whatever protections earlier   *)
(* paths have left, and the check of it differs only in the protection.    *)
(* A translation is a fold, whose result is unique: by induction over the  *)
(* sets of the rules that have been applied.                               *)
(***************************************************************************)
\* One rule, when a path is translated or, if dry, the rest of a script's path.
RuleStep(dry, conf, path, s, r) ==
    IF dry THEN MapDry(conf, path, s, r) ELSE Apply(conf, path, s, r)

\* What the rules at the places in S make of s, one after the other.
ByRules(dry, conf, path, s, f) ==
    [S \in SUBSET DOMAIN conf.rules |->
        IF S = {} THEN s
        ELSE RuleStep(dry, conf, path, f[S \ {Max(S)}], conf.rules[Max(S)])]

\* The greatest of some places in a list.
LEMMA MaxIn ==
    ASSUME NEW L, NEW s \in Seq(L)
    PROVE  /\ IsFiniteSet(DOMAIN s) /\ Chooses(Latest(s), DOMAIN s)
           /\ \A S \in SUBSET DOMAIN s : Latest(s)[S] = Max(S)
           /\ \A S \in SUBSET DOMAIN s : S # {} => Max(S) \in S
<1>1. IsFiniteSet(DOMAIN s) /\ Chooses(Latest(s), DOMAIN s)
  BY LatestIs
<1>2. ASSUME NEW S \in SUBSET DOMAIN s
      PROVE  Latest(s)[S] = Max(S)
  BY Zenon DEF Latest, Max
<1>3. \A S \in SUBSET DOMAIN s : S # {} => Max(S) \in S
  BY <1>1, <1>2 DEF Chooses
<1>4. QED
  BY <1>1, <1>2, <1>3

\* There is a result, whatever the rules are.
LEMMA RulesHaveEnd ==
    ASSUME NEW dry \in BOOLEAN, NEW conf, NEW L, conf.rules \in Seq(L), NEW path, NEW s
    PROVE  \E f : f = ByRules(dry, conf, path, s, f)
<1> DEFINE D == DOMAIN conf.rules
           op(t, k) == RuleStep(dry, conf, path, t, conf.rules[k])
           Right(f, S) == f[S] = IF S = {} THEN s ELSE op(f[S \ {Max(S)}], Max(S))
           Upto(f, n) == \A S \in SUBSET D : Cardinality(S) <= n => Right(f, S)
           N == {n \in Nat : \E f : Upto(f, n)}
<1>1. /\ IsFiniteSet(D)
      /\ \A S \in SUBSET D : S # {} => Max(S) \in S
      /\ \A S \in SUBSET D : IsFiniteSet(S) /\ Cardinality(S) \in Nat
  <2>1. IsFiniteSet(D) /\ \A S \in SUBSET D : S # {} => Max(S) \in S
    BY MaxIn
  <2>2. QED
    BY <2>1, FS_Subset, FS_CardinalityType
<1> HIDE DEF D, op
<1>2. 0 \in N
  <2> DEFINE f == [S \in SUBSET D |-> s]
  <2>1. ASSUME NEW S \in SUBSET D, Cardinality(S) <= 0
        PROVE  S = {}
    BY <1>1, <2>1, FS_EmptySet
  <2>2. Upto(f, 0)
    BY <2>1
  <2> HIDE DEF f, Upto
  <2>3. QED
    BY <2>2
<1>3. ASSUME NEW n \in Nat, n \in N
      PROVE  n + 1 \in N
  <2>1. PICK f : Upto(f, n)
    BY <1>3, Zenon
  <2> DEFINE Value(S) == IF S = {} THEN s ELSE op(f[S \ {Max(S)}], Max(S))
             g == [S \in SUBSET D |-> Value(S)]
  <2>2. ASSUME NEW S \in SUBSET D, Cardinality(S) <= n + 1
        PROVE  Right(g, S)
    <3>1. CASE S = {}
      BY <3>1
    <3>2. CASE S # {}
      <4> DEFINE R == S \ {Max(S)}
      <4>1. Max(S) \in S /\ R \in SUBSET D
        BY <1>1, <3>2
      <4>2. Cardinality(R) = Cardinality(S) - 1
        BY <1>1, <4>1, FS_RemoveElement
      <4>3. Cardinality(R) <= n
        BY <1>1, <2>2, <4>2
      <4>4. f[R] = Value(R)
        BY <2>1, <4>1, <4>3, Zenon
      <4>5. g[R] = f[R]
        BY <4>1, <4>4
      <4>6. g[S] = op(f[R], Max(S))
        BY <3>2
      <4> HIDE DEF g, R
      <4>7. g[S] = op(g[R], Max(S))
        BY <4>5, <4>6
      <4>8. QED
        BY <3>2, <4>7 DEF R
    <3>3. QED
      BY <3>1, <3>2
  <2>3. Upto(g, n + 1)
    BY <2>2, Zenon
  <2> HIDE DEF g, Upto
  <2>4. QED
    BY <2>3
<1>4. Cardinality(D) \in N
  <2> HIDE DEF N
  <2>1. Nat \subseteq N
    BY <1>2, <1>3, SetInduction
  <2>2. QED
    BY <1>1, <2>1
<1>5. PICK f : Upto(f, Cardinality(D))
  BY <1>4, Zenon
<1>6. \A S \in SUBSET D : Cardinality(S) <= Cardinality(D)
  BY <1>1, FS_Subset
<1>7. \A S \in SUBSET D : Right(f, S)
  BY <1>5, <1>6, Zenon
<1> DEFINE h == [S \in SUBSET D |-> f[S]]
<1>8. ASSUME NEW S \in SUBSET D
      PROVE  Right(h, S)
  <2>1. h[S] = f[S] /\ h[S \ {Max(S)}] = f[S \ {Max(S)}]
    OBVIOUS
  <2> HIDE DEF h
  <2>2. QED
    BY <1>7, <2>1, Zenon
<1>9. h = ByRules(dry, conf, path, s, h)
  BY <1>8, Zenon DEF ByRules, op, D
<1>10. QED
  BY <1>9

\* The results of the two folds of Rules.
ByApply(conf, path, s, f) ==
    [S \in SUBSET DOMAIN conf.rules |->
        IF S = {} THEN s ELSE Apply(conf, path, f[S \ {Max(S)}], conf.rules[Max(S)])]
ByMapDry(conf, path, s, f) ==
    [S \in SUBSET DOMAIN conf.rules |->
        IF S = {} THEN s ELSE MapDry(conf, path, f[S \ {Max(S)}], conf.rules[Max(S)])]

\* A translation is the fold of the rules, and what is left to the default.
LEMMA TranslateIs ==
    ASSUME NEW conf, NEW L, conf.rules \in Seq(L), NEW path, NEW prot, NEW defprot
    PROVE  \E f : /\ f = ByRules(FALSE, conf, path, Start(path, prot, defprot), f)
                  /\ Translate(conf, path, prot, defprot) =
                         Default(conf, path, f[DOMAIN conf.rules])
<1> DEFINE s == Start(path, prot, defprot)
<1>1. Translate(conf, path, prot, defprot) =
          Default(conf, path, (CHOOSE f : f = ByApply(conf, path, s, f))[DOMAIN conf.rules])
  BY Zenon DEF Translate, FoldLeft, MapThenFoldSet, ByApply
<1> HIDE DEF s
<1>2. \A f : ByRules(FALSE, conf, path, s, f) = ByApply(conf, path, s, f)
  BY DEF ByRules, ByApply, RuleStep
<1>3. \E f : f = ByApply(conf, path, s, f)
  <2>1. \E f : f = ByRules(FALSE, conf, path, s, f)
    BY RulesHaveEnd, Zenon
  <2>2. QED
    BY <1>2, <2>1, Zenon
<1> DEFINE f == CHOOSE f : f = ByApply(conf, path, s, f)
<1>4. f = ByApply(conf, path, s, f)
  BY <1>3
<1>5. Translate(conf, path, prot, defprot) = Default(conf, path, f[DOMAIN conf.rules])
  BY <1>1
<1> HIDE DEF f
<1>6. f = ByRules(FALSE, conf, path, s, f)
  BY <1>2, <1>4, Zenon
<1>7. QED
  BY <1>5, <1>6, Zenon DEF s

\* The same of the path behind the name of a script.
LEMMA TranslateInfoIs ==
    ASSUME NEW conf, NEW L, conf.rules \in Seq(L), NEW path, NEW t, NEW path2
    PROVE  \E f : /\ f = ByRules(TRUE, conf, path, Start(path2, t.prot, t.defprot), f)
                  /\ TranslateInfo(conf, path, t, path2) =
                         Default(conf, path, f[DOMAIN conf.rules])
<1> DEFINE s == Start(path2, t.prot, t.defprot)
<1>1. TranslateInfo(conf, path, t, path2) =
          Default(conf, path, (CHOOSE f : f = ByMapDry(conf, path, s, f))[DOMAIN conf.rules])
  BY Zenon DEF TranslateInfo, FoldLeft, MapThenFoldSet, ByMapDry
<1> HIDE DEF s
<1>2. \A f : ByRules(TRUE, conf, path, s, f) = ByMapDry(conf, path, s, f)
  BY DEF ByRules, ByMapDry, RuleStep
<1>3. \E f : f = ByMapDry(conf, path, s, f)
  <2>1. \E f : f = ByRules(TRUE, conf, path, s, f)
    BY RulesHaveEnd, Zenon
  <2>2. QED
    BY <1>2, <2>1, Zenon
<1> DEFINE f == CHOOSE f : f = ByMapDry(conf, path, s, f)
<1>4. f = ByMapDry(conf, path, s, f)
  BY <1>3
<1>5. TranslateInfo(conf, path, t, path2) = Default(conf, path, f[DOMAIN conf.rules])
  BY <1>1
<1> HIDE DEF f
<1>6. f = ByRules(TRUE, conf, path, s, f)
  BY <1>2, <1>4, Zenon
<1>7. QED
  BY <1>5, <1>6, Zenon DEF s

\* The fields of a translation.
Fields == {"done", "ok", "current", "reason", "prot", "defprot", "script", "translated", "info",
           "trans", "location"}

\* A translation fails for a reason of its own, and names protections that are there.
Sound(conf, s) ==
    /\ DOMAIN s = Fields /\ s.prot \in Prots(conf) /\ s.defprot \in Prots(conf)
    /\ s.done /\ ~s.ok => s.reason \in ByTranslation

\* Of the same path with different protections before it.
Same(s, t) ==
    /\ s.done = t.done /\ s.ok = t.ok /\ s.current = t.current /\ s.reason = t.reason
    /\ s.script = t.script /\ s.translated = t.translated /\ s.info = t.info
    /\ s.trans = t.trans /\ s.location = t.location

\* t is s, except for protections that only s knows of.
Alike(conf, s, t) ==
    /\ Sound(conf, s) /\ Sound(conf, t) /\ Same(s, t)
    /\ t.prot # NoName => s.prot = t.prot
    /\ t.defprot # NoName => s.defprot = t.defprot

\* The steps of a translation keep two of them alike, from the start to the default.
LEMMA StartAlike ==
    ASSUME NEW conf, NEW path, NEW p \in Prots(conf), NEW d \in Prots(conf),
           NEW q \in Prots(conf), NEW e \in Prots(conf),
           q # NoName => p = q, e # NoName => d = e
    PROVE  Alike(conf, Start(path, p, d), Start(path, q, e))
BY DEF Alike, Sound, Same, Start, Fields

LEMMA PassAlike ==
    ASSUME NEW conf, NEW path, NEW s, NEW t, Alike(conf, s, t)
    PROVE  Alike(conf, PassTo(conf, path, s), PassTo(conf, path, t))
<1> DEFINE to   == Unwrap(s.current)
           ends == Slashes(to) \ {1}
           user == SubSeq(to, 3, Min(ends) - 1)
           home == conf.homes[user] \o From(to, Min(ends))
           Passed1(u) == [u EXCEPT !.done = TRUE, !.ok = TRUE, !.translated = to]
           Passed2(u) == [u EXCEPT !.done = TRUE, !.ok = TRUE, !.reason = "ok_redirect",
                                   !.location = path \o <<"/">>]
           Passed3(u) == [u EXCEPT !.done = TRUE, !.ok = TRUE, !.translated = home]
           Pass(u) == IF ~conf.userDirs \/ ~IsPrefix(<<"/", "~">>, to) THEN Passed1(u)
                      ELSE IF ends = {} THEN Passed2(u)
                      ELSE IF user \in DOMAIN conf.homes THEN Passed3(u)
                      ELSE Failed(u, "invalid_user")
<1>1. s.current = t.current
  BY DEF Alike, Same
<1>2. PassTo(conf, path, s) = Pass(s) /\ PassTo(conf, path, t) = Pass(t)
  BY <1>1, Zenon DEF PassTo
<1> HIDE DEF to, ends, user, home
<1>3. /\ Alike(conf, Passed1(s), Passed1(t)) /\ Alike(conf, Passed2(s), Passed2(t))
      /\ Alike(conf, Passed3(s), Passed3(t))
      /\ Alike(conf, Failed(s, "invalid_user"), Failed(t, "invalid_user"))
  BY DEF Alike, Sound, Same, Fields, Failed, ByTranslation
<1> HIDE DEF Passed1, Passed2, Passed3
<1>4. Alike(conf, Pass(s), Pass(t))
  BY <1>3
<1>5. QED
  BY <1>2, <1>4

LEMMA FailAlike ==
    ASSUME NEW conf, NEW s, NEW t, Alike(conf, s, t)
    PROVE  Alike(conf, Fail(s), Fail(t)) /\ Alike(conf, Failed(s, "by_rule"), Failed(t, "by_rule"))
<1>1. Alike(conf, Failed(s, "by_rule"), Failed(t, "by_rule"))
  BY DEF Alike, Sound, Same, Fields, Failed, ByTranslation
<1>2. UserDir(s.current) = UserDir(t.current)
  BY DEF Alike, Same
<1>3. QED
  BY <1>1, <1>2, Zenon DEF Fail

LEMMA DefaultAlike ==
    ASSUME NEW conf, NEW path, NEW s, NEW t, Alike(conf, s, t)
    PROVE  Alike(conf, Default(conf, path, s), Default(conf, path, t))
<1>1. s.done = t.done /\ UserDir(s.current) = UserDir(t.current)
  BY DEF Alike, Same
<1>2. QED
  BY <1>1, PassAlike, FailAlike, Zenon DEF Default

LEMMA MappedAlike ==
    ASSUME NEW conf, NEW s, NEW t, Alike(conf, s, t), NEW r
    PROVE  /\ (Matches(s, r) <=> Matches(t, r)) /\ s.done = t.done
           /\ Alike(conf, MappedBy(s, r), MappedBy(t, r))
<1>1. s.current = t.current /\ s.done = t.done
  BY DEF Alike, Same
<1> DEFINE new == CHOOSE to \in Mapped(r.pat, r.eqv, s.current) : TRUE
           To(u) == [u EXCEPT !.current = new]
<1>2. MappedBy(s, r) = To(s) /\ MappedBy(t, r) = To(t)
  BY <1>1, Zenon DEF MappedBy
<1> HIDE DEF new
<1>3. Alike(conf, To(s), To(t))
  BY DEF Alike, Sound, Same, Fields
<1>4. QED
  BY <1>1, <1>2, <1>3, Zenon DEF Matches

\* Steps alike.
StepsAlike(dry, conf, path) ==
    \A r \in ToSet(conf.rules) : \A s, t :
        Alike(conf, s, t) =>
            Alike(conf, RuleStep(dry, conf, path, s, r), RuleStep(dry, conf, path, t, r))

\* All of the rules keep them alike, if each does.
LEMMA RulesAlike ==
    ASSUME NEW dry \in BOOLEAN, NEW conf, conf.rules \in Seq(ToSet(conf.rules)), NEW path,
           NEW s, NEW t, Alike(conf, s, t), StepsAlike(dry, conf, path),
           NEW f, f = ByRules(dry, conf, path, s, f),
           NEW g, g = ByRules(dry, conf, path, t, g)
    PROVE  Alike(conf, f[DOMAIN conf.rules], g[DOMAIN conf.rules])
<1> DEFINE D == DOMAIN conf.rules
           c == Latest(conf.rules)
           T == {S \in SUBSET D : Alike(conf, f[S], g[S])}
<1>1. /\ IsFiniteSet(D) /\ Chooses(c, D)
      /\ \A S \in SUBSET D : c[S] = Max(S)
      /\ \A S \in SUBSET D : S # {} => Max(S) \in S
  BY MaxIn
<1>2. {} \in T
  <2>1. f[{}] = s /\ g[{}] = t
    <3>1. ByRules(dry, conf, path, s, f)[{}] = s /\ ByRules(dry, conf, path, t, g)[{}] = t
      BY DEF ByRules
    <3>2. QED
      BY <3>1, Zenon
  <2>2. QED
    BY <2>1
<1>3. ASSUME NEW S \in SUBSET D, S # {}, S \ {c[S]} \in T
      PROVE  S \in T
  <2> DEFINE a == f[S \ {Max(S)}]
             b == g[S \ {Max(S)}]
             r == conf.rules[Max(S)]
  <2>1. Alike(conf, a, b) /\ r \in ToSet(conf.rules)
    BY <1>1, <1>3, Zenon DEF ToSet
  <2>2. /\ ByRules(dry, conf, path, s, f)[S] = RuleStep(dry, conf, path, a, r)
        /\ ByRules(dry, conf, path, t, g)[S] = RuleStep(dry, conf, path, b, r)
    BY <1>3, Zenon DEF ByRules
  <2> HIDE DEF a, b, r
  <2>3. f[S] = RuleStep(dry, conf, path, a, r) /\ g[S] = RuleStep(dry, conf, path, b, r)
    BY <2>2, Zenon
  <2>4. Alike(conf, f[S], g[S])
    BY <2>1, <2>3 DEF StepsAlike
  <2>5. QED
    BY <2>4
<1>4. SUBSET D \subseteq T
  <2> HIDE DEF c, D, T
  <2>1. PassedOn(T, c, D)
    BY <1>2, <1>3 DEF PassedOn
  <2>2. QED
    BY <1>1, <2>1, SubsetInduction
<1>5. QED
  BY <1>4

LEMMA DryStepsAlike ==
    ASSUME NEW conf, NEW path
    PROVE  StepsAlike(TRUE, conf, path)
<1> SUFFICES ASSUME NEW r \in ToSet(conf.rules), NEW s, NEW t, Alike(conf, s, t)
             PROVE  Alike(conf, RuleStep(TRUE, conf, path, s, r), RuleStep(TRUE, conf, path, t, r))
  BY Zenon DEF StepsAlike
<1> DEFINE a == MappedBy(s, r)
           b == MappedBy(t, r)
<1>1. /\ (Matches(s, r) <=> Matches(t, r)) /\ s.done = t.done
      /\ Alike(conf, a, b)
  BY MappedAlike
<1> HIDE DEF a, b
<1>2. Alike(conf, ActDry(conf, path, a, r), ActDry(conf, path, b, r))
  <2>1. CASE r.op = "pass"
    BY <1>1, <2>1, PassAlike DEF ActDry
  <2>2. CASE r.op = "fail"
    BY <1>1, <2>2, FailAlike DEF ActDry
  <2>3. CASE r.op # "pass" /\ r.op # "fail"
    <3>1. ActDry(conf, path, a, r) = a /\ ActDry(conf, path, b, r) = b
      BY <2>3 DEF ActDry
    <3>2. QED
      BY <1>1, <3>1
  <2>4. QED
    BY <2>1, <2>2, <2>3
<1>3. Alike(conf, MapDry(conf, path, s, r), MapDry(conf, path, t, r))
  BY <1>1, <1>2, Zenon DEF MapDry, a, b
<1>4. QED
  BY <1>3 DEF RuleStep

\* The path behind a script is translated to the same.
LEMMA InfoAlike ==
    ASSUME NEW conf, conf.rules \in Seq(ToSet(conf.rules)), NEW path, NEW s, NEW t,
           Alike(conf, s, t), NEW path2
    PROVE  Same(TranslateInfo(conf, path, s, path2), TranslateInfo(conf, path, t, path2))
<1>1. PICK f : /\ f = ByRules(TRUE, conf, path, Start(path2, s.prot, s.defprot), f)
               /\ TranslateInfo(conf, path, s, path2) = Default(conf, path, f[DOMAIN conf.rules])
  BY TranslateInfoIs, Zenon
<1>2. PICK g : /\ g = ByRules(TRUE, conf, path, Start(path2, t.prot, t.defprot), g)
               /\ TranslateInfo(conf, path, t, path2) = Default(conf, path, g[DOMAIN conf.rules])
  BY TranslateInfoIs, Zenon
<1>3. Alike(conf, Start(path2, s.prot, s.defprot), Start(path2, t.prot, t.defprot))
  <2>1. /\ s.prot \in Prots(conf) /\ s.defprot \in Prots(conf)
        /\ t.prot \in Prots(conf) /\ t.defprot \in Prots(conf)
        /\ t.prot # NoName => s.prot = t.prot
        /\ t.defprot # NoName => s.defprot = t.defprot
    BY DEF Alike, Sound
  <2>2. QED
    BY <2>1, StartAlike
<1>4. Alike(conf, f[DOMAIN conf.rules], g[DOMAIN conf.rules])
  BY <1>1, <1>2, <1>3, DryStepsAlike, RulesAlike, Zenon
<1>5. QED
  BY <1>1, <1>2, <1>4, DefaultAlike DEF Alike

\* A script is found in the same place.
LEMMA ExecAlike ==
    ASSUME NEW conf, conf.rules \in Seq(ToSet(conf.rules)), NEW path, NEW s, NEW t,
           Alike(conf, s, t), NEW r
    PROVE  Alike(conf, Exec(conf, path, s, r), Exec(conf, path, t, r))
<1> DEFINE at    == FirstWild(PatternOf(IF r.eqv = <<>> THEN r.pat ELSE r.eqv))
           after == {i \in Slashes(s.current) : at > 0 /\ i >= at}
           path2  == From(s.current, Min(after))
           All(u) == [u EXCEPT !.done = TRUE, !.ok = TRUE, !.script = u.current]
           Dry(u) == TranslateInfo(conf, path, u, path2)
           Up(u) == ScriptUpTo(Min(after) - 1, u, Dry(u))
<1>1. s.current = t.current
  BY DEF Alike, Same
<1>2. /\ Exec(conf, path, s, r) = IF after = {} THEN All(s) ELSE Up(s)
      /\ Exec(conf, path, t, r) = IF after = {} THEN All(t) ELSE Up(t)
  BY <1>1, Zenon DEF Exec
<1> HIDE DEF at, after, path2
<1>3. Alike(conf, All(s), All(t))
  BY DEF Alike, Sound, Same, Fields
<1>4. Same(Dry(s), Dry(t))
  BY InfoAlike
<1> HIDE DEF Dry
<1>5. Alike(conf, Up(s), Up(t))
  BY <1>1, <1>4, Zenon DEF Alike, Sound, Same, Fields, ScriptUpTo
<1> HIDE DEF All, Up
<1>6. QED
  BY <1>2, <1>3, <1>5

\* Every rule keeps two translations alike.
LEMMA StepsAreAlike ==
    ASSUME NEW conf, Configured(conf), NEW path
    PROVE  StepsAlike(FALSE, conf, path)
<1> SUFFICES ASSUME NEW r \in ToSet(conf.rules), NEW s, NEW t, Alike(conf, s, t)
             PROVE  Alike(conf, RuleStep(FALSE, conf, path, s, r),
                                RuleStep(FALSE, conf, path, t, r))
  BY Zenon DEF StepsAlike
<1> DEFINE a == MappedBy(s, r)
           b == MappedBy(t, r)
<1>1. /\ (Matches(s, r) <=> Matches(t, r)) /\ s.done = t.done
      /\ Alike(conf, a, b)
  BY MappedAlike
<1>2. r.op \in Ops /\ r.prot \in Prots(conf)
  BY DEF Configured, Prots
<1>3. conf.rules \in Seq(ToSet(conf.rules))
  BY DEF Configured
<1> HIDE DEF a, b
<1>4. Alike(conf, Act(conf, path, a, r), Act(conf, path, b, r))
  <2>1. CASE r.op = "protect"
    <3>1. Act(conf, path, a, r) = Protect(a, r) /\ Act(conf, path, b, r) = Protect(b, r)
      BY <2>1 DEF Act
    <3>2. Alike(conf, Protect(a, r), Protect(b, r))
      BY <1>1, <1>2 DEF Alike, Sound, Same, Fields, Protect
    <3>3. QED
      BY <3>1, <3>2
  <2>2. CASE r.op = "defprot"
    <3>1. Act(conf, path, a, r) = DefProt(a, r) /\ Act(conf, path, b, r) = DefProt(b, r)
      BY <2>2 DEF Act
    <3>2. Alike(conf, DefProt(a, r), DefProt(b, r))
      BY <1>1, <1>2 DEF Alike, Sound, Same, Fields, DefProt
    <3>3. QED
      BY <3>1, <3>2
  <2>3. CASE r.op = "exec"
    BY <1>1, <1>3, <2>3, ExecAlike DEF Act
  <2>4. ASSUME NEW reason \in {"ok_redirect", "ok_moved"}
        PROVE  Alike(conf, Relocate(a, r, reason), Relocate(b, r, reason))
    BY <1>1 DEF Alike, Sound, Same, Fields, Relocate, Failed, ByTranslation
  <2>5. CASE r.op = "redirect"
    BY <2>4, <2>5 DEF Act
  <2>6. CASE r.op = "moved"
    BY <2>4, <2>6 DEF Act
  <2>7. CASE r.op = "pass"
    BY <1>1, <2>7, PassAlike DEF Act
  <2>8. CASE r.op = "fail"
    BY <1>1, <2>8, FailAlike DEF Act
  <2>9. CASE r.op = "map"
    <3>1. Act(conf, path, a, r) = a /\ Act(conf, path, b, r) = b
      BY <2>9 DEF Act
    <3>2. QED
      BY <1>1, <3>1
  <2>10. QED
    BY <1>2, <2>1, <2>2, <2>3, <2>5, <2>6, <2>7, <2>8, <2>9 DEF Ops
<1>5. Alike(conf, Apply(conf, path, s, r), Apply(conf, path, t, r))
  BY <1>1, <1>4, Zenon DEF Apply, a, b
<1>6. QED
  BY <1>5 DEF RuleStep

\* What a path is translated to does not depend on the protections before it, and the
\* protection only if no rule protects the path.
LEMMA TranslateAlike ==
    ASSUME NEW conf, Configured(conf), NEW path,
           NEW p \in Prots(conf), NEW d \in Prots(conf),
           NEW q \in Prots(conf), NEW e \in Prots(conf),
           q # NoName => p = q, e # NoName => d = e
    PROVE  /\ Alike(conf, Translate(conf, path, p, d), Translate(conf, path, q, e))
           /\ Translate(conf, path, p, d).done
<1>1. conf.rules \in Seq(ToSet(conf.rules))
  BY DEF Configured
<1>2. PICK f : /\ f = ByRules(FALSE, conf, path, Start(path, p, d), f)
               /\ Translate(conf, path, p, d) = Default(conf, path, f[DOMAIN conf.rules])
  BY <1>1, TranslateIs, Zenon
<1>3. PICK g : /\ g = ByRules(FALSE, conf, path, Start(path, q, e), g)
               /\ Translate(conf, path, q, e) = Default(conf, path, g[DOMAIN conf.rules])
  BY <1>1, TranslateIs, Zenon
<1>4. Alike(conf, Start(path, p, d), Start(path, q, e))
  BY StartAlike
<1>5. Alike(conf, f[DOMAIN conf.rules], g[DOMAIN conf.rules])
  BY <1>1, <1>2, <1>3, <1>4, StepsAreAlike, RulesAlike, Zenon
<1> DEFINE s == f[DOMAIN conf.rules]
<1>6. DOMAIN s = Fields
  BY <1>5 DEF Alike, Sound
<1> HIDE DEF s
<1>7. Default(conf, path, s).done
  <2>1. CASE s.done
    BY <2>1 DEF Default
  <2>2. CASE ~s.done /\ UserDir(s.current)
    <3>1. Default(conf, path, s) = PassTo(conf, path, s)
      BY <2>2 DEF Default
    <3>2. PassTo(conf, path, s).done
      BY <1>6 DEF PassTo, Failed, Fields
    <3>3. QED
      BY <3>1, <3>2
  <2>3. CASE ~s.done /\ ~UserDir(s.current)
    BY <1>6, <2>3 DEF Default, Failed, Fields
  <2>4. QED
    BY <2>1, <2>2, <2>3
<1>8. QED
  BY <1>2, <1>3, <1>5, <1>7, DefaultAlike DEF s

ForFile(s, to) == [s EXCEPT !.translated = to]

\* The translation s, with the file to, has been checked, and a is the outcome.
Outcome(a, conf, s, to, missing, remote, method, who) ==
    LET d == CheckAuthorization(conf, ForFile(s, to), method, who, remote)
    IN /\ a.reason = Said(missing, d.reason) /\ a.prot = d.prot /\ a.defprot = s.defprot
       /\ a.script = s.script /\ a.translated = to

\* The translation s decides.
Translated(a, s) == a.reason \in ByTranslation /\ a.prot = s.prot /\ a.defprot = s.defprot

\* What a check of authorization leaves behind is its outcome.
LEMMA OutcomeIs ==
    ASSUME NEW conf, NEW path, NEW method, NEW who, NEW s, DOMAIN s = Fields, NEW to,
           NEW remote \in BOOLEAN, NEW missing \in BOOLEAN
    PROVE  /\ Outcome(Telling(missing, Authorized(conf, ForFile(s, to), method, who,
                                                  remote)),
                      conf, s, to, missing, remote, method, who)
           /\ to = s.translated => Outcome(Authorized(conf, s, method, who, remote),
                                           conf, s, to, FALSE, remote, method, who)
<1> DEFINE u == ForFile(s, to)
           d == CheckAuthorization(conf, u, method, who, remote)
           a == Authorized(conf, u, method, who, remote)
<1>1. /\ u.script = s.script /\ u.translated = to /\ u.defprot = s.defprot /\ DOMAIN u = Fields
  BY DEF Fields, ForFile
<1>2. to = s.translated => Authorized(conf, s, method, who, remote) = a
  <2>1. SUFFICES ASSUME to = s.translated
                 PROVE  /\ u.script = s.script /\ u.translated = s.translated
                        /\ u.prot = s.prot /\ u.defprot = s.defprot
                        /\ Settled(u, d) = Settled(s, d)
    BY Zenon DEF Authorized, CheckAuthorization
  <2>2. QED
    BY <2>1, Zenon DEF Settled, Fields, ForFile
<1>3. a = Settled(u, d)
  BY Zenon DEF Authorized
<1> HIDE DEF u, d, a
<1>4. /\ a.reason = d.reason /\ a.prot = d.prot /\ a.defprot = s.defprot /\ a.script = s.script
      /\ a.translated = to /\ DOMAIN a = Fields
  BY <1>1, <1>3 DEF Settled, Fields
<1>5. /\ Telling(missing, a).reason = Said(missing, d.reason)
      /\ Telling(missing, a).prot = d.prot /\ Telling(missing, a).defprot = s.defprot
      /\ Telling(missing, a).script = s.script /\ Telling(missing, a).translated = to
  BY <1>4 DEF Telling, Fields
<1>6. Outcome(Telling(missing, a), conf, s, to, missing, remote, method, who)
  BY <1>5, Zenon DEF Outcome, d, u
<1>7. Said(FALSE, d.reason) = d.reason
  BY DEF Said
<1>8. Outcome(a, conf, s, to, FALSE, remote, method, who)
  BY <1>4, <1>7, Zenon DEF Outcome, d, u
<1>9. QED
  BY <1>2, <1>6, <1>8, Zenon DEF u, a

\* Two checks that differ by the protections before them.
CheckedAlike(a, b, conf, s, t, method, who) ==
    \/ Translated(a, s) /\ Translated(b, t) /\ a.reason = b.reason
    \/ \E to : \E missing \in BOOLEAN, remote \in BOOLEAN :
           /\ remote <=> s.script = <<>> /\ Remote(s.translated)
           /\ Outcome(a, conf, s, to, missing, remote, method, who)
           /\ Outcome(b, conf, t, to, missing, remote, method, who)

\* What the check of a translated path comes to.
LEMMA CheckOutcome ==
    ASSUME NEW conf, NEW path, NEW method, NEW who, NEW s, NEW t, Alike(conf, s, t),
           s.done, t.done
    PROVE  CheckedAlike(CheckTranslated(conf, path, s, method, who),
                        CheckTranslated(conf, path, t, method, who), conf, s, t, method, who)
<1> DEFINE a == CheckTranslated(conf, path, s, method, who)
           b == CheckTranslated(conf, path, t, method, who)
           physical == FoundFile(conf.fs, conf.welcome, s.translated)
           missing == method \in Reading /\ physical = <<>>
           present == method \in Reading /\ physical # <<>>
           to == IF present THEN physical ELSE s.translated
           Local(u) == ForFile(u, to)
           Moved(u) == [u EXCEPT !.reason = "ok_redirect", !.location = Append(path, "/")]
<1>1. /\ s.ok = t.ok /\ s.reason = t.reason /\ s.script = t.script /\ s.translated = t.translated
      /\ DOMAIN s = Fields /\ DOMAIN t = Fields
      /\ ~s.ok => s.reason \in ByTranslation
  BY DEF Alike, Same, Sound
<1>2. CASE ~s.ok \/ s.reason \in {"ok_redirect", "ok_moved"}
  <2>1. a = s /\ b = t
    BY <1>1, <1>2 DEF CheckTranslated
  <2>2. QED
    BY <1>1, <1>2, <2>1 DEF Translated, ByTranslation, CheckedAlike
<1>3. CASE /\ ~(~s.ok \/ s.reason \in {"ok_redirect", "ok_moved"})
           /\ s.script # <<>> \/ Remote(s.translated)
  <2>0. PICK remote \in BOOLEAN : remote = (s.script = <<>>)
    BY Zenon
  <2>1. /\ a = Authorized(conf, s, method, who, remote)
        /\ b = Authorized(conf, t, method, who, remote)
    <3>1. /\ a = Authorized(conf, s, method, who, s.script = <<>>)
          /\ b = Authorized(conf, t, method, who, s.script = <<>>)
      BY <1>1, <1>3, Zenon DEF CheckTranslated
    <3>2. QED
      BY <2>0, <3>1, Zenon
  <2>2. /\ Outcome(Authorized(conf, s, method, who, remote), conf, s, s.translated, FALSE, remote,
                   method, who)
        /\ Outcome(Authorized(conf, t, method, who, remote), conf, t, s.translated, FALSE, remote,
                   method, who)
    BY <1>1, OutcomeIs, Zenon
  <2>3. remote <=> s.script = <<>> /\ Remote(s.translated)
    BY <1>3, <2>0, Zenon
  <2> HIDE DEF a, b
  <2>5. /\ Outcome(a, conf, s, s.translated, FALSE, remote, method, who)
        /\ Outcome(b, conf, t, s.translated, FALSE, remote, method, who)
    BY <2>1, <2>2, Zenon
  <2>6. CheckedAlike(a, b, conf, s, t, method, who)
    BY <2>3, <2>5, Zenon DEF CheckedAlike
  <2>7. QED
    BY <2>6, Zenon DEF a, b
<1>4. CASE /\ ~(~s.ok \/ s.reason \in {"ok_redirect", "ok_moved"})
           /\ ~(s.script # <<>> \/ Remote(s.translated))
  <2>1. /\ a = CheckLocal(conf, path, s, method, who, physical)
        /\ b = CheckLocal(conf, path, t, method, who, physical)
    BY <1>1, <1>4, Zenon DEF CheckTranslated
  <2>2. CASE present /\ WelcomeElsewhere(conf, physical)
    <3>1. a = Moved(s) /\ b = Moved(t)
      BY <2>1, <2>2, Zenon DEF CheckLocal
    <3>2. /\ Moved(s).reason = "ok_redirect" /\ Moved(t).reason = "ok_redirect"
          /\ Moved(s).prot = s.prot /\ Moved(s).defprot = s.defprot
          /\ Moved(t).prot = t.prot /\ Moved(t).defprot = t.defprot
      BY <1>1 DEF Fields
    <3>3. Translated(a, s) /\ Translated(b, t) /\ a.reason = b.reason
      BY <3>1, <3>2 DEF Translated, ByTranslation
    <3>4. QED
      BY <3>3, Zenon DEF CheckedAlike
  <2>3. CASE ~(present /\ WelcomeElsewhere(conf, physical))
    <3>1. ASSUME NEW u, u.translated = s.translated
          PROVE  CheckLocal(conf, path, u, method, who, physical) =
                     Telling(missing, Authorized(conf, Local(u), method, who, FALSE))
      <4>1. CASE present
        BY <2>3, <4>1, Zenon DEF CheckLocal, ForFile
      <4>2. CASE ~present
        BY <2>3, <3>1, <4>2, Zenon DEF CheckLocal, ForFile
      <4>3. QED
        BY <4>1, <4>2, Zenon
    <3>0. PICK m \in BOOLEAN : m = missing
      BY Zenon
    <3>2. /\ a = Telling(m, Authorized(conf, Local(s), method, who, FALSE))
          /\ b = Telling(m, Authorized(conf, Local(t), method, who, FALSE))
      <4>1. /\ a = Telling(missing, Authorized(conf, Local(s), method, who, FALSE))
            /\ b = Telling(missing, Authorized(conf, Local(t), method, who, FALSE))
        BY <1>1, <2>1, <3>1, Zenon
      <4>2. QED
        BY <3>0, <4>1, Zenon
    <3>3. PICK remote \in BOOLEAN : remote = FALSE
      BY Zenon
    <3> HIDE DEF a, b, to, missing
    <3>4. /\ Outcome(a, conf, s, to, m, remote, method, who)
          /\ Outcome(b, conf, t, to, m, remote, method, who)
      <4>1. /\ Outcome(Telling(m, Authorized(conf, Local(s), method, who, remote)), conf, s,
                        to, m, remote, method, who)
            /\ Outcome(Telling(m, Authorized(conf, Local(t), method, who, remote)), conf, t,
                        to, m, remote, method, who)
        BY <1>1, OutcomeIs, Zenon
      <4>2. QED
        BY <3>2, <3>3, <4>1, Zenon
    <3>5. remote <=> s.script = <<>> /\ Remote(s.translated)
      BY <1>4, <3>3
    <3>6. CheckedAlike(a, b, conf, s, t, method, who)
      BY <3>4, <3>5 DEF CheckedAlike
    <3>7. QED
      BY <3>6, Zenon DEF a, b
  <2>4. QED
    BY <2>2, <2>3
<1>5. QED
  BY <1>2, <1>3, <1>4, Zenon

\* Whether there is an access control list for what is asked for.
HasList(conf, program, to, remote) ==
    ~remote /\ Directory(IF program # <<>> THEN program ELSE to) \in DOMAIN conf.lists

\* The reason for which a new request, to read the path, is answered or not, and that
\* of a redirected one.
LEMMA ReadingAlike ==
    ASSUME NEW conf, NEW method \in Reading, NEW who, NEW s, NEW t, Alike(conf, s, t),
           NEW a, NEW b, NEW to, NEW missing \in BOOLEAN, NEW remote \in BOOLEAN,
           Outcome(a, conf, s, to, missing, remote, method, who),
           Outcome(b, conf, t, to, missing, remote, method, who)
    PROVE  /\ t.prot # NoName => a.reason = b.reason
           /\ t.prot = NoName /\ ~HasList(conf, s.script, to, remote) => b.reason \in Granted
<1> DEFINE u == ForFile(s, to)
           v == ForFile(t, to)
           ok == IF remote THEN "ok_gateway" ELSE "ok"
<1>1. /\ u.script = s.script /\ v.script = s.script /\ u.translated = to /\ v.translated = to
      /\ u.prot = s.prot /\ v.prot = t.prot /\ v.defprot = t.defprot
  BY DEF Alike, Same, Sound, Fields, ForFile
<1>2. /\ a.reason = Said(missing, CheckAuthorization(conf, u, method, who, remote).reason)
      /\ b.reason = Said(missing, CheckAuthorization(conf, v, method, who, remote).reason)
  BY Zenon DEF Outcome
<1>3. method \notin Changing
  BY DEF Reading, Changing
<1> HIDE DEF u, v
<1>4. CASE t.prot # NoName
  <2>1. u.prot = v.prot /\ u.prot # NoName
    BY <1>1, <1>4 DEF Alike
  <2>2. CheckAuthorization(conf, u, method, who, remote) =
            CheckAuthorization(conf, v, method, who, remote)
    BY <1>1, <2>1, Zenon DEF CheckAuthorization
  <2>3. QED
    BY <1>2, <1>4, <2>2
<1>5. CASE t.prot = NoName /\ ~HasList(conf, s.script, to, remote)
  <2>1. CheckAuthorization(conf, v, method, who, remote) = Decision(ok, NoName)
    BY <1>1, <1>3, <1>5, Zenon DEF CheckAuthorization, HasList
  <2>2. CheckAuthorization(conf, v, method, who, remote).reason = ok
    BY <2>1 DEF Decision
  <2>3. QED
    BY <1>2, <1>5, <2>2 DEF Said, Granted
<1>6. QED
  BY <1>4, <1>5

\* A check leaves the names of protections that are there.
LEMMA CheckedProts ==
    ASSUME NEW conf, Configured(conf), NEW path, NEW method, NEW who,
           NEW p \in Prots(conf), NEW d \in Prots(conf)
    PROVE  /\ Check(conf, path, method, who, p, d).prot \in Prots(conf)
           /\ Check(conf, path, method, who, p, d).defprot \in Prots(conf)
<1> DEFINE s == Translate(conf, path, p, d)
           a == CheckTranslated(conf, path, s, method, who)
<1>1. Alike(conf, s, s) /\ s.done
  BY TranslateAlike
<1>2. CheckedAlike(a, a, conf, s, s, method, who)
  BY <1>1, CheckOutcome
<1>3. s.prot \in Prots(conf) /\ s.defprot \in Prots(conf) /\ DOMAIN s = Fields
  BY <1>1 DEF Alike, Sound
<1>4. Check(conf, path, method, who, p, d) = a
  BY Zenon DEF Check
<1> HIDE DEF s, a
<1>5. CASE Translated(a, s)
  BY <1>3, <1>4, <1>5 DEF Translated
<1>6. CASE \E to : \E missing \in BOOLEAN, remote \in BOOLEAN :
               Outcome(a, conf, s, to, missing, remote, method, who)
  <2>1. PICK to : \E missing \in BOOLEAN, remote \in BOOLEAN :
               Outcome(a, conf, s, to, missing, remote, method, who)
    BY <1>6
  <2>7. PICK missing \in BOOLEAN, remote \in BOOLEAN :
               Outcome(a, conf, s, to, missing, remote, method, who)
    BY <2>1
  <2>2. PICK u : u = ForFile(s, to)
    OBVIOUS
  <2>3. u.prot = s.prot /\ u.defprot = s.defprot
    BY <1>3, <2>2 DEF ForFile, Fields
  <2>4. a.prot = CheckAuthorization(conf, u, method, who, remote).prot /\ a.defprot = s.defprot
    BY <2>2, <2>7, Zenon DEF Outcome
  <2>5. CheckAuthorization(conf, u, method, who, remote).prot \in {u.prot, u.defprot, NoName}
    <3> DEFINE this   == IF u.script # <<>> THEN u.script ELSE u.translated
               dir    == Directory(this)
               listed == ~remote /\ dir \in DOMAIN conf.lists
               ok     == IF remote THEN "ok_gateway" ELSE "ok"
               prot   == IF u.prot = NoName /\ (listed \/ method \in Changing) THEN u.defprot
                         ELSE u.prot
    <3>1. CheckAuthorization(conf, u, method, who, remote) =
              IF listed THEN ByList(conf, conf.lists[dir], this, prot, method, who)
              ELSE IF prot # NoName THEN ByMask(conf, prot, method, who, ok)
              ELSE IF method \in Changing THEN Decision("not_allowed", NoName)
              ELSE Decision(ok, NoName)
      BY Zenon DEF CheckAuthorization
    <3>2. prot \in {u.prot, u.defprot}
      OBVIOUS
    <3> HIDE DEF this, dir, listed, ok, prot
    <3>3. \A r, q : Decision(r, q).prot = q
      BY DEF Decision
    <3>4. \A g : ByMask(conf, prot, method, who, g).prot = prot
      BY <3>3, Zenon DEF ByMask
    <3>5. \A by, r : Both(by, r).prot = by.prot
      BY DEF Decision, Both
    <3>6. ByList(conf, conf.lists[dir], this, prot, method, who).prot = prot
      <4> DEFINE list   == conf.lists[dir]
                 setup  == conf.setups[prot]
                 masked == Masks(setup, method) # {} /\ ~setup.override
                 by     == IF masked THEN ByMask(conf, prot, method, who, "ok")
                           ELSE Decision("ok", prot)
                 says   == ByEntries(setup, Entries(list, this, method), who)
      <4>1. ByList(conf, list, this, prot, method, who) =
                IF prot = NoName THEN Decision("setup_error", prot) ELSE Both(by, says)
        BY Zenon DEF ByList
      <4>2. by.prot = prot
        <5> HIDE DEF masked
        <5>1. QED
          BY <3>3, <3>4
      <4> HIDE DEF list, setup, masked, by, says
      <4>3. ByList(conf, list, this, prot, method, who).prot = prot
        BY <3>3, <3>5, <4>1, <4>2
      <4>4. QED
        BY <4>3, Zenon DEF list
    <3>7. QED
      BY <3>1, <3>2, <3>3, <3>4, <3>6
  <2>6. QED
    BY <1>3, <1>4, <2>3, <2>4, <2>5 DEF Prots
<1>7. QED
  BY <1>2, <1>5, <1>6 DEF CheckedAlike

---------------------------------------------------------------------------
(***************************************************************************)
(* What decided on a path has come from a check of it, in every state.     *)
(***************************************************************************)
\* In the same hop the same is asked for.
LEMMA AskedSame ==
    ASSUME req' = req, server'.hop = server.hop
    PROVE  Site' = Site /\ Path' = Path /\ Method' = Method /\ Wrong' = Wrong
<1>1. Wrong' = Wrong
  BY HopSame
<1>2. Site' = Site /\ Method' = Method
  BY DEF Site, Method
<1>3. Path' = Path
  BY DEF Path, Nth
<1>4. QED
  BY <1>1, <1>2, <1>3

\* The configuration of a site is in order.
LEMMA SiteIs ==
    ASSUME req \in Incoming
    PROVE  Configured(Site)
<1>1. req.site \in DOMAIN Sites
  BY HandleAssumption
<1>2. QED
  BY <1>1, SitesAssumption DEF Site

\* The alarm is not that of a script.
Untimed ==
    /\ DOMAIN alarm = {"state", "script"}
    /\ server.pc \in {"check", "handle", "list", "call"} => alarm.state # "on"

\* A step within a hop that does not check the path keeps what is known of it.
LEMMA HereStays ==
    ASSUME CheckedHere, req' = req, server'.hop = server.hop, auth' = auth, Untimed',
           server'.pc = "check" \/ server.pc # "check" \/ Wrong # <<>>
    PROVE  CheckedHere'
<1>1. Site' = Site /\ Path' = Path /\ Method' = Method /\ Wrong' = Wrong
  BY AskedSame
<1> DEFINE From1(p, d) == Check(Site, Path, Method, req.who, p, d)
<1>2. Decided' => Decided
  BY <1>1 DEF Decided
<1>3. Decided' => \E p, d \in Prots(Site)' : auth' = From1(p, d)'
  <2>1. Prots(Site)' = Prots(Site) /\ \A p, d : From1(p, d)' = From1(p, d)
    BY <1>1
  <2> HIDE DEF From1
  <2>2. Decided => \E p, d \in Prots(Site) : auth = From1(p, d)
    BY DEF CheckedHere, From1
  <2>3. QED
    BY <1>2, <2>1, <2>2
<1>4. auth'.prot \in Prots(Site)' /\ auth'.defprot \in Prots(Site)' /\ req' \in Incoming
  BY <1>1 DEF CheckedHere
<1>5. QED
  BY <1>3, <1>4 DEF CheckedHere, Untimed

LEMMA HereInit ==
    ASSUME HandleInit
    PROVE  CheckedHere
BY DEF HandleInit, ScriptInit, CheckedHere, Start, Prots, Decided

\* The first of what it does for a path: the check.
LEMMA HereAuthorized ==
    ASSUME Shaped, CheckedHere, Authorize
    PROVE  CheckedHere'
<1>1. /\ auth' = Check(Site, Path, Method, req.who, auth.prot, auth.defprot)
      /\ req' = req /\ alarm' = alarm /\ server.pc = "check"
  BY DEF Authorize, ServerAt, KeepScript
<1>2. server'.hop = server.hop
  BY GoingIs, Zenon DEF Authorize
<1>3. auth.prot \in Prots(Site) /\ auth.defprot \in Prots(Site) /\ Configured(Site)
      /\ req \in Incoming
  BY SiteIs DEF CheckedHere
<1>4. auth'.prot \in Prots(Site) /\ auth'.defprot \in Prots(Site)
  BY <1>1, <1>3, CheckedProts
<1>5. Site' = Site /\ Path' = Path /\ Method' = Method
  BY <1>1, <1>2, AskedSame
<1> DEFINE From1(p, d) == Check(Site, Path, Method, req.who, p, d)
<1>6. \E p, d \in Prots(Site)' : auth' = From1(p, d)'
  <2>1. Prots(Site)' = Prots(Site) /\ \A p, d : From1(p, d)' = From1(p, d)
    BY <1>1, <1>5
  <2>2. auth' = From1(auth.prot, auth.defprot)
    BY <1>1
  <2> HIDE DEF From1
  <2>3. QED
    BY <1>3, <2>1, <2>2
<1>7. Untimed'
  BY <1>1 DEF Untimed, CheckedHere
<1>8. auth'.prot \in Prots(Site)' /\ auth'.defprot \in Prots(Site)' /\ req' \in Incoming
  BY <1>1, <1>3, <1>4, <1>5
<1>9. QED
  BY <1>6, <1>7, <1>8 DEF CheckedHere, Untimed

\* A step of the process while it runs a script.
LEMMA HereServed ==
    ASSUME Shaped, CheckedHere, ServerStep, auth' = auth
    PROVE  CheckedHere'
<1>1. Untimed /\ server.pc # "check" /\ req' = req
  <2>1. Untimed
    BY DEF CheckedHere, Untimed
  <2>2. server.pc # "check" /\ req' = req
    BY Zenon DEF ServerStep, Call, Feed, GetBlock, WriteBlock, WriteNewline, ReadOut, LoadBlock,
           LoadEnd, Send, Wait, PidOff, AlarmOff, Quit, KillScript, ServerAt
  <2>3. QED
    BY <2>1, <2>2
<1>2. CASE ~AlarmOff
  <2>1. server'.hop = server.hop /\ server'.pc \notin {"check", "handle", "list", "call"}
    <3>1. CASE Call \/ ReadOut \/ LoadEnd
      <4>1. CASE Call
        BY <4>1 DEF Call, Begun, Shaped
      <4>2. CASE ReadOut
        BY <4>2 DEF ReadOut, ServerAt, Shaped
      <4>3. CASE LoadEnd
        BY <4>3 DEF LoadEnd, Answer, Shaped
      <4>4. QED
        BY <3>1, <4>1, <4>2, <4>3
    <3>5. CASE Feed \/ Wait \/ PidOff \/ Quit \/ KillScript
      BY <3>5, Zenon DEF Feed, GetBlock, WriteBlock, WriteNewline, Wait, PidOff, Quit, KillScript,
             ServerAt, ServerGoes, Shaped
    <3>2. CASE Send
      BY <3>2, Zenon DEF Send, ServerAt, ServerGoes, Shaped
    <3>3. CASE LoadBlock
      <4>1. CASE ScriptPlan.header = "type"
        BY <3>3, <4>1, BlockRead, BlockPut, Zenon
      <4>2. CASE ScriptPlan.header = "remote"
        BY <3>3, <4>2, BlockRead, Answered DEF Shaped
      <4>3. CASE ScriptPlan.header = "none"
        BY <3>3, <4>3, BlockRead, Zenon DEF Shaped
      <4>4. CASE ScriptPlan.header = "local"
        BY <3>3, <4>4, BlockRead, Redirected
      <4>5. QED
        BY <4>1, <4>2, <4>3, <4>4, Plans
    <3>4. QED
      BY <1>2, <3>1, <3>2, <3>3, <3>5 DEF ServerStep
  <2>2. DOMAIN alarm' = {"state", "script"}
    <3>1. DOMAIN alarm = {"state", "script"}
      BY <1>1 DEF Untimed
    <3>2. alarm' = alarm \/ (\E x : alarm' = [state |-> x, script |-> TRUE])
          \/ (\E x : alarm' = [alarm EXCEPT !.state = x])
          \/ (\E x : alarm' = [alarm EXCEPT !.script = x])
      BY <1>2 DEF ServerStep, Call, Feed, GetBlock, WriteBlock, WriteNewline, ReadOut, LoadBlock,
           LoadEnd, Send, Wait, PidOff, Quit, KillScript, Written, SigPipeIgnored
    <3>3. QED
      BY <3>1, <3>2
  <2>3. Untimed'
    BY <2>1, <2>2 DEF Untimed
  <2>4. QED
    BY <1>1, <2>1, <2>3, HereStays
<1>3. CASE AlarmOff
  <2>1. /\ alarm' = [alarm EXCEPT !.state = "off"]
        /\ \/ server' = [server EXCEPT !.pc = "ended"]
           \/ server' = [server EXCEPT !.pc = "check", !.hop = @ + 1]
    BY <1>3 DEF AlarmOff, ServerGoes
  <2>2. Untimed'
    BY <1>1, <2>1 DEF Untimed
  <2>3. CASE server' = [server EXCEPT !.pc = "ended"]
    BY <1>1, <2>2, <2>3, HereStays DEF Shaped
  <2>4. CASE server' = [server EXCEPT !.pc = "check", !.hop = @ + 1]
    <3>1. server'.pc = "check"
      BY <2>4 DEF Shaped
    <3>2. ~Decided'
      BY <3>1 DEF Decided
    <3>3. Site' = Site
      BY <1>1 DEF Site
    <3>4. auth'.prot \in Prots(Site)' /\ auth'.defprot \in Prots(Site)' /\ req' \in Incoming
      BY <1>1, <3>3 DEF CheckedHere
    <3>5. QED
      BY <2>2, <3>2, <3>4 DEF CheckedHere, Untimed
  <2>5. QED
    BY <2>1, <2>3, <2>4
<1>4. QED
  BY <1>2, <1>3

\* Every step.
LEMMA HereKept ==
    ASSUME Shaped, CheckedHere, [HandleNext]_all
    PROVE  CheckedHere'
<1>0. Untimed
  BY DEF Untimed, CheckedHere
<1>1. CASE UNCHANGED all
  <2>1. Untimed' /\ req' = req /\ auth' = auth /\ server' = server
    BY <1>0, <1>1 DEF Untimed, all, scriptVars
  <2>2. QED
    BY <2>1, HereStays
<1>2. CASE Authorize
  BY <1>2, HereAuthorized
<1>3. CASE HandleStep /\ ~Authorize
  <2>1. /\ server.pc \in {"check", "handle", "list"} /\ req' = req
        /\ \/ server' = server
           \/ \E w \in {"handle", "list", "call", "ended"} : Attributes(w) \/ ServerGoes(w)
    BY <1>3, HandleIs
  <2>2. server'.hop = server.hop
    BY <2>1, GoingIs
  <2>3. auth' = auth /\ (server.pc # "check" \/ Wrong # <<>>)
    BY <1>3, Zenon DEF HandleStep, Refuse, RunScript, Simple, NotHandled, Gateway, ListForbidden,
              ListStart, ListEntry, ListGone, ListEnd, ServerAt, Handling
  <2>4. alarm' = alarm \/ \E x \in {"off", "output"} : alarm' = [alarm EXCEPT !.state = x]
    BY <1>3, Zenon DEF HandleStep, Refuse, RunScript, Simple, NotHandled, Gateway, ListForbidden,
              ListStart, ListEntry, ListGone, ListEnd, KeepScript
  <2>5. Untimed'
    BY <1>0, <2>1, <2>4 DEF Untimed
  <2>6. QED
    BY <2>1, <2>2, <2>3, <2>5, HereStays
<1>4. CASE ServerStep /\ UNCHANGED <<auth, listing>>
  BY <1>4, HereServed
<1>5. CASE Alarm
  <2>1. req' = req /\ auth' = auth /\ server'.hop = server.hop /\ server.pc # "check"
        /\ Untimed'
    <3>1. CASE OutputTimedOut
      BY <1>0, <3>1 DEF OutputTimedOut, ServerAt, ServerGoes, Shaped, Untimed
    <3>2. CASE TermScript /\ UNCHANGED <<auth, listing>>
      BY <1>0, <3>2 DEF TermScript, Rings, ServerGoes, Shaped, Untimed
    <3>3. CASE TermAll /\ UNCHANGED <<auth, listing>>
      BY <1>0, <3>3 DEF TermAll, Rings, Untimed
    <3>4. QED
      BY <1>5, <3>1, <3>2, <3>3 DEF Alarm
  <2>2. QED
    BY <2>1, HereStays
<1>6. CASE Others
  <2>1. req' = req /\ auth' = auth /\ server' = server /\ alarm' = alarm
    BY <1>6 DEF Others, ScriptStep, ReadIn, ReadAll, WriteOut, Fork, Exit, Step, ChildEnds,
              ClientLeaves
  <2>2. Untimed'
    BY <1>0, <2>1 DEF Untimed
  <2>3. QED
    BY <2>1, <2>2, HereStays
<1>7. QED
  BY <1>1, <1>2, <1>3, <1>4, <1>5, <1>6 DEF HandleNext, Process

\* What is known of the path of a hop has come from a check of it.
THEOREM CheckedInvariance == HandleSpec => []CheckedHere
<1>1. HandleInit => CheckedHere
  BY HereInit
<1>2. AnswerInv /\ CheckedHere /\ [HandleNext]_all => CheckedHere'
  BY HereKept DEF AnswerInv
<1>3. QED
  BY <1>1, <1>2, AnswerInvariance, PTL DEF HandleSpec

\* Of a path checked after others, and on its own.
LEMMA HopLemma ==
    ASSUME CheckedHere, Decided, server.hop > 1,
           NEW t, t = Translate(Site, Path, NoName, NoName),
           NEW b, b = Check(Site, Path, Method, req.who, NoName, NoName)
    PROVE  /\ t.prot # NoName => auth.reason = b.reason
           /\ auth.reason \in Granted /\ ~Controlled => b.reason \in Granted
<1>1. Configured(Site) /\ NoName \in Prots(Site)
  BY SiteIs DEF CheckedHere, Prots
<1>2. PICK p \in Prots(Site), d \in Prots(Site) : auth = Check(Site, Path, Method, req.who, p, d)
  BY DEF CheckedHere
<1>3. PICK s : s = Translate(Site, Path, p, d)
  OBVIOUS
<1>4. Alike(Site, s, t) /\ s.done /\ t.done
  <2>1. Alike(Site, s, t) /\ s.done
    BY <1>1, <1>3, TranslateAlike
  <2>2. QED
    BY <2>1, Zenon DEF Alike, Same
<1>5. /\ auth = CheckTranslated(Site, Path, s, Method, req.who)
      /\ b = CheckTranslated(Site, Path, t, Method, req.who)
  BY <1>2, <1>3, Zenon DEF Check
<1>6. CheckedAlike(auth, b, Site, s, t, Method, req.who)
  BY <1>4, <1>5, CheckOutcome
<1>7. Method \in Reading
  BY DEF Method, Reading
<1>8. CASE Translated(auth, s) /\ Translated(b, t) /\ auth.reason = b.reason
  BY <1>8
<1>9. ASSUME NEW to, NEW missing \in BOOLEAN, NEW remote \in BOOLEAN,
             remote <=> s.script = <<>> /\ Remote(s.translated),
             Outcome(auth, Site, s, to, missing, remote, Method, req.who),
             Outcome(b, Site, t, to, missing, remote, Method, req.who)
      PROVE  /\ t.prot # NoName => auth.reason = b.reason
             /\ auth.reason \in Granted /\ ~Controlled => b.reason \in Granted
  <2>1. /\ t.prot # NoName => auth.reason = b.reason
        /\ t.prot = NoName /\ ~HasList(Site, s.script, to, remote) => b.reason \in Granted
    BY <1>4, <1>7, <1>9, ReadingAlike
  <2>2. auth.script = s.script /\ auth.translated = to /\ s.translated = t.translated
    BY <1>4, <1>9 DEF Outcome, Alike, Same
  <2>3. ~Controlled => ~HasList(Site, s.script, to, remote)
    BY <1>9, <2>2 DEF Controlled, This, HasList
  <2>4. QED
    BY <2>1, <2>3
<1>10. QED
  BY <1>6, <1>8, <1>9, Zenon DEF CheckedAlike

\* A request redirected by a script gets what a new one would get, and never what would be
\* refused, whatever protected the script (HTHandle, HTDaemon.c:2041-2048).
THEOREM HopTheorem == HandleSpec => []HopAsDirect
<1>1. CheckedHere => HopAsDirect
  <2> SUFFICES ASSUME CheckedHere, Decided, server.hop > 1
               PROVE  \E direct \in {Check(Site, Path, IF req.method \in Reading THEN req.method
                                                       ELSE "GET", req.who, NoName, NoName)} :
            /\ Translate(Site, Path, NoName, NoName).prot # NoName => auth.reason = direct.reason
            /\ auth.reason \in Granted /\ ~Controlled => direct.reason \in Granted
    BY Zenon DEF HopAsDirect
  <2>1. Method = IF req.method \in Reading THEN req.method ELSE "GET"
    BY DEF Method
  <2>2. PICK direct : direct = Check(Site, Path, Method, req.who, NoName, NoName)
    OBVIOUS
  <2>3. PICK t : t = Translate(Site, Path, NoName, NoName)
    OBVIOUS
  <2>4. /\ t.prot # NoName => auth.reason = direct.reason
        /\ auth.reason \in Granted /\ ~Controlled => direct.reason \in Granted
    BY <2>2, <2>3, HopLemma
  <2>5. QED
    BY <2>1, <2>2, <2>3, <2>4, Zenon
<1>2. QED
  BY <1>1, CheckedInvariance, PTL

---------------------------------------------------------------------------
(***************************************************************************)
(* Groups.  What the code makes of names and items one after the other,    *)
(* with the variables it carries along, is what it means to belong to a    *)
(* group, which is in Belongs: by induction over the names of an item, the *)
(* items of a group and the groups of a file.                              *)
(***************************************************************************)

\* What one name makes of what the names before it have said; all that some names say.
JudgeName(file, n, Inner, user, s, name) ==
    IF s.ok THEN s
    ELSE IF Defined(file, n, name) # 0 THEN Inner[Defined(file, n, name)]
    ELSE [s EXCEPT !.ok = NameMatches(name, user)]

ByNames(file, n, Inner, user, names, s, f) ==
    [S \in SUBSET DOMAIN names |->
        IF S = {} THEN s
        ELSE JudgeName(file, n, Inner, user, f[S \ {Max(S)}], names[Max(S)])]

AllNames(file, n, Inner, user, names, s) ==
    (CHOOSE f : f = ByNames(file, n, Inner, user, names, s, f))[DOMAIN names]

JudgeItem(file, n, Inner, user, from, s, item) ==
    IF s.ok THEN s
    ELSE IF ~AddressIn(item.addresses, from)
    THEN [s EXCEPT !.reason = IF s.poss THEN @ ELSE "ip_mask"]
    ELSE IF item.users = <<>> THEN [s EXCEPT !.ok = TRUE]
    ELSE AllNames(file, n, Inner, user, item.users, Noted(s))

ByItems(file, n, Inner, user, from, items, s, f) ==
    [S \in SUBSET DOMAIN items |->
        IF S = {} THEN s
        ELSE JudgeItem(file, n, Inner, user, from, f[S \ {Max(S)}], items[Max(S)])]

AllItems(file, n, Inner, user, from, items, s) ==
    (CHOOSE f : f = ByItems(file, n, Inner, user, from, items, s, f))[DOMAIN items]

Nothing == [ok |-> FALSE, poss |-> FALSE, reason |-> "not_member"]

\* Judged, by the folds above.
LEMMA JudgedIs ==
    ASSUME NEW items, NEW file, NEW n, NEW Inner, NEW user, NEW from
    PROVE  Judged(items, file, n, Inner, user, from) =
               Verdict(AllItems(file, n, Inner, user, from, items, Nothing))
BY Zenon DEF Judged, AllItems, ByItems, JudgeItem, AllNames, ByNames, JudgeName, FoldLeft,
       MapThenFoldSet, Nothing

\* What a fold makes of a part of a list is known by induction.
LEMMA SeqInduction ==
    ASSUME NEW L, NEW s \in Seq(L), NEW T, {} \in T,
           \A S \in SUBSET DOMAIN s : S # {} /\ S \ {Max(S)} \in T => S \in T
    PROVE  SUBSET DOMAIN s \subseteq T
<1>1. /\ IsFiniteSet(DOMAIN s) /\ Chooses(Latest(s), DOMAIN s)
      /\ \A S \in SUBSET DOMAIN s : Latest(s)[S] = Max(S)
  BY MaxIn
<1>2. PassedOn(T, Latest(s), DOMAIN s)
  BY <1>1 DEF PassedOn
<1>3. QED
  BY <1>1, <1>2, SubsetInduction

\* What may be found out about somebody.
Judgements == {s \in [ok : BOOLEAN, poss : BOOLEAN, reason : {"ok", "not_member", "ip_mask"}] :
                  s.ok \/ s.reason # "ok"}

\* Names that refer to groups refer to what has been found out about them.
LookedUp(file, n, Inner) ==
    \A name : Defined(file, n, name) # 0 => Inner[Defined(file, n, name)] \in Judgements

NameHas(file, n, Inner, user, name) ==
    IF Defined(file, n, name) # 0 THEN Inner[Defined(file, n, name)].ok
    ELSE NameMatches(name, user)

\* No name refers to a group.
Plain(file, n, names) == \A i \in DOMAIN names : Defined(file, n, names[i]) = 0

\* What one name of an item says.
LEMMA JudgeNameIs ==
    ASSUME NEW file, NEW n, NEW Inner, LookedUp(file, n, Inner), NEW user, NEW s \in Judgements,
           NEW name, NEW r, r = JudgeName(file, n, Inner, user, s, name)
    PROVE  /\ r \in Judgements
           /\ r.ok <=> s.ok \/ NameHas(file, n, Inner, user, name)
           /\ Defined(file, n, name) = 0 => r.poss = s.poss
<1>1. CASE s.ok
  BY <1>1 DEF JudgeName
<1>2. CASE ~s.ok /\ Defined(file, n, name) # 0
  BY <1>2 DEF JudgeName, LookedUp, NameHas
<1>3. CASE ~s.ok /\ Defined(file, n, name) = 0
  <2>1. PICK m \in BOOLEAN : m = NameMatches(name, user)
    BY Zenon DEF NameMatches
  <2>2. r = [s EXCEPT !.ok = m]
    BY <1>3, <2>1 DEF JudgeName
  <2>3. r \in Judgements /\ r.ok = m /\ r.poss = s.poss
    BY <1>3, <2>2 DEF Judgements
  <2>4. QED
    BY <1>3, <2>1, <2>3 DEF NameHas
<1>4. QED
  BY <1>1, <1>2, <1>3

\* The names of an item, one after the other.
LEMMA NamesAre ==
    ASSUME NEW file, NEW n, NEW Inner, LookedUp(file, n, Inner), NEW user, NEW L,
           NEW names \in Seq(L), NEW s \in Judgements,
           NEW r, r = AllNames(file, n, Inner, user, names, s)
    PROVE  /\ r \in Judgements
           /\ r.ok <=> s.ok \/ \E i \in DOMAIN names :
                                   NameHas(file, n, Inner, user, names[i])
           /\ Plain(file, n, names) => r.poss = s.poss
<1> DEFINE D == DOMAIN names
           step(t, i) == JudgeName(file, n, Inner, user, t, names[i])
           has(i) == NameHas(file, n, Inner, user, names[i])
           known(i) == Defined(file, n, names[i]) # 0
           G == [p \in Judgements \X D |-> step(p[1], p[2])]
           f == CHOOSE f : f = ByNames(file, n, Inner, user, names, s, f)
<1>1. \A t \in Judgements : \A i \in D :
          /\ step(t, i) \in Judgements
          /\ step(t, i).ok <=> t.ok \/ has(i)
          /\ ~known(i) => step(t, i).poss = t.poss
  BY JudgeNameIs
<1>2. \A S \in SUBSET D : S # {} => Max(S) \in S
  BY MaxIn
<1>3. f = ByNames(file, n, Inner, user, names, s, f)
  <2> HIDE DEF step
  <2>1. G \in [Judgements \X D -> Judgements]
    BY <1>1
  <2> HIDE DEF G
  <2>7. /\ IsFiniteSet(DOMAIN names) /\ Chooses(Latest(names), DOMAIN names)
        /\ \A S \in SUBSET DOMAIN names : Latest(names)[S] = Max(S)
    BY MaxIn
  <2>8. PICK g : FoldOf(g, DOMAIN names, Latest(names), Judgements, s, G)
    BY <2>1, <2>7, FoldExists, Zenon
  <2> HIDE DEF D
  <2>2. /\ g \in [SUBSET D -> Judgements]
        /\ \A S \in SUBSET D : g[S] = IF S = {} THEN s ELSE G[<<g[S \ {Max(S)}], Max(S)>>]
    BY <2>7, <2>8 DEF FoldOf, D
  <2>3. ASSUME NEW S \in SUBSET D, S # {}
        PROVE  G[<<g[S \ {Max(S)}], Max(S)>>] = step(g[S \ {Max(S)}], Max(S))
    <3>1. g[S \ {Max(S)}] \in Judgements /\ Max(S) \in D
      BY <1>2, <2>2, <2>3
    <3>2. QED
      BY <3>1 DEF G
  <2>4. g = [S \in SUBSET D |-> IF S = {} THEN s ELSE step(g[S \ {Max(S)}], Max(S))]
    <3>1. \A S \in SUBSET D : g[S] = IF S = {} THEN s ELSE step(g[S \ {Max(S)}], Max(S))
      BY <2>2, <2>3, Zenon
    <3>2. QED
      BY <2>2, <3>1
  <2>5. g = ByNames(file, n, Inner, user, names, s, g)
    BY <2>4, Zenon DEF ByNames, step, D
  <2>6. QED
    BY <2>5
<1>4. \A S \in SUBSET D : f[S] = IF S = {} THEN s ELSE step(f[S \ {Max(S)}], Max(S))
  <2> HIDE DEF f
  <2>1. QED
    BY <1>3, Zenon DEF ByNames
<1>5. r = f[D]
  BY Zenon DEF AllNames
<1> HIDE DEF D, step, has, known, G, f
<1> DEFINE T == {S \in SUBSET D :
                    /\ f[S] \in Judgements
                    /\ f[S].ok <=> s.ok \/ \E i \in S : has(i)
                    /\ (\A i \in S : ~known(i)) => f[S].poss = s.poss}
<1>6. {} \in T
  BY <1>4, Zenon
<1>7. ASSUME NEW S \in SUBSET D, S # {}, S \ {Max(S)} \in T
      PROVE  S \in T
  <2>1. PICK t, i : t = f[S \ {Max(S)}] /\ i = Max(S)
    OBVIOUS
  <2>2. i \in S /\ i \in D /\ t \in Judgements /\ f[S] = step(t, i)
    BY <1>2, <1>4, <1>7, <2>1, Zenon
  <2>3. /\ f[S] \in Judgements
        /\ f[S].ok <=> t.ok \/ has(i)
        /\ ~known(i) => f[S].poss = t.poss
    BY <1>1, <2>2
  <2>4. /\ t.ok <=> s.ok \/ \E j \in S \ {i} : has(j)
        /\ (\A j \in S \ {i} : ~known(j)) => t.poss = s.poss
    BY <1>7, <2>1
  <2>5. QED
    BY <2>2, <2>3, <2>4
<1>8. D \in T
  <2> HIDE DEF T
  <2>1. SUBSET D \subseteq T
    BY <1>6, <1>7, SeqInduction, Zenon DEF D
  <2>2. QED
    BY <2>1
<1>9. /\ r \in Judgements /\ (r.ok <=> s.ok \/ \E i \in D : has(i))
      /\ (\A i \in D : ~known(i)) => r.poss = s.poss
  BY <1>5, <1>8
<1>10. QED
  BY <1>9 DEF D, has, known, Plain

\* An item lets the user in.
ItemHas(file, n, Inner, user, from, item) ==
    /\ AddressIn(item.addresses, from)
    /\ \/ item.users = <<>>
       \/ \E i \in DOMAIN item.users : NameHas(file, n, Inner, user, item.users[i])

\* What one item says.
LEMMA JudgeItemIs ==
    ASSUME NEW file, NEW n, NEW Inner, LookedUp(file, n, Inner), NEW user, NEW from,
           NEW s \in Judgements, NEW item \in GroupItem,
           NEW r, r = JudgeItem(file, n, Inner, user, from, s, item)
    PROVE  /\ r \in Judgements
           /\ r.ok <=> s.ok \/ ItemHas(file, n, Inner, user, from, item)
           /\ Plain(file, n, item.users) /\ ~r.ok =>
                  /\ r.poss <=> s.poss \/ AddressIn(item.addresses, from)
                  /\ ~r.poss => r.reason = "ip_mask"
<1>0. PICK here \in BOOLEAN : here = AddressIn(item.addresses, from)
  BY Zenon DEF AddressIn
<1>1. CASE s.ok
  BY <1>1 DEF JudgeItem
<1>2. CASE ~s.ok /\ ~here
  <2>1. r = [s EXCEPT !.reason = IF s.poss THEN @ ELSE "ip_mask"]
    BY <1>0, <1>2 DEF JudgeItem
  <2>2. /\ r \in Judgements /\ r.ok = s.ok /\ r.poss = s.poss
        /\ ~r.poss => r.reason = "ip_mask"
    BY <1>2, <2>1 DEF Judgements
  <2>3. QED
    BY <1>0, <1>2, <2>2 DEF ItemHas
<1>3. CASE ~s.ok /\ here /\ item.users = <<>>
  <2>1. r = [s EXCEPT !.ok = TRUE]
    BY <1>0, <1>3 DEF JudgeItem
  <2>2. r \in Judgements /\ r.ok
    BY <2>1, Zenon DEF Judgements
  <2>3. QED
    BY <1>0, <1>3, <2>2 DEF ItemHas
<1>4. CASE ~s.ok /\ here /\ item.users # <<>>
  <2>1. PICK t : t = Noted(s)
    OBVIOUS
  <2>2. t \in Judgements /\ t.ok = s.ok /\ t.poss
    BY <2>1, Zenon DEF Noted, Judgements
  <2>3. r = AllNames(file, n, Inner, user, item.users, t)
    BY <1>0, <1>4, <2>1 DEF JudgeItem
  <2>4. PICK names, L : names = item.users /\ names \in Seq(L)
    BY Zenon DEF GroupItem
  <2>7. r = AllNames(file, n, Inner, user, names, t)
    BY <2>3, <2>4
  <2>9. t \in Judgements
    BY <2>2
  <2>10. names \in Seq(L)
    BY <2>4
  <2>8. /\ r \in Judgements
        /\ r.ok <=> t.ok \/ \E i \in DOMAIN names : NameHas(file, n, Inner, user, names[i])
        /\ Plain(file, n, names) => r.poss = t.poss
    BY <2>7, <2>9, <2>10, NamesAre
  <2>5. /\ r \in Judgements
        /\ r.ok <=> t.ok \/ \E i \in DOMAIN item.users :
                               NameHas(file, n, Inner, user, item.users[i])
        /\ Plain(file, n, item.users) => r.poss = t.poss
    BY <2>4, <2>8
  <2>6. QED
    BY <1>0, <1>4, <2>2, <2>5, Zenon DEF ItemHas
<1>5. QED
  BY <1>1, <1>2, <1>3, <1>4

\* The items of a group, one after the other.
LEMMA ItemsAre ==
    ASSUME NEW file, NEW n, NEW Inner, LookedUp(file, n, Inner), NEW user, NEW from,
           NEW items \in Seq(GroupItem),
           NEW r, r = AllItems(file, n, Inner, user, from, items, Nothing)
    PROVE  /\ r \in Judgements
           /\ r.ok <=> \E i \in DOMAIN items :
                           ItemHas(file, n, Inner, user, from, items[i])
           /\ (\A i \in DOMAIN items : Plain(file, n, items[i].users)) /\ ~r.ok =>
                  /\ r.poss <=> \E i \in DOMAIN items : AddressIn(items[i].addresses, from)
                  /\ ~r.poss /\ items # <<>> => r.reason = "ip_mask"
<1> DEFINE D == DOMAIN items
           step(t, i) == JudgeItem(file, n, Inner, user, from, t, items[i])
           has(i) == ItemHas(file, n, Inner, user, from, items[i])
           plain(i) == Plain(file, n, items[i].users)
           here(i) == AddressIn(items[i].addresses, from)
           G == [p \in Judgements \X D |-> step(p[1], p[2])]
           f == CHOOSE f : f = ByItems(file, n, Inner, user, from, items, Nothing, f)
<1>0. \A i \in D : items[i] \in GroupItem
  OBVIOUS
<1>1. \A t \in Judgements : \A i \in D :
          /\ step(t, i) \in Judgements
          /\ step(t, i).ok <=> t.ok \/ has(i)
          /\ plain(i) /\ ~step(t, i).ok =>
                 /\ step(t, i).poss <=> t.poss \/ here(i)
                 /\ ~step(t, i).poss => step(t, i).reason = "ip_mask"
  BY <1>0, JudgeItemIs
<1>2. \A S \in SUBSET D : S # {} => Max(S) \in S
  BY MaxIn
<1>9. Nothing \in Judgements /\ ~Nothing.ok /\ ~Nothing.poss
  BY DEF Nothing, Judgements
<1>3. f = ByItems(file, n, Inner, user, from, items, Nothing, f)
  <2> HIDE DEF step
  <2>1. G \in [Judgements \X D -> Judgements]
    BY <1>1
  <2> HIDE DEF G
  <2>7. /\ IsFiniteSet(DOMAIN items) /\ Chooses(Latest(items), DOMAIN items)
        /\ \A S \in SUBSET DOMAIN items : Latest(items)[S] = Max(S)
    BY MaxIn
  <2>8. PICK g : FoldOf(g, DOMAIN items, Latest(items), Judgements, Nothing, G)
    BY <1>9, <2>1, <2>7, FoldExists, Zenon
  <2> HIDE DEF D
  <2>2. /\ g \in [SUBSET D -> Judgements]
        /\ \A S \in SUBSET D :
               g[S] = IF S = {} THEN Nothing ELSE G[<<g[S \ {Max(S)}], Max(S)>>]
    BY <2>7, <2>8, Zenon DEF FoldOf, D
  <2>3. ASSUME NEW S \in SUBSET D, S # {}
        PROVE  G[<<g[S \ {Max(S)}], Max(S)>>] = step(g[S \ {Max(S)}], Max(S))
    <3>1. g[S \ {Max(S)}] \in Judgements /\ Max(S) \in D
      BY <1>2, <2>2, <2>3
    <3>2. QED
      BY <3>1 DEF G
  <2>4. g = [S \in SUBSET D |-> IF S = {} THEN Nothing ELSE step(g[S \ {Max(S)}], Max(S))]
    <3>1. \A S \in SUBSET D : g[S] = IF S = {} THEN Nothing ELSE step(g[S \ {Max(S)}], Max(S))
      BY <2>2, <2>3, Zenon
    <3>2. QED
      BY <2>2, <3>1
  <2>5. g = ByItems(file, n, Inner, user, from, items, Nothing, g)
    BY <2>4, Zenon DEF ByItems, step, D
  <2>6. QED
    BY <2>5
<1>4. \A S \in SUBSET D : f[S] = IF S = {} THEN Nothing ELSE step(f[S \ {Max(S)}], Max(S))
  <2> HIDE DEF f
  <2>1. QED
    BY <1>3, Zenon DEF ByItems
<1>5. r = f[D]
  BY Zenon DEF AllItems
<1>11. items # <<>> => D # {}
  <2>1. D = {} => Len(items) = 0
    OBVIOUS
  <2>2. QED
    BY <2>1
<1> HIDE DEF D, step, has, plain, here, G, f
<1> DEFINE T == {S \in SUBSET D :
                    /\ f[S] \in Judgements
                    /\ f[S].ok <=> \E i \in S : has(i)
                    /\ (\A i \in S : plain(i)) /\ ~f[S].ok =>
                           /\ f[S].poss <=> \E i \in S : here(i)
                           /\ ~f[S].poss /\ S # {} => f[S].reason = "ip_mask"}
<1>6. {} \in T
  BY <1>4, <1>9, Zenon
<1>7. ASSUME NEW S \in SUBSET D, S # {}, S \ {Max(S)} \in T
      PROVE  S \in T
  <2>1. PICK t, i : t = f[S \ {Max(S)}] /\ i = Max(S)
    OBVIOUS
  <2>2. i \in S /\ i \in D /\ t \in Judgements /\ f[S] = step(t, i)
    BY <1>2, <1>4, <1>7, <2>1
  <2>3. /\ f[S] \in Judgements
        /\ f[S].ok <=> t.ok \/ has(i)
        /\ plain(i) /\ ~f[S].ok =>
               /\ f[S].poss <=> t.poss \/ here(i)
               /\ ~f[S].poss => f[S].reason = "ip_mask"
    BY <1>1, <2>2
  <2>4. /\ t.ok <=> \E j \in S \ {i} : has(j)
        /\ (\A j \in S \ {i} : plain(j)) /\ ~t.ok => (t.poss <=> \E j \in S \ {i} : here(j))
    BY <1>7, <2>1
  <2>5. f[S].ok <=> \E j \in S : has(j)
    BY <2>2, <2>3, <2>4
  <2>6. (\A j \in S : plain(j)) /\ ~f[S].ok =>
               /\ f[S].poss <=> \E j \in S : here(j)
               /\ ~f[S].poss => f[S].reason = "ip_mask"
    BY <2>2, <2>3, <2>4
  <2>7. QED
    BY <2>3, <2>5, <2>6
<1>8. D \in T
  <2> HIDE DEF T
  <2>1. SUBSET D \subseteq T
    BY <1>6, <1>7, SeqInduction, Zenon DEF D
  <2>2. QED
    BY <2>1
<1>10. /\ r \in Judgements /\ (r.ok <=> \E i \in D : has(i))
       /\ (\A i \in D : plain(i)) /\ ~r.ok =>
                  /\ r.poss <=> \E i \in D : here(i)
                  /\ ~r.poss /\ items # <<>> => r.reason = "ip_mask"
  BY <1>5, <1>8, <1>11
<1>12. QED
  BY <1>10 DEF D, has, plain, here

\* What a group that may refer to the first n ones says.
LEMMA JudgedAre ==
    ASSUME NEW file, NEW n, NEW Inner, LookedUp(file, n, Inner), NEW user, NEW from,
           NEW items \in Seq(GroupItem),
           NEW r, r = Judged(items, file, n, Inner, user, from)
    PROVE  /\ r \in Judgements /\ (r.ok <=> r.reason = "ok")
           /\ r.ok <=> \E i \in DOMAIN items :
                           ItemHas(file, n, Inner, user, from, items[i])
           /\ (\A i \in DOMAIN items : Plain(file, n, items[i].users)) /\ ~r.ok /\ items # <<>> =>
                  (r.reason = "not_member" <=>
                      \E i \in DOMAIN items : AddressIn(items[i].addresses, from))
<1>1. PICK s : s = AllItems(file, n, Inner, user, from, items, Nothing)
  OBVIOUS
<1>2. /\ s \in Judgements
      /\ s.ok <=> \E i \in DOMAIN items : ItemHas(file, n, Inner, user, from, items[i])
      /\ (\A i \in DOMAIN items : Plain(file, n, items[i].users)) /\ ~s.ok =>
                  /\ s.poss <=> \E i \in DOMAIN items : AddressIn(items[i].addresses, from)
                  /\ ~s.poss /\ items # <<>> => s.reason = "ip_mask"
  BY <1>1, ItemsAre
<1>3. r = Verdict(s)
  BY <1>1, JudgedIs, Zenon
<1>4. /\ r \in Judgements /\ r.ok = s.ok
      /\ r.reason = IF s.ok THEN "ok" ELSE IF s.poss THEN "not_member" ELSE s.reason
  BY <1>2, <1>3 DEF Verdict, Judgements
<1>5. s.ok \/ s.reason # "ok"
  BY <1>2 DEF Judgements
<1>6. r.ok <=> r.reason = "ok"
  BY <1>4, <1>5
<1>7. QED
  BY <1>2, <1>4, <1>6

\* A name refers to one of the first n groups, or to none.
LEMMA DefinedIs ==
    ASSUME NEW file, NEW n \in Nat, NEW name
    PROVE  Defined(file, n, name) \in 0 .. n
<1> DEFINE S == {0} \cup {i \in 1 .. n : file[i].name = name}
<1>1. S \subseteq 0 .. n /\ S # {} /\ S \in SUBSET Int
  OBVIOUS
<1>2. IsFiniteSet(S)
  <2>1. IsFiniteSet(0 .. n)
    BY FS_Interval
  <2> HIDE DEF S
  <2>2. QED
    BY <1>1, <2>1, FS_Subset, Zenon
<1>3. Defined(file, n, name) = CHOOSE x \in S : \A y \in S : x >= y
  BY Zenon DEF Defined, Max
<1> HIDE DEF S
<1>4. PICK m \in S : \A y \in S : y <= m
  BY <1>1, <1>2, LargestOf
<1>5. \E x \in S : \A y \in S : x >= y
  <2>1. \A y \in S : m >= y
    BY <1>1, <1>4
  <2>2. QED
    BY <2>1
<1>6. Defined(file, n, name) \in S
  BY <1>3, <1>5
<1>7. QED
  BY <1>1, <1>6, Zenon

\* A name that is defined stands before the group it is used in.
LEMMA AllKnown ==
    ASSUME NEW file, NEW inner \in Seq(Judgements)
    PROVE  LookedUp(file, Len(inner), inner)
<1>1. ASSUME NEW name, Defined(file, Len(inner), name) # 0
      PROVE  inner[Defined(file, Len(inner), name)] \in Judgements
  <2>1. PICK d : d = Defined(file, Len(inner), name)
    OBVIOUS
  <2>2. d \in 1 .. Len(inner)
    BY <1>1, <2>1, DefinedIs
  <2>3. QED
    BY <2>1, <2>2
<1>2. QED
  BY <1>1 DEF LookedUp

\* What the groups of the file say, one after the other.
GroupStep(file, user, from, inner, group) ==
    Append(inner, Judged(group.items, file, Len(inner), inner, user, from))

ByGroups(file, user, from, f) ==
    [S \in SUBSET DOMAIN file |->
        IF S = {} THEN <<>>
        ELSE GroupStep(file, user, from, f[S \ {Max(S)}], file[Max(S)])]

OfFile(file, user, from) == (CHOOSE f : f = ByGroups(file, user, from, f))[DOMAIN file]

\* InGroup, by what the groups of the file say in turn.
LEMMA InGroupIs ==
    ASSUME NEW items, NEW file, NEW user, NEW from
    PROVE  InGroup(items, file, user, from) =
               Judged(items, file, Len(file), OfFile(file, user, from), user, from).reason
BY Zenon DEF InGroup, OfFile, ByGroups, GroupStep, FoldLeft, MapThenFoldSet

LEMMA GroupStepIs ==
    ASSUME NEW file, NEW user, NEW from, NEW inner \in Seq(Judgements), NEW group \in Group,
           NEW r, r = GroupStep(file, user, from, inner, group)
    PROVE  /\ r \in Seq(Judgements) /\ Len(r) = Len(inner) + 1
           /\ \A i \in 1 .. Len(inner) : r[i] = inner[i]
           /\ r[Len(inner) + 1] = Judged(group.items, file, Len(inner), inner, user, from)
<1>1. PICK j : j = Judged(group.items, file, Len(inner), inner, user, from)
  OBVIOUS
<1>2. LookedUp(file, Len(inner), inner)
  BY AllKnown
<1>3. group.items \in Seq(GroupItem)
  BY DEF Group, Items
<1>4. j \in Judgements
  BY <1>1, <1>2, <1>3, JudgedAre
<1>5. r = Append(inner, j)
  BY <1>1 DEF GroupStep
<1>6. QED
  BY <1>1, <1>4, <1>5

\* Each of the groups was judged by what those before it say.
JudgedInTurn(file, user, from, o) ==
    \A i \in 1 .. Len(file) : \E inner \in Seq(Judgements) :
        /\ Len(inner) = i - 1 /\ \A d \in 1 .. i - 1 : inner[d] = o[d]
        /\ o[i] = Judged(file[i].items, file, i - 1, inner, user, from)

\* The groups of the file are judged in turn.
LEMMA OfFileIs ==
    ASSUME NEW file \in Seq(Group), NEW user, NEW from, NEW o, o = OfFile(file, user, from)
    PROVE  /\ o \in Seq(Judgements) /\ Len(o) = Len(file)
           /\ JudgedInTurn(file, user, from, o)
<1> DEFINE D == DOMAIN file
           V == Seq(Judgements)
           step(t, i) == GroupStep(file, user, from, t, file[i])
           G == [p \in V \X D |-> step(p[1], p[2])]
           f == CHOOSE f : f = ByGroups(file, user, from, f)
<1>1. \A t \in V : \A i \in D :
          /\ step(t, i) \in V /\ Len(step(t, i)) = Len(t) + 1
          /\ \A d \in 1 .. Len(t) : step(t, i)[d] = t[d]
          /\ step(t, i)[Len(t) + 1] = Judged(file[i].items, file, Len(t), t, user, from)
  <2>1. \A i \in D : file[i] \in Group
    OBVIOUS
  <2>2. QED
    BY <2>1, GroupStepIs
<1>2. \A S \in SUBSET D : S # {} => Max(S) \in S
  BY MaxIn
<1>3. f = ByGroups(file, user, from, f)
  <2> HIDE DEF step
  <2>1. G \in [V \X D -> V]
    BY <1>1
  <2>6. <<>> \in V
    OBVIOUS
  <2> HIDE DEF G, V
  <2>7. /\ IsFiniteSet(DOMAIN file) /\ Chooses(Latest(file), DOMAIN file)
        /\ \A S \in SUBSET DOMAIN file : Latest(file)[S] = Max(S)
    BY MaxIn
  <2>8. PICK g : FoldOf(g, DOMAIN file, Latest(file), V, <<>>, G)
    BY <2>1, <2>6, <2>7, FoldExists, Zenon
  <2> HIDE DEF D
  <2>2. /\ g \in [SUBSET D -> V]
        /\ \A S \in SUBSET D :
               g[S] = IF S = {} THEN <<>> ELSE G[<<g[S \ {Max(S)}], Max(S)>>]
    BY <2>7, <2>8 DEF FoldOf, D
  <2>3. ASSUME NEW S \in SUBSET D, S # {}
        PROVE  G[<<g[S \ {Max(S)}], Max(S)>>] = step(g[S \ {Max(S)}], Max(S))
    <3>1. g[S \ {Max(S)}] \in V /\ Max(S) \in D
      BY <1>2, <2>2, <2>3
    <3>2. QED
      BY <3>1 DEF G
  <2>4. g = [S \in SUBSET D |-> IF S = {} THEN <<>> ELSE step(g[S \ {Max(S)}], Max(S))]
    <3>1. \A S \in SUBSET D : g[S] = IF S = {} THEN <<>> ELSE step(g[S \ {Max(S)}], Max(S))
      BY <2>2, <2>3, Zenon
    <3>2. QED
      BY <2>2, <3>1
  <2>5. g = ByGroups(file, user, from, g)
    BY <2>4, Zenon DEF ByGroups, step, D
  <2>9. QED
    BY <2>5
<1>4. \A S \in SUBSET D : f[S] = IF S = {} THEN <<>> ELSE step(f[S \ {Max(S)}], Max(S))
  <2> HIDE DEF f
  <2>1. QED
    BY <1>3, Zenon DEF ByGroups
<1>5. o = f[D]
  BY Zenon DEF OfFile
<1> DEFINE g(n) == f[1 .. n]
<1>6. D = 1 .. Len(file) /\ Len(file) \in Nat
  OBVIOUS
<1> HIDE DEF D, step, G, f
<1>7. g(0) = <<>>
  <2>1. 1 .. 0 = {}
    OBVIOUS
  <2>2. QED
    BY <1>4, <2>1, Zenon
<1>8. ASSUME NEW n \in Nat, n + 1 <= Len(file)
      PROVE  g(n + 1) = step(g(n), n + 1) /\ n + 1 \in D
  <2> DEFINE S == 1 .. n + 1
  <2>1. S \in SUBSET D /\ S # {} /\ n + 1 \in S
    <3>1. n + 1 \in S
      OBVIOUS
    <3>2. \A x \in S : x \in 1 .. Len(file)
      BY <1>6, <1>8
    <3>3. QED
      BY <1>6, <3>1, <3>2, Zenon
  <2>2. Max(S) = n + 1
    <3>1. \A x \in S : (\A y \in S : x >= y) <=> x = n + 1
      OBVIOUS
    <3> HIDE DEF S
    <3>2. QED
      BY <2>1, <3>1, Zenon DEF Max
  <2>3. S \ {n + 1} = 1 .. n
    OBVIOUS
  <2>4. f[S] = step(f[S \ {Max(S)}], Max(S))
    BY <1>4, <2>1, Zenon
  <2>5. QED
    BY <1>6, <1>8, <2>1, <2>2, <2>3, <2>4, Zenon
<1> DEFINE Judge(i) == Judged(file[i].items, file, i - 1, g(i - 1), user, from)
           N == {n \in Nat : n <= Len(file) =>
                    /\ g(n) \in V /\ Len(g(n)) = n
                    /\ \A i \in 1 .. n : g(n)[i] = Judge(i)}
<1>9. 0 \in N
  <2>1. g(0) \in V /\ Len(g(0)) = 0
    <3>1. <<>> \in V /\ Len(<<>>) = 0
      OBVIOUS
    <3> HIDE DEF V, g
    <3>2. QED
      BY <1>7, <3>1
  <2>2. \A i \in 1 .. 0 : FALSE
    OBVIOUS
  <2> HIDE DEF V, g, Judge
  <2>3. QED
    BY <2>1, <2>2
<1>10. ASSUME NEW n \in Nat, n \in N
       PROVE  n + 1 \in N
  <2> SUFFICES ASSUME n + 1 <= Len(file)
               PROVE  /\ g(n + 1) \in V /\ Len(g(n + 1)) = n + 1
                      /\ \A i \in 1 .. n + 1 : g(n + 1)[i] = Judge(i)
    OBVIOUS
  <2>1. /\ g(n) \in V /\ Len(g(n)) = n
        /\ \A i \in 1 .. n : g(n)[i] = Judge(i)
    BY <1>6, <1>10
  <2> HIDE DEF N, g, Judge, V
  <2>2. PICK t, u : t = g(n) /\ u = g(n + 1)
    OBVIOUS
  <2>3. u = step(t, n + 1) /\ n + 1 \in D
    BY <1>8, <2>2
  <2>4. /\ u \in V /\ Len(u) = n + 1
        /\ \A d \in 1 .. n : u[d] = t[d]
        /\ u[n + 1] = Judged(file[n + 1].items, file, n, t, user, from)
    BY <1>1, <2>1, <2>2, <2>3
  <2>5. u[n + 1] = Judge(n + 1)
    <3>1. n + 1 - 1 = n
      OBVIOUS
    <3>2. QED
      BY <2>2, <2>4, <3>1 DEF Judge
  <2>6. \A i \in 1 .. n + 1 : u[i] = Judge(i)
    BY <2>1, <2>2, <2>4, <2>5
  <2>7. QED
    BY <2>2, <2>4, <2>6
<1>11. \A n \in 0 .. Len(file) : /\ g(n) \in V /\ Len(g(n)) = n
                                /\ \A i \in 1 .. n : g(n)[i] = Judge(i)
  <2> HIDE DEF N
  <2>1. Nat \subseteq N
    BY <1>9, <1>10, SetInduction
  <2> HIDE DEF g, Judge, V
  <2>2. QED
    BY <1>6, <2>1 DEF N
<1>12. o = g(Len(file))
  BY <1>5, <1>6
<1> HIDE DEF g, N
<1>13. o \in V /\ Len(o) = Len(file) /\ \A i \in 1 .. Len(file) : o[i] = Judge(i)
  <2> HIDE DEF V, Judge
  <2>1. QED
    BY <1>6, <1>11, <1>12
<1>14. ASSUME NEW i \in 1 .. Len(file)
       PROVE  \E inner \in Seq(Judgements) :
                  /\ Len(inner) = i - 1 /\ \A d \in 1 .. i - 1 : inner[d] = o[d]
                  /\ o[i] = Judged(file[i].items, file, i - 1, inner, user, from)
  <2>1. PICK inner : inner = g(i - 1)
    OBVIOUS
  <2>2. i - 1 \in 0 .. Len(file) /\ \A d \in 1 .. i - 1 : d \in 1 .. Len(file)
    BY <1>6
  <2>3. o[i] = Judged(file[i].items, file, i - 1, inner, user, from)
    BY <1>13, <2>1
  <2> HIDE DEF Judge
  <2>4. /\ inner \in Seq(Judgements) /\ Len(inner) = i - 1
        /\ \A d \in 1 .. i - 1 : inner[d] = Judge(d)
    BY <1>11, <2>1, <2>2
  <2>5. \A d \in 1 .. i - 1 : inner[d] = o[d]
    BY <1>13, <2>2, <2>4
  <2>6. QED
    BY <2>3, <2>4, <2>5
<1>15. QED
  BY <1>13, <1>14 DEF JudgedInTurn

\* The user, at the address, is in some item; in[i] for the i-th group before it.
Holder(file, user, from, its, n, in) ==
    \E item \in ToSet(its) :
        /\ AddressIn(item.addresses, from)
        /\ \/ item.users = <<>>
           \/ \E name \in ToSet(item.users) :
                 IF Defined(file, n, name) # 0 THEN in[Defined(file, n, name)]
                 ELSE NameMatches(name, user)

ByHolders(file, user, from, in) ==
    [i \in 1 .. Len(file) |-> Holder(file, user, from, file[i].items, i - 1, in)]

InFile(file, user, from) == CHOOSE in : in = ByHolders(file, user, from, in)

\* Belongs, by who is in the groups of the file.
LEMMA BelongsIs ==
    ASSUME NEW items, NEW file, NEW user, NEW from
    PROVE  Belongs(items, file, user, from) =
               Holder(file, user, from, items, Len(file), InFile(file, user, from))
BY Zenon DEF Belongs, Holder, InFile, ByHolders

\* To be in some item is to be let in by it, if that is so of the groups before.
LEMMA HolderIs ==
    ASSUME NEW file, NEW n \in Nat, NEW in, NEW Inner, \A d \in 1 .. n : in[d] <=> Inner[d].ok,
           NEW user, NEW from, NEW its
    PROVE  Holder(file, user, from, its, n, in) <=>
               \E i \in DOMAIN its : ItemHas(file, n, Inner, user, from, its[i])
<1>1. ASSUME NEW name
      PROVE  (IF Defined(file, n, name) # 0 THEN in[Defined(file, n, name)]
              ELSE NameMatches(name, user)) <=> NameHas(file, n, Inner, user, name)
  <2>1. PICK d : d = Defined(file, n, name)
    OBVIOUS
  <2>2. d # 0 => d \in 1 .. n
    BY <2>1, DefinedIs
  <2>3. d # 0 => (in[d] <=> Inner[d].ok)
    BY <2>2
  <2>4. QED
    BY <2>1, <2>3, Zenon DEF NameHas
<1> DEFINE Has(item) == /\ AddressIn(item.addresses, from)
                        /\ \/ item.users = <<>>
                           \/ \E name \in ToSet(item.users) : NameHas(file, n, Inner, user, name)
<1>2. Holder(file, user, from, its, n, in) <=> \E item \in ToSet(its) : Has(item)
  BY <1>1, Zenon DEF Holder
<1>3. ASSUME NEW item
      PROVE  Has(item) <=> ItemHas(file, n, Inner, user, from, item)
  BY Zenon DEF ItemHas, ToSet
<1> HIDE DEF Has
<1>4. QED
  BY <1>2, <1>3, Zenon DEF ToSet

\* One group of the file lets in those who belong to it, if those before it do.
LEMMA OneInFile ==
    ASSUME NEW file \in Seq(Group), NEW user, NEW from, NEW o, o = OfFile(file, user, from),
           NEW i \in 1 .. Len(file), NEW in, \A d \in 1 .. i - 1 : in[d] <=> o[d].ok
    PROVE  Holder(file, user, from, file[i].items, i - 1, in) <=> o[i].ok
<1>1. PICK inner \in Seq(Judgements) :
          /\ Len(inner) = i - 1 /\ \A d \in 1 .. i - 1 : inner[d] = o[d]
          /\ o[i] = Judged(file[i].items, file, i - 1, inner, user, from)
  <2>1. JudgedInTurn(file, user, from, o)
    BY OfFileIs
  <2>2. QED
    BY <2>1, Zenon DEF JudgedInTurn
<1>2. PICK its : its = file[i].items
  OBVIOUS
<1>9. PICK n : n = i - 1
  OBVIOUS
<1>10. n \in Nat /\ its \in Seq(GroupItem)
  <2>1. file[i] \in Group /\ n \in Nat
    BY <1>9
  <2>2. QED
    BY <1>2, <2>1 DEF Group, Items
<1>3. \A d \in 1 .. n : in[d] <=> inner[d].ok
  BY <1>1, <1>9
<1>4. LookedUp(file, n, inner)
  BY <1>1, <1>9, AllKnown
<1>5. o[i] = Judged(its, file, n, inner, user, from)
  BY <1>1, <1>2, <1>9
<1>6. o[i].ok <=> \E k \in DOMAIN its : ItemHas(file, n, inner, user, from, its[k])
  BY <1>10, <1>4, <1>5, JudgedAre
<1>7. Holder(file, user, from, its, n, in) <=>
          \E k \in DOMAIN its : ItemHas(file, n, inner, user, from, its[k])
  BY <1>3, <1>10, HolderIs
<1>8. QED
  BY <1>2, <1>6, <1>7, <1>9

\* Who belongs to the groups of the file.
LEMMA InFileIs ==
    ASSUME NEW file \in Seq(Group), NEW user, NEW from, NEW o, o = OfFile(file, user, from),
           NEW in, in = InFile(file, user, from)
    PROVE  \A i \in 1 .. Len(file) : in[i] <=> o[i].ok
<1> DEFINE w == [i \in 1 .. Len(file) |-> o[i].ok]
           holds(i, v) == Holder(file, user, from, file[i].items, i - 1, v)
<1>1. Len(file) \in Nat /\ o \in Seq(Judgements) /\ Len(o) = Len(file)
  BY OfFileIs
<1>2. \A i \in 1 .. Len(file) : o[i].ok \in BOOLEAN
  BY <1>1 DEF Judgements
<1>3. \A v : \A i \in 1 .. Len(file) :
          (\A d \in 1 .. i - 1 : v[d] <=> o[d].ok) => (holds(i, v) <=> o[i].ok)
  BY OneInFile, Zenon
<1>4. \A v : \A i : holds(i, v) \in BOOLEAN
  BY Zenon DEF Holder
<1> HIDE DEF holds
<1>5. \A i \in 1 .. Len(file) : w[i] = holds(i, w)
  <2>1. ASSUME NEW i \in 1 .. Len(file)
        PROVE  w[i] = holds(i, w)
    <3>1. \A d \in 1 .. i - 1 : d \in 1 .. Len(file)
      BY <1>1
    <3>2. \A d \in 1 .. Len(file) : w[d] = o[d].ok
      OBVIOUS
    <3> HIDE DEF w
    <3>3. \A d \in 1 .. i - 1 : w[d] <=> o[d].ok
      BY <3>1, <3>2
    <3>4. holds(i, w) <=> o[i].ok
      BY <1>3, <3>3
    <3>5. QED
      BY <1>2, <1>4, <3>2, <3>4
  <2>2. QED
    BY <2>1
<1>6. w = ByHolders(file, user, from, w)
  <2>1. w = [i \in 1 .. Len(file) |-> holds(i, w)]
    BY <1>5
  <2>2. QED
    BY <2>1, Zenon DEF ByHolders, holds
<1> HIDE DEF w
<1>7. in = ByHolders(file, user, from, in)
  BY <1>6 DEF InFile
<1>8. \A i \in 1 .. Len(file) : in[i] = holds(i, in)
  BY <1>7, Zenon DEF ByHolders, holds
<1> DEFINE N == {n \in Nat : \A i \in 1 .. Len(file) : i <= n => (in[i] <=> o[i].ok)}
<1>9. 0 \in N
  OBVIOUS
<1>10. ASSUME NEW n \in Nat, n \in N
       PROVE  n + 1 \in N
  <2>1. ASSUME NEW i \in 1 .. Len(file), i <= n + 1
        PROVE  in[i] <=> o[i].ok
    <3>1. \A d \in 1 .. i - 1 : d \in 1 .. Len(file) /\ d <= n
      BY <1>1, <2>1
    <3>2. \A d \in 1 .. i - 1 : in[d] <=> o[d].ok
      BY <1>10, <3>1
    <3>3. holds(i, in) <=> o[i].ok
      BY <1>3, <3>2
    <3>4. QED
      BY <1>8, <3>3
  <2>2. QED
    BY <2>1
<1>11. Len(file) \in N
  <2> HIDE DEF N
  <2>1. Nat \subseteq N
    BY <1>9, <1>10, SetInduction
  <2>2. QED
    BY <1>1, <2>1
<1>12. QED
  BY <1>11

\* The walk through the items and names of a group, and through the groups among them,
\* lets in those who belong to it and nobody else (HTAA_userAndInetInGroup,
\* HTGroup.c:676-737).  If none of the names is that of a group, those kept out are told
\* that another name might do if and only if some item is for where they are.
THEOREM GroupTheorem ==
    ASSUME NEW file \in Seq(Group), NEW items \in Seq(GroupItem), NEW user, NEW from,
           NEW says, says = InGroup(items, file, user, from)
    PROVE  /\ says = "ok" <=> Belongs(items, file, user, from)
           /\ says \in {"ok", "not_member", "ip_mask"}
           /\ (\A i \in DOMAIN items : Plain(file, Len(file), items[i].users)) /\ says # "ok"
              /\ items # <<>> =>
                  (says = "not_member" <=>
                      \E i \in DOMAIN items : AddressIn(items[i].addresses, from))
<1> DEFINE n == Len(file)
<1>1. PICK o : o = OfFile(file, user, from)
  OBVIOUS
<1>2. n \in Nat /\ o \in Seq(Judgements) /\ Len(o) = n
  BY <1>1, OfFileIs
<1>3. LookedUp(file, n, o)
  BY <1>2, AllKnown
<1>4. PICK in : in = InFile(file, user, from)
  OBVIOUS
<1>5. \A d \in 1 .. n : in[d] <=> o[d].ok
  BY <1>1, <1>4, InFileIs
<1>6. PICK r : r = Judged(items, file, n, o, user, from)
  OBVIOUS
<1>7. says = r.reason
  BY <1>1, <1>6, InGroupIs
<1>8. Belongs(items, file, user, from) = Holder(file, user, from, items, n, in)
  BY <1>4, BelongsIs
<1> HIDE DEF n
<1>9. Holder(file, user, from, items, n, in) <=>
          \E i \in DOMAIN items : ItemHas(file, n, o, user, from, items[i])
  BY <1>2, <1>5, HolderIs
<1>10. /\ r \in Judgements /\ (r.ok <=> r.reason = "ok")
       /\ r.ok <=> \E i \in DOMAIN items : ItemHas(file, n, o, user, from, items[i])
       /\ (\A i \in DOMAIN items : Plain(file, n, items[i].users)) /\ ~r.ok /\ items # <<>> =>
                  (r.reason = "not_member" <=>
                      \E i \in DOMAIN items : AddressIn(items[i].addresses, from))
  BY <1>3, <1>6, JudgedAre
<1>11. says = "ok" <=> Belongs(items, file, user, from)
  BY <1>7, <1>8, <1>9, <1>10
<1>12. says \in {"ok", "not_member", "ip_mask"}
  BY <1>7, <1>10 DEF Judgements
<1>13. QED
  BY <1>7, <1>10, <1>11, <1>12 DEF n

\* The mask of a protection, and what it says of who asks.
TheMask(setup, method) == CHOOSE m \in Masks(setup, method) : TRUE

Member(group, setup, who) == Belongs(group, setup.groups, User(setup, who), who.client)

---------------------------------------------------------------------------
(***************************************************************************)
(* Protections.  What check_authorization says is what MayHave says.       *)
(***************************************************************************)

\* A protection, and the groups of an access control list.
SetupOf(conf, prot) == conf.setups[prot]

EntriesOf(conf, dir, path, method) == Entries(conf.lists[dir], path, method)

\* A protection as the configuration has it.
IsSetup(setup) ==
    /\ setup.groups \in Seq(Group)
    /\ \A m \in DOMAIN setup.masks : setup.masks[m] \in Items

LEMMA SetupIs ==
    ASSUME NEW conf, Configured(conf), NEW prot \in DOMAIN conf.setups
    PROVE  IsSetup(conf.setups[prot])
<1>1. PICK setup : setup = conf.setups[prot]
  OBVIOUS
<1>2. /\ setup.groups \in Seq(Group)
      /\ \A m \in DOMAIN setup.masks : setup.masks[m] \in Items
  BY <1>1, Zenon DEF Configured
<1>3. QED
  BY <1>1, <1>2 DEF IsSetup

\* A group lets in who asks if and only if he belongs to it.
LEMMA SaysMeans ==
    ASSUME NEW setup, IsSetup(setup), NEW who, NEW group \in Seq(GroupItem)
    PROVE  (Says(group, setup, who) = "ok") <=> Member(group, setup, who)
<1>1. PICK file : file = setup.groups
  OBVIOUS
<1>2. file \in Seq(Group)
  BY <1>1 DEF IsSetup
<1>3. PICK user, from : user = User(setup, who) /\ from = who.client
  OBVIOUS
<1>4. PICK says : says = InGroup(group, file, user, from)
  OBVIOUS
<1>5. says = "ok" <=> Belongs(group, file, user, from)
  BY <1>2, <1>4, GroupTheorem
<1>6. QED
  BY <1>1, <1>3, <1>4, <1>5 DEF Member, Says

\* All that it may say.
LEMMA SaysIn ==
    ASSUME NEW setup, IsSetup(setup), NEW who, NEW group \in Seq(GroupItem)
    PROVE  Says(group, setup, who) \in {"ok", "not_member", "ip_mask"}
<1>1. PICK file : file = setup.groups
  OBVIOUS
<1>2. file \in Seq(Group)
  BY <1>1 DEF IsSetup
<1>3. PICK user, from : user = User(setup, who) /\ from = who.client
  OBVIOUS
<1>4. PICK says : says = InGroup(group, file, user, from)
  OBVIOUS
<1>5. says \in {"ok", "not_member", "ip_mask"}
  BY <1>2, <1>4, GroupTheorem
<1>6. QED
  BY <1>1, <1>3, <1>4, <1>5 DEF Says

\* Masks and entries are lists of items.
LEMMA TheMaskIs ==
    ASSUME NEW setup, IsSetup(setup), NEW method, Masks(setup, method) # {}
    PROVE  TheMask(setup, method) \in Seq(GroupItem) /\ TheMask(setup, method) # <<>>
<1>1. \A m \in DOMAIN setup.masks : setup.masks[m] \in Items
  BY DEF IsSetup
<1>2. \A m \in Masks(setup, method) : m \in Items
  BY <1>1, Zenon DEF Masks
<1>3. TheMask(setup, method) \in Masks(setup, method)
  BY Zenon DEF TheMask
<1>4. QED
  BY <1>2, <1>3 DEF Items

LEMMA EntriesAre ==
    ASSUME NEW conf, Configured(conf), NEW dir \in DOMAIN conf.lists, NEW path, NEW method
    PROVE  \A group \in Entries(conf.lists[dir], path, method) : group \in Seq(GroupItem)
<1>1. \A e \in ToSet(conf.lists[dir]) : e.group \in Items
  BY Zenon DEF Configured
<1>2. \A group \in Entries(conf.lists[dir], path, method) : group \in Items
  BY <1>1, Zenon DEF Entries
<1>3. QED
  BY <1>2 DEF Items

\* The reasons of the check for letting somebody in.
Yes == {"ok", "ok_gateway"}

\* The mask lets in who asks.
Masked(setup, method, who) ==
    Masks(setup, method) # {} /\ Member(TheMask(setup, method), setup, who)

\* The masks of a protection.
LEMMA ByMaskIs ==
    ASSUME NEW conf, NEW prot, NEW setup, setup = SetupOf(conf, prot), IsSetup(setup),
           NEW method, NEW who,
           NEW granted \in Yes, NEW d, d = ByMask(conf, prot, method, who, granted)
    PROVE  /\ d.prot = prot /\ d.reason \in {granted, "no_acl", "not_member", "ip_mask"}
           /\ (d.reason = granted) <=> Masked(setup, method, who)
           /\ (d.reason = "no_acl") <=> (Masks(setup, method) = {})
           /\ d.reason \in {"not_member", "ip_mask"} =>
                  d.reason = Says(TheMask(setup, method), setup, who)
<1>1. d = IF Masks(setup, method) = {} THEN Decision("no_acl", prot)
          ELSE Decision(Granting(granted, Says(TheMask(setup, method), setup, who)), prot)
  <2>1. ByMask(conf, prot, method, who, granted) =
            IF Masks(conf.setups[prot], method) = {} THEN Decision("no_acl", prot)
            ELSE Decision(Granting(granted, Says(TheMask(conf.setups[prot], method),
                                                 conf.setups[prot], who)), prot)
    BY Zenon DEF ByMask, TheMask
  <2>2. QED
    BY <2>1, Zenon DEF SetupOf
<1>2. PICK mask, says : mask = TheMask(setup, method) /\ says = Says(mask, setup, who)
  OBVIOUS
<1>3. PICK none \in BOOLEAN : none = (Masks(setup, method) = {})
  BY Zenon
<1>4. ~none => /\ (says = "ok") <=> Member(mask, setup, who)
               /\ says \in {"ok", "not_member", "ip_mask"}
  <2>1. ~none => mask \in Seq(GroupItem)
    BY <1>2, <1>3, TheMaskIs, Zenon
  <2>2. QED
    BY <1>2, <2>1, SaysMeans, SaysIn
<1>5. Masked(setup, method, who) <=> ~none /\ Member(mask, setup, who)
  BY <1>2, <1>3, Zenon DEF Masked
<1>6. d = IF none THEN Decision("no_acl", prot) ELSE Decision(Granting(granted, says), prot)
  BY <1>1, <1>2, <1>3, Zenon
<1>7. d.prot = prot /\ d.reason = IF none THEN "no_acl" ELSE Granting(granted, says)
  BY <1>6 DEF Decision
<1>11. Member(mask, setup, who) \in BOOLEAN
  BY Zenon DEF Member, Belongs
<1>8. PICK reason, member : reason = d.reason /\ member = Member(mask, setup, who)
  OBVIOUS
<1>9. /\ reason \in {granted, "no_acl", "not_member", "ip_mask"}
      /\ (reason = granted) <=> ~none /\ member
      /\ (reason = "no_acl") <=> none
      /\ reason \in {"not_member", "ip_mask"} => reason = says
  <2>1. reason = IF none THEN "no_acl" ELSE IF says = "ok" THEN granted ELSE says
    BY <1>7, <1>8 DEF Granting
  <2>2. ~none => ((says = "ok") <=> member) /\ says \in {"ok", "not_member", "ip_mask"}
    BY <1>4, <1>8
  <2>3. QED
    BY <1>8, <1>11, <2>1, <2>2 DEF Yes
<1>10. QED
  BY <1>2, <1>3, <1>5, <1>7, <1>8, <1>9, Zenon

\* Some entry of the list, and then list and mask, let in who asks.
Named(setup, entries, who) == \E group \in entries : Member(group, setup, who)

ByNamed(setup, prot, entries, method, who) ==
    /\ prot # NoName
    /\ Masks(setup, method) # {} /\ ~setup.override => Member(TheMask(setup, method), setup, who)
    /\ Named(setup, entries, who)

\* The access control list of a directory.
LEMMA ByListIs ==
    ASSUME NEW conf, Configured(conf), NEW prot \in Prots(conf), NEW dir \in DOMAIN conf.lists,
           NEW setup, setup = SetupOf(conf, prot), NEW this, NEW method, NEW who,
           NEW entries, entries = EntriesOf(conf, dir, this, method),
           NEW list, list = conf.lists[dir],
           NEW d, d = ByList(conf, list, this, prot, method, who)
    PROVE  /\ d.prot = prot /\ d.reason # "multi_failed"
           /\ (d.reason \in Yes) <=> ByNamed(setup, prot, entries, method, who)
<1> DEFINE masked == Masks(setup, method) # {} /\ ~setup.override
           by     == IF masked THEN ByMask(conf, prot, method, who, "ok")
                     ELSE Decision("ok", prot)
           says   == ByEntries(setup, entries, who)
<1>1. d = IF prot = NoName THEN Decision("setup_error", prot) ELSE Both(by, says)
  <2>1. ByList(conf, conf.lists[dir], this, prot, method, who) =
            IF prot = NoName THEN Decision("setup_error", prot)
            ELSE Both(IF Masks(conf.setups[prot], method) # {} /\ ~conf.setups[prot].override
                      THEN ByMask(conf, prot, method, who, "ok") ELSE Decision("ok", prot),
                      ByEntries(conf.setups[prot], Entries(conf.lists[dir], this, method), who))
    BY Zenon DEF ByList
  <2>2. QED
    BY <2>1, Zenon DEF SetupOf, EntriesOf
<1>2. ByNamed(setup, prot, entries, method, who) <=>
          /\ prot # NoName
          /\ masked => Member(TheMask(setup, method), setup, who)
          /\ Named(setup, entries, who)
  BY Zenon DEF ByNamed
<1>3. CASE prot = NoName
  <2> HIDE DEF masked, by, says
  <2>1. d = Decision("setup_error", prot)
    BY <1>1, <1>3
  <2>2. d.prot = prot /\ d.reason = "setup_error"
    BY <2>1 DEF Decision
  <2>3. ~ByNamed(setup, prot, entries, method, who)
    BY <1>2, <1>3
  <2>4. QED
    BY <2>2, <2>3 DEF Yes
<1>4. CASE prot # NoName
  <2>1. IsSetup(setup)
    <3>1. prot \in DOMAIN conf.setups
      BY <1>4 DEF Prots
    <3>2. QED
      BY <3>1, SetupIs DEF SetupOf
  <2>2. /\ by.prot = prot /\ by.reason \in {"ok", "no_acl", "not_member", "ip_mask"}
        /\ (by.reason = "ok") <=> (masked => Member(TheMask(setup, method), setup, who))
    <3>1. CASE masked
      <4>1. PICK ok : ok = "ok"
        OBVIOUS
      <4>2. PICK m : m = ByMask(conf, prot, method, who, ok)
        OBVIOUS
      <4>3. ok \in Yes
        BY <4>1 DEF Yes
      <4>4. /\ m.prot = prot /\ m.reason \in {ok, "no_acl", "not_member", "ip_mask"}
            /\ (m.reason = ok) <=> Masked(setup, method, who)
        BY <2>1, <4>2, <4>3, ByMaskIs
      <4>5. Masked(setup, method, who) <=> Member(TheMask(setup, method), setup, who)
        BY <3>1, Zenon DEF Masked
      <4>6. by = m
        BY <3>1, <4>1, <4>2, Zenon
      <4> HIDE DEF by, masked
      <4>7. QED
        BY <3>1, <4>1, <4>4, <4>5, <4>6
    <3>2. CASE ~masked
      <4>1. by = Decision("ok", prot)
        BY <3>2, Zenon
      <4> HIDE DEF by, masked
      <4>2. QED
        BY <3>2, <4>1 DEF Decision
    <3>3. QED
      BY <3>1, <3>2
  <2>3. /\ says \in {"no_entry", "ok", "not_member"}
        /\ (says = "ok") <=> Named(setup, entries, who)
    <3>1. \A group \in entries : group \in Seq(GroupItem)
      BY EntriesAre, Zenon DEF EntriesOf
    <3>2. \A group \in entries : (Says(group, setup, who) = "ok") <=> Member(group, setup, who)
      BY <2>1, <3>1, SaysMeans
    <3>3. Named(setup, entries, who) <=> \E group \in entries : Says(group, setup, who) = "ok"
      BY <3>2, Zenon DEF Named
    <3>4. says = IF entries = {} THEN "no_entry"
                 ELSE IF \E group \in entries : Says(group, setup, who) = "ok" THEN "ok"
                 ELSE "not_member"
      BY Zenon DEF ByEntries
    <3>5. entries = {} => ~Named(setup, entries, who)
      BY Zenon DEF Named
    <3>6. Named(setup, entries, who) \in BOOLEAN
      BY Zenon DEF Named
    <3> HIDE DEF says
    <3>7. QED
      BY <3>3, <3>4, <3>5, <3>6
  <2> HIDE DEF masked, by, says
  <2>4. d = Both(by, says)
    BY <1>1, <1>4
  <2>5. d.prot = prot /\ d.reason = IF by.reason = "ok" THEN says ELSE by.reason
    BY <2>2, <2>4 DEF Both, Decision
  <2>6. /\ (d.reason \in Yes) <=> by.reason = "ok" /\ says = "ok"
        /\ d.reason # "multi_failed"
    BY <2>2, <2>3, <2>5 DEF Yes
  <2>7. QED
    BY <1>2, <1>4, <2>2, <2>3, <2>5, <2>6
<1>5. QED
  BY <1>3, <1>4

\* Who may have it: what MayHave says of a protection and a list, if there is one.
Grants(setup, prot, entries, listed, method, who) ==
    IF listed THEN ByNamed(setup, prot, entries, method, who)
    ELSE IF prot # NoName THEN Masked(setup, method, who)
    ELSE method \notin Changing

\* What the check decides is what protection and list grant.
LEMMA Decides ==
    ASSUME NEW conf, Configured(conf), NEW u, u.prot \in Prots(conf), u.defprot \in Prots(conf),
           NEW this, this = (IF u.script # <<>> THEN u.script ELSE u.translated),
           NEW remote \in BOOLEAN, NEW method, NEW who,
           NEW d, d = CheckAuthorization(conf, u, method, who, remote),
           NEW setup, setup = SetupOf(conf, d.prot),
           NEW entries, entries = EntriesOf(conf, Directory(this), this, method),
           NEW listed \in BOOLEAN, listed <=> ~remote /\ Directory(this) \in DOMAIN conf.lists
    PROVE  /\ d.reason # "multi_failed" /\ d.prot \in Prots(conf)
           /\ (d.reason \in Yes) <=> Grants(setup, d.prot, entries, listed, method, who)
           /\ ~listed /\ d.reason \in {"not_member", "ip_mask"} =>
                  /\ d.prot # NoName
                  /\ d.reason = Says(TheMask(setup, method), setup, who)
                  /\ Masks(setup, method) # {}
<1>1. PICK ok \in Yes : ok = IF remote THEN "ok_gateway" ELSE "ok"
  BY DEF Yes
<1>2. PICK prot \in Prots(conf) :
          prot = IF u.prot = NoName /\ (listed \/ method \in Changing) THEN u.defprot ELSE u.prot
  OBVIOUS
<1>3. d = IF listed THEN ByList(conf, conf.lists[Directory(this)], this, prot, method, who)
          ELSE IF prot # NoName THEN ByMask(conf, prot, method, who, ok)
          ELSE IF method \in Changing THEN Decision("not_allowed", NoName)
          ELSE Decision(ok, NoName)
  <2>1. PICK dir : dir = Directory(this)
    OBVIOUS
  <2>2. listed <=> ~remote /\ dir \in DOMAIN conf.lists
    BY <2>1
  <2>3. CheckAuthorization(conf, u, method, who, remote) =
            IF listed THEN ByList(conf, conf.lists[dir], this, prot, method, who)
            ELSE IF prot # NoName THEN ByMask(conf, prot, method, who, ok)
            ELSE IF method \in Changing THEN Decision("not_allowed", NoName)
            ELSE Decision(ok, NoName)
    BY <1>1, <1>2, <2>1, <2>2 DEF CheckAuthorization
  <2>4. QED
    BY <2>1, <2>3
<1>4. CASE listed
  <2>1. PICK dir \in DOMAIN conf.lists : dir = Directory(this)
    BY <1>4
  <2>2. d = ByList(conf, conf.lists[dir], this, prot, method, who)
    BY <1>3, <1>4, <2>1
  <2>3. PICK setup1, list : setup1 = SetupOf(conf, prot) /\ list = conf.lists[dir]
    OBVIOUS
  <2>4. entries = EntriesOf(conf, dir, this, method)
    BY <2>1
  <2>8. d = ByList(conf, list, this, prot, method, who)
    BY <2>2, <2>3
  <2>5. /\ d.prot = prot /\ d.reason # "multi_failed"
        /\ (d.reason \in Yes) <=> ByNamed(setup1, prot, entries, method, who)
    BY <2>3, <2>4, <2>8, ByListIs
  <2>6. setup1 = setup
    BY <2>3, <2>5
  <2>7. QED
    BY <1>4, <2>5, <2>6 DEF Grants
<1>5. CASE ~listed /\ prot # NoName
  <2>1. d = ByMask(conf, prot, method, who, ok)
    BY <1>3, <1>5
  <2>2. PICK setup1 : setup1 = SetupOf(conf, prot)
    OBVIOUS
  <2>3. IsSetup(setup1)
    <3>1. prot \in DOMAIN conf.setups
      BY <1>5 DEF Prots
    <3>2. QED
      BY <2>2, <3>1, SetupIs DEF SetupOf
  <2>4. /\ d.prot = prot /\ d.reason \in {ok, "no_acl", "not_member", "ip_mask"}
        /\ (d.reason = ok) <=> Masked(setup1, method, who)
        /\ (d.reason = "no_acl") <=> (Masks(setup1, method) = {})
        /\ d.reason \in {"not_member", "ip_mask"} =>
               d.reason = Says(TheMask(setup1, method), setup1, who)
    BY <2>1, <2>2, <2>3, ByMaskIs
  <2>5. setup1 = setup
    BY <2>2, <2>4
  <2>6. (d.reason = ok) <=> d.reason \in Yes
    BY <1>1, <2>4 DEF Yes
  <2>7. d.reason # "multi_failed"
    BY <2>4 DEF Yes
  <2>8. Grants(setup, d.prot, entries, listed, method, who) <=> Masked(setup, method, who)
    BY <1>5, <2>4, Zenon DEF Grants
  <2>9. d.reason \in {"not_member", "ip_mask"} => d.reason # "no_acl"
    OBVIOUS
  <2>10. QED
    BY <1>5, <2>4, <2>5, <2>6, <2>7, <2>8, <2>9
<1>6. CASE ~listed /\ prot = NoName
  <2>1. d = IF method \in Changing THEN Decision("not_allowed", NoName)
            ELSE Decision(ok, NoName)
    BY <1>3, <1>6
  <2>2. d.prot = NoName /\ d.reason = IF method \in Changing THEN "not_allowed" ELSE ok
    BY <2>1 DEF Decision
  <2>3. Grants(setup, d.prot, entries, listed, method, who) <=> method \notin Changing
    BY <1>6, <2>2, Zenon DEF Grants
  <2>4. QED
    BY <1>6, <2>2, <2>3 DEF Yes
<1>7. QED
  BY <1>4, <1>5, <1>6

\* What decided on the path of a hop.
LEMMA ServedWhen ==
    ASSUME CheckedHere, Decided, auth.reason \notin ByTranslation,
           NEW setup, setup = SetupOf(Site, auth.prot),
           NEW entries, entries = EntriesOf(Site, Directory(This), This, Method),
           NEW listed \in BOOLEAN, listed <=> Controlled
    PROVE  /\ (auth.reason \in Granted) <=>
                  Grants(setup, auth.prot, entries, listed, Method, req.who)
           /\ ~listed /\ auth.reason \in {"not_member", "ip_mask"} =>
                  /\ auth.prot # NoName
                  /\ auth.reason = Says(TheMask(setup, Method), setup, req.who)
                  /\ Masks(setup, Method) # {}
<1>1. Configured(Site) /\ NoName \in Prots(Site)
  BY SiteIs DEF CheckedHere, Prots
<1>2. PICK p \in Prots(Site), d \in Prots(Site) : auth = Check(Site, Path, Method, req.who, p, d)
  BY DEF CheckedHere
<1>3. PICK s, t : s = Translate(Site, Path, p, d) /\ t = Translate(Site, Path, NoName, NoName)
  OBVIOUS
<1>4. Alike(Site, s, t) /\ s.done
  BY <1>1, <1>3, TranslateAlike
<1>5. Alike(Site, s, s)
  BY <1>4 DEF Alike, Same
<1>6. auth = CheckTranslated(Site, Path, s, Method, req.who)
  BY <1>2, <1>3, Zenon DEF Check
<1>7. CheckedAlike(auth, auth, Site, s, s, Method, req.who)
  BY <1>4, <1>5, <1>6, CheckOutcome
<1>8. ~Translated(auth, s)
  BY DEF Translated
<1>9. PICK to : \E missing \in BOOLEAN, remote \in BOOLEAN :
          /\ remote <=> s.script = <<>> /\ Remote(s.translated)
          /\ Outcome(auth, Site, s, to, missing, remote, Method, req.who)
  BY <1>7, <1>8, Zenon DEF CheckedAlike
<1>10. PICK missing \in BOOLEAN, remote \in BOOLEAN :
          /\ remote <=> s.script = <<>> /\ Remote(s.translated)
          /\ Outcome(auth, Site, s, to, missing, remote, Method, req.who)
  BY <1>9
<1>11. PICK u : u = ForFile(s, to)
  OBVIOUS
<1>12. /\ u.script = s.script /\ u.translated = to
       /\ u.prot \in Prots(Site) /\ u.defprot \in Prots(Site)
  BY <1>4, <1>11 DEF ForFile, Alike, Sound, Fields
<1>13. PICK e : e = CheckAuthorization(Site, u, Method, req.who, remote)
  OBVIOUS
<1>14. /\ auth.reason = Said(missing, e.reason) /\ auth.prot = e.prot
       /\ auth.script = s.script /\ auth.translated = to
  BY <1>10, <1>11, <1>13, Zenon DEF Outcome
<1>15. This = IF u.script # <<>> THEN u.script ELSE u.translated
  BY <1>12, <1>14 DEF This
<1>16. listed <=> ~remote /\ Directory(This) \in DOMAIN Site.lists
  <2>1. s.translated = t.translated
    BY <1>4 DEF Alike, Same
  <2>2. Controlled <=> (auth.script # <<>> \/ ~Remote(t.translated))
                       /\ Directory(This) \in DOMAIN Site.lists
    BY <1>3 DEF Controlled
  <2>3. QED
    BY <1>10, <1>14, <2>1, <2>2
<1>17. setup = SetupOf(Site, e.prot)
  BY <1>14
<1>18. PICK this : this = This
  OBVIOUS
<1>19. /\ e.reason # "multi_failed"
       /\ (e.reason \in Yes) <=> Grants(setup, e.prot, entries, listed, Method, req.who)
       /\ ~listed /\ e.reason \in {"not_member", "ip_mask"} =>
              /\ e.prot # NoName
              /\ e.reason = Says(TheMask(setup, Method), setup, req.who)
              /\ Masks(setup, Method) # {}
  <2>1. this = IF u.script # <<>> THEN u.script ELSE u.translated
    BY <1>15, <1>18
  <2>2. entries = EntriesOf(Site, Directory(this), this, Method)
    BY <1>18
  <2>3. listed <=> ~remote /\ Directory(this) \in DOMAIN Site.lists
    BY <1>16, <1>18
  <2>4. PICK conf, method, who : conf = Site /\ method = Method /\ who = req.who
    OBVIOUS
  <2>5. /\ Configured(conf) /\ u.prot \in Prots(conf) /\ u.defprot \in Prots(conf)
        /\ e = CheckAuthorization(conf, u, method, who, remote)
        /\ setup = SetupOf(conf, e.prot)
        /\ entries = EntriesOf(conf, Directory(this), this, method)
        /\ listed <=> ~remote /\ Directory(this) \in DOMAIN conf.lists
    BY <1>1, <1>12, <1>13, <1>17, <2>2, <2>3, <2>4
  <2>6. /\ e.reason # "multi_failed"
        /\ (e.reason \in Yes) <=> Grants(setup, e.prot, entries, listed, method, who)
        /\ ~listed /\ e.reason \in {"not_member", "ip_mask"} =>
               /\ e.prot # NoName
               /\ e.reason = Says(TheMask(setup, method), setup, who)
               /\ Masks(setup, method) # {}
    BY <2>1, <2>5, Decides
  <2>7. QED
    BY <2>4, <2>6
<1>20. (auth.reason \in Granted) <=> e.reason \in Yes
  BY <1>14, <1>19 DEF Said, Granted, Yes
<1>21. auth.reason \in {"not_member", "ip_mask"} => e.reason = auth.reason
  BY <1>14 DEF Said
<1>22. QED
  BY <1>14, <1>19, <1>20, <1>21

\* What MayHave says, of who asks.
LEMMA MayHaveIs ==
    ASSUME NEW setup, setup = SetupOf(Site, auth.prot),
           NEW entries, entries = EntriesOf(Site, Directory(This), This, Method),
           NEW listed \in BOOLEAN, listed <=> Controlled
    PROVE  MayHave(IF auth.prot = NoName THEN NoUser ELSE User(Setup, req.who)) <=>
               Grants(setup, auth.prot, entries, listed, Method, req.who)
<1>1. Setup = setup
  BY DEF Setup, SetupOf
<1>2. entries = Entries(Site.lists[Directory(This)], This, Method)
  BY DEF EntriesOf
<1>3. PICK name : name = IF auth.prot = NoName THEN NoUser ELSE User(Setup, req.who)
  OBVIOUS
<1>4. MayHave(name) =
          (IF Controlled
           THEN /\ auth.prot # NoName
                /\ Masks(setup, Method) # {} /\ ~setup.override => In(Mask, name)
                /\ \E group \in entries : In(group, name)
           ELSE IF auth.prot # NoName THEN Masks(setup, Method) # {} /\ In(Mask, name)
           ELSE Method \notin Changing)
  BY <1>1, <1>2, Zenon DEF MayHave
<1>5. Mask = TheMask(setup, Method)
  BY <1>1, Zenon DEF Mask, TheMask
<1>6. auth.prot # NoName => \A group : In(group, name) = Member(group, setup, req.who)
  BY <1>1, <1>3, Zenon DEF In, Member
<1>7. Grants(setup, auth.prot, entries, listed, Method, req.who) =
          (IF listed
           THEN /\ auth.prot # NoName
                /\ Masks(setup, Method) # {} /\ ~setup.override =>
                       Member(TheMask(setup, Method), setup, req.who)
                /\ \E group \in entries : Member(group, setup, req.who)
           ELSE IF auth.prot # NoName
                THEN Masks(setup, Method) # {} /\ Member(TheMask(setup, Method), setup, req.who)
           ELSE Method \notin Changing)
  BY Zenon DEF Grants, ByNamed, Named, Masked
<1>8. MayHave(name) <=> Grants(setup, auth.prot, entries, listed, Method, req.who)
  <2>1. CASE auth.prot = NoName
    BY <1>4, <1>7, <2>1, Zenon
  <2>2. CASE auth.prot # NoName
    BY <1>4, <1>5, <1>6, <1>7, <2>2, Zenon
  <2>3. QED
    BY <2>1, <2>2
<1>9. QED
  BY <1>3, <1>8

\* Documents, scripts and other servers, and that there is no document, are for those who
\* belong to the group of the mask and to one of the access control list
\* (check_authorization, HTAAServ.c:262-470, 656-668).
THEOREM MembersTheorem == HandleSpec => []MembersServed
<1>1. CheckedHere => MembersServed
  <2> SUFFICES ASSUME CheckedHere, Decided, auth.reason \notin ByTranslation
               PROVE  auth.reason \in Granted <=>
                   MayHave(IF auth.prot = NoName THEN NoUser ELSE User(Setup, req.who))
    BY DEF MembersServed
  <2>1. PICK setup, entries : /\ setup = SetupOf(Site, auth.prot)
                              /\ entries = EntriesOf(Site, Directory(This), This, Method)
    OBVIOUS
  <2>2. PICK listed \in BOOLEAN : listed <=> Controlled
    BY Zenon DEF Controlled
  <2>3. (auth.reason \in Granted) <=> Grants(setup, auth.prot, entries, listed, Method, req.who)
    BY <2>1, <2>2, ServedWhen
  <2>4. MayHave(IF auth.prot = NoName THEN NoUser ELSE User(Setup, req.who)) <=>
            Grants(setup, auth.prot, entries, listed, Method, req.who)
    BY <2>1, <2>2, MayHaveIs
  <2>5. QED
    BY <2>3, <2>4
<1>2. QED
  BY <1>1, CheckedInvariance, PTL

\* The first of a list.
LEMMA NonEmpty ==
    ASSUME NEW L, NEW s \in Seq(L), s # <<>>
    PROVE  s[1] \in L /\ 1 \in DOMAIN s
OBVIOUS

\* Who belongs to a group without groups in it.
LEMMA FlatBelongs ==
    ASSUME NEW items, NEW file, ~Nested(items, file), NEW user, NEW from
    PROVE  Belongs(items, file, user, from) <=>
               \E item \in ToSet(items) :
                   /\ AddressIn(item.addresses, from)
                   /\ \/ item.users = <<>>
                      \/ \E name \in ToSet(item.users) : NameMatches(name, user)
<1>1. PICK in : in = InFile(file, user, from)
  OBVIOUS
<1>2. Belongs(items, file, user, from) = Holder(file, user, from, items, Len(file), in)
  BY <1>1, BelongsIs
<1>3. \A item \in ToSet(items) : \A name \in ToSet(item.users) : Defined(file, Len(file), name) = 0
  BY Zenon DEF Nested
<1>4. \A item \in ToSet(items) : \A name \in ToSet(item.users) :
          (IF Defined(file, Len(file), name) # 0 THEN in[Defined(file, Len(file), name)]
           ELSE NameMatches(name, user)) = NameMatches(name, user)
  BY <1>3, Zenon
<1>5. QED
  BY <1>2, <1>4, Zenon DEF Holder

\* Of those whom a group without groups in it does not let in, one who comes from where
\* some name of the group would do is told so.
LEMMA SomebodyMay ==
    ASSUME NEW file \in Seq(Group), NEW items \in Seq(GroupItem), items # <<>>,
           ~Nested(items, file), NEW user, NEW from,
           NEW says, says = InGroup(items, file, user, from), says # "ok"
    PROVE  (says = "not_member") <=>
               \E item \in ToSet(items) : \E name \in ToSet(item.users) :
                   Belongs(items, file, name, from)
<1>1. \A i \in DOMAIN items : Plain(file, Len(file), items[i].users)
  <2>1. SUFFICES ASSUME NEW i \in DOMAIN items, NEW k \in DOMAIN items[i].users
                 PROVE  Defined(file, Len(file), items[i].users[k]) = 0
    BY Zenon DEF Plain
  <2>2. items[i] \in ToSet(items) /\ items[i].users[k] \in ToSet(items[i].users)
    BY Zenon DEF ToSet
  <2>3. QED
    BY <2>2, Zenon DEF Nested
<1>2. ~Belongs(items, file, user, from)
  BY GroupTheorem
<1>3. (says = "not_member") <=> \E i \in DOMAIN items : AddressIn(items[i].addresses, from)
  BY <1>1, GroupTheorem
<1>4. (says = "not_member") <=> \E item \in ToSet(items) : AddressIn(item.addresses, from)
  BY <1>3, Zenon DEF ToSet
<1>5. ASSUME NEW item \in ToSet(items), AddressIn(item.addresses, from)
      PROVE  \E name \in ToSet(item.users) : Belongs(items, file, name, from)
  <2>1. item.users # <<>>
    BY <1>2, <1>5, FlatBelongs, Zenon
  <2>2. item \in GroupItem
    <3>1. PICK i \in DOMAIN items : item = items[i]
      BY Zenon DEF ToSet
    <3>2. QED
      BY <3>1
  <2>3. PICK users, L : users = item.users /\ L = STRING \ {""} /\ users \in Seq(L)
    BY <2>2, Zenon DEF GroupItem
  <2>4. PICK name : name = users[1]
    OBVIOUS
  <2>5. name \in L /\ 1 \in DOMAIN users
    <3>1. users \in Seq(L) /\ users # <<>>
      BY <2>1, <2>3, Zenon
    <3>2. QED
      BY <2>4, <3>1, NonEmpty
  <2>6. name \in ToSet(item.users)
    BY <2>3, <2>4, <2>5, Zenon DEF ToSet
  <2>7. NameMatches(name, name)
    BY <2>3, <2>5, Zenon DEF NameMatches, NoUser
  <2>8. Belongs(items, file, name, from)
    BY <1>5, <2>6, <2>7, FlatBelongs, Zenon
  <2>9. QED
    BY <2>6, <2>8
<1>6. ASSUME NEW item \in ToSet(items), NEW name \in ToSet(item.users),
             Belongs(items, file, name, from)
      PROVE  \E one \in ToSet(items) : AddressIn(one.addresses, from)
  BY <1>6, FlatBelongs, Zenon
<1>7. QED
  BY <1>4, <1>5, <1>6, Zenon

\* The same of the mask that decided.
LEMMA AskedLemma ==
    ASSUME CheckedHere, Decided, auth.reason \in {"not_member", "ip_mask"},
           ~Controlled, ~Nested(Mask, Setup.groups)
    PROVE  (auth.reason = "not_member") <=>
               \E item \in ToSet(Mask) : \E name \in ToSet(item.users) : MayHave(name)
<1>1. PICK setup, entries : /\ setup = SetupOf(Site, auth.prot)
                            /\ entries = EntriesOf(Site, Directory(This), This, Method)
  OBVIOUS
<1>2. PICK listed \in BOOLEAN : listed <=> Controlled
  BY Zenon DEF Controlled
<1>3. auth.reason \notin ByTranslation
  BY DEF ByTranslation
<1>4. /\ auth.prot # NoName /\ Masks(setup, Method) # {}
      /\ auth.reason = Says(TheMask(setup, Method), setup, req.who)
  BY <1>1, <1>2, <1>3, ServedWhen
<1>5. Setup = setup /\ Mask = TheMask(setup, Method)
  BY <1>1, Zenon DEF Setup, SetupOf, Mask, TheMask
<1>6. IsSetup(setup)
  <2>1. Configured(Site) /\ auth.prot \in DOMAIN Site.setups
    BY <1>4, SiteIs DEF CheckedHere, Prots
  <2>2. QED
    BY <1>1, <2>1, SetupIs DEF SetupOf
<1>7. PICK mask, file, user, from :
          /\ mask = TheMask(setup, Method) /\ file = setup.groups
          /\ user = User(setup, req.who) /\ from = req.who.client
  OBVIOUS
<1>8. mask \in Seq(GroupItem) /\ mask # <<>> /\ file \in Seq(Group)
  <2>1. mask \in Seq(GroupItem) /\ mask # <<>>
    BY <1>4, <1>6, <1>7, TheMaskIs
  <2>2. file \in Seq(Group)
    BY <1>6, <1>7 DEF IsSetup
  <2>3. QED
    BY <2>1, <2>2
<1>9. PICK says : says = InGroup(mask, file, user, from)
  OBVIOUS
<1>10. auth.reason = says
  BY <1>4, <1>7, <1>9 DEF Says
<1>11. mask # <<>> /\ ~Nested(mask, file) /\ says # "ok"
  BY <1>5, <1>7, <1>8, <1>10
<1>12. (says = "not_member") <=>
           \E item \in ToSet(mask) : \E name \in ToSet(item.users) :
               Belongs(mask, file, name, from)
  BY <1>8, <1>9, <1>11, SomebodyMay
<1>13. \A name : MayHave(name) <=> Belongs(mask, file, name, from)
  <2>1. \A name : MayHave(name) <=> In(Mask, name)
    BY <1>4, <1>5, Zenon DEF MayHave
  <2>2. \A name : In(Mask, name) = Belongs(mask, file, name, from)
    BY <1>5, <1>7, Zenon DEF In
  <2>3. QED
    BY <2>1, <2>2, Zenon
<1>14. Mask = mask
  BY <1>5, <1>7
<1>15. QED
  BY <1>10, <1>12, <1>13, <1>14, Zenon

\* Where a mask without groups in it decides, a client is asked for a name and a password
\* if and only if some name would do from where it is (HTAA_userAndInetInGroup,
\* HTGroup.c:676-737).
THEOREM AskedTheorem == HandleSpec => []AskedWhenItHelps
<1>1. CheckedHere => AskedWhenItHelps
  BY AskedLemma DEF AskedWhenItHelps
<1>2. QED
  BY <1>1, CheckedInvariance, PTL
===============================================================================
