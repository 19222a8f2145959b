-------------------------------- MODULE Httpd ---------------------------------
(***************************************************************************)
(* httpd as a caching proxy: the daemon, its children and the collection   *)
(* of garbage, at the same time, with the clock and another server.        *)
(***************************************************************************)
EXTENDS Daemon

ASSUME HttpdAssumption ==
    /\ IsFiniteSet(Child)
    /\ Timeout \in Nat /\ Margin \in Nat /\ Lifetimes \subseteq Nat
    /\ Bytes \in Nat /\ MaxKilos \in Nat /\ MaxClock \in Nat \ {0, 1}
    /\ Nobody \notin Child
    /\ None \notin Child \cup {Nobody} \cup File \cup Entry
    /\ None \notin [pid : Child, daily : BOOLEAN] \cup [lc : Time, ex : Nat, lm : Time]
    /\ \A w \in Workload : w \in [Child -> {"get", "bypass", "daily"}]

VARIABLE
    crossed      \* history: who has got in whose way, "requests" another request, "collection"
                 \*   the two of them, "sweep" a file removed that was in use

vars == <<world, cacheVars, pc, job, stolen, collectorVars, daemonVars, crossed>>

\* What other children have left: nothing; the document; the document, the backup
\* and the entry of the version before (of a child that was stopped when it had put
\* the document in place); the backup and the lock of one that was stopped before.
\* Both had found that the entry had expired.
Left(v, life) == [by |-> Nobody, v |-> v, ex |-> v + life, whole |-> TRUE, at |-> v]
OldLock == [NewFile(Nobody) EXCEPT !.at = 1]

Init ==
    /\ clock = 2 /\ origin = 2
    /\ \E life \in Lifetimes \ 0 .. Margin,
          files \in {{}, {"doc"}, {"doc", "backup"}, {"backup", "lock"}} :
         /\ "backup" \in files => life = Margin + 1
         /\ LET v == IF "backup" \in files THEN 1 ELSE 2
            IN /\ disk = [doc    |-> IF "doc" \in files THEN Left(2, life) ELSE None,
                          backup |-> IF "backup" \in files THEN Left(1, life) ELSE None,
                          lock   |-> IF "lock" \in files THEN OldLock ELSE None]
               /\ info = IF files = {} THEN None
                         ELSE [lc |-> v, ex |-> v + life, lm |-> v,
                               anyEx |-> v + life, anyLm |-> v]
               /\ CollectorInit(Cardinality(files \ {"lock"}))
    /\ pc = [c \in Child |-> "none"]
    /\ job = [c \in Child |-> Blank]
    /\ stolen = FALSE /\ crossed = {}
    /\ DaemonInit

\* Requests that have looked at the entry, or missed the document, and have not yet written
\* an entry of their own.
Refilling == {"relock", "create", "backup", "ask", "body", "created", "discard", "note",
              "reread", "restore", "unlock", "renote"}

\* Requests that count on a file they have seen.
InUse == Refilling \cup {"info", "found", "resend"}

Meets(c, where) == \E d \in Child \ {c} : pc[d] \in where

\* A request changes what others have looked at,
RequestCrosses(c) ==
    LET changed == info' # info \/ \E n \in {"doc", "backup"} : disk'[n] # disk[n]
    IN  crossed' = crossed
            \cup {k \in {"requests"} : changed /\ Meets(c, Refilling)}
            \cup {k \in {"collection"} : changed /\ Meets(c, {"collect", "flush"})}

\* or a collection does: it removes files, and writes entries back that it has read before.
CollectionCrosses(c) ==
    crossed' = crossed
        \cup {k \in {"collection"} : pc[c] = "flush" /\ Meets(c, InUse)}
        \cup {k \in {"sweep"} : disk' # disk /\ pc[c] = "flush"
                                    /\ (info # None \/ Meets(c, InUse))}

\* A second passes, and the other server may change the document.  The daemon
\* stores the number of a child within the second.
Tick ==
    /\ clock < MaxClock
    /\ forked = None
    /\ clock' = clock + 1
    /\ origin' \in {origin, clock'}
    /\ UNCHANGED <<cacheVars, pc, job, stolen, collectorVars, daemonVars, crossed>>

Next ==
    \/ Tick
    \/ \E c \in Child :
         Request(c) /\ RequestCrosses(c) /\ UNCHANGED <<collectorVars, daemonVars>>
    \/ \E c \in Child : Collection(c) /\ CollectionCrosses(c) /\ UNCHANGED daemonVars
    \/ \E c \in Child : Loop(c) /\ UNCHANGED crossed
    \/ SigChild /\ UNCHANGED crossed
    \/ Forked /\ UNCHANGED crossed

Spec == Init /\ [][Next]_vars

\* Everything but the daemon's account of the cache.
CacheTypeOK ==
    /\ clock \in Time /\ origin \in Time
    /\ disk \in [Name -> File \cup {None}]
    /\ info \in Entry \cup {None}
    /\ pc \in [Child -> Served \cup {"none", "scan", "unstick", "read", "collect",
                                     "flush", "gone", "reaped"}]
    /\ job \in [Child -> Job]
    /\ stolen \in BOOLEAN /\ crossed \subseteq {"requests", "collection", "sweep"}
    /\ sweep \in [Child -> Findings]
    /\ \A c \in Child : pc[c] \in {"collect", "flush"} => sweep[c].entry # None
    /\ kind \in [Child -> {"get", "bypass", "daily"}]
    /\ gc_pid \in Child \cup {None}
    /\ forked \in [pid : Child, daily : BOOLEAN] \cup {None}

TypeOK == CacheTypeOK /\ usage \in Int

\* A child that is filling the cache, and whose alarm is not overdue, still has
\* its lock: HTConfig.c makes locks last as long as the alarm, so that only locks
\* of the dead are broken, and of those who have lost their client and are deaf to
\* their alarm (HTDaemon.c:582-605, 663).  Two cases are another matter, in which a
\* lock is "stolen": the second of two that find the same old lock removes the lock
\* of the first (between stat and unlink); and a deaf child whose lock was broken
\* ends that of the next when it is through itself, whatever is in the file.
Filling == {"backup", "ask", "body", "created", "reread", "restore", "unlock", "cancel"}

LockIsOwn ==
    ~stolen => \A c \in Child :
        pc[c] \in Filling /\ ~Due(c) => disk["lock"] # None /\ disk["lock"].by = c

\* What is sent from the cache is whole: a copy still being written, or one that
\* ended early, is never taken for the document; also while a child that is deaf to
\* its alarm goes on beside the one that has broken its lock, until it ends that
\* one's lock, too.
ServedWhole ==
    ~stolen => \A c \in Child : job[c].got # None => job[c].got.whole

\* As long as no client asks to bypass the cache, nothing is sent from it after
\* the expiry date the server gave, although the entries in the cache info file
\* are written after the files, or not at all when a child is stopped before, and
\* a child that has read one opens the document later.  This takes that no lock
\* is stolen (by one that found it old, or by a deaf child), and that nobody who
\* refills the cache is overtaken by another or by a collection: the entry written
\* last would not be that of the document.
NoBypass == \A c \in Child : kind[c] # "bypass"

NotExpired ==
    NoBypass /\ ~stolen /\ crossed = {} => \A c \in Child :
        job[c].got # None /\ ~job[c].same => job[c].got.ex > job[c].now

\* When the server says that the document has not changed, the client gets the
\* document it speaks of, or a newer one, whatever other requests do meanwhile,
\* unless a collection has removed a file in use, or the server was asked about
\* another date than that of the document.  (The client gets nothing if the next
\* request has moved the document away again.)
SameDocument ==
    ~stolen /\ "sweep" \notin crossed => \A c \in Child :
        job[c].same /\ job[c].got # None /\ ~job[c].misled => job[c].got.v >= job[c].v

\* A child that collects garbage, or is going to, is the one the daemon knows of,
\* and so there is only one.
CollectorKnown ==
    \A c \in Child :
        Collecting(c) \/ (job[c].gc /\ pc[c] \in Served) =>
            gc_pid = c \/ (forked # None /\ forked.pid = c)

\* The daemon knows the only collector, and never takes the cache to hold less than
\* nothing, whatever children say at their end and collections report, once or twice.
DaemonKnows == usage >= 0 /\ CollectorKnown

---------------------------------------------------------------------------
\* An inductive invariant, from which LockIsOwn, ServedWhole and DaemonKnows follow.

\* The lock file was written when its owner was already at work; and the lock of a child
\* that has been found too old is the lock of one whose alarm is overdue, or that is gone.
LocksOld ==
    \A c \in Child :
        /\ pc[c] \in Served => job[c].now <= clock
        /\ disk["lock"] # None /\ disk["lock"].by = c =>
               /\ pc[c] # "none"
               /\ pc[c] \in Served => job[c].now <= disk["lock"].at
        /\ \A d \in Child :
               pc[d] \in {"break", "unstick"} /\ job[d].seen = c =>
                   pc[c] # "none" /\ (pc[c] \in Served => Due(c))

\* Who no longer hears its alarm is past the lookup and has been told what to do.
Deaf ==
    \A c \in Child : job[c].deaf =>
        pc[c] \in {"body", "created", "discard", "note", "cancel", "sending"}

\* Children that have not put their copy in place, or not yet received it.
Early == {"none"} \cup (Served \ {"discard", "note"})

\* What has a name of the cache is whole, and nobody writes to it any more; what is about
\* to get one is whole, too.
FilesWhole ==
    ~stolen =>
        /\ \A n \in {"doc", "backup"} : disk[n] # None =>
               disk[n].whole /\ \A c \in Child : disk[n].by = c => pc[c] \notin Early
        /\ \A c \in Child :
               pc[c] = "created" /\ disk["lock"] # None /\ disk["lock"].by = c =>
                   disk["lock"].whole

\* While a child has just been started to collect, no other is known.
OneCollector == forked # None => gc_pid = None

\* No report subtracts more than the daemon has counted.
AccountOK == usage \in Nat /\ report \in [used : Nat, freed : Nat] \cup {None}

IInv == /\ CacheTypeOK /\ LocksOld /\ Deaf /\ LockIsOwn /\ FilesWhole /\ ServedWhole
        /\ OneCollector /\ CollectorKnown /\ AccountOK

---------------------------------------------------------------------------
\* Invariants from which SameDocument and NotExpired follow, with IInv.

\* What the lock file holds is what its owner has been told; who has not yet looked at the
\* entry has no date to ask with, and who has not got so far has no file to send.
JobsTrue ==
    \A c \in Child :
        /\ pc[c] = "created" /\ disk["lock"] # None /\ disk["lock"].by = c =>
               disk["lock"].v = job[c].v /\ disk["lock"].ex = job[c].ex
        /\ pc[c] \in {"locked", "break", "stat", "info", "create"} => job[c].ims = 0
        /\ pc[c] \in Served \ {"sending"} => job[c].got = None /\ ~job[c].same
        /\ job[c].forced => kind[c] = "bypass"

\* The entry that a collection will write back, if the document is not removed.
Held(d) == pc[d] \in {"collect", "flush"} /\ "doc" \in sweep[d].files

\* The requests that know when the document was last modified: from the server; or from the
\* entry, which they are going to ask the server with, or to repeat.
KnowsDocument(c) ==
    \/ pc[c] \in {"discard", "note"}
    \/ pc[c] \in {"reread", "restore", "unlock", "renote", "resend"} /\ ~job[c].misled

KnowsEntry(c) ==
    \/ pc[c] \in {"relock", "backup", "ask"} /\ ~job[c].misled
    \/ pc[c] \in {"restore", "unlock", "renote"}

\* The versions that are known of.
Known ==
    {v \in Time : \/ info # None /\ v \in {info.lm, info.anyLm}
                  \/ \E c \in Child : \/ Held(c) /\ v = sweep[c].entry.lm
                                      \/ KnowsDocument(c) /\ v = job[c].v
                                      \/ KnowsEntry(c) /\ v = job[c].ims}

Newest(v) == \A k \in Known : k <= v

\* Who asks whether the document has changed has it as the backup.
Asking(c) == pc[c] \in {"reread", "restore"} \/ (pc[c] = "ask" /\ job[c].ims # 0)

\* The document, or the backup if there is none, is the newest version known of, and what
\* is about to be put in place is not older.
Versions ==
    /\ origin <= clock /\ Newest(origin)
    /\ disk["doc"] # None => Newest(disk["doc"].v)
    /\ disk["doc"] = None /\ disk["backup"] # None => Newest(disk["backup"].v)
    /\ \A c \in Child :
          /\ pc[c] \in {"body", "created"} =>
                 job[c].v <= origin /\ (Holds(c) => Newest(job[c].v))
          /\ Asking(c) /\ ~Due(c) => disk["doc"] = None

\* The document lives as long as the entries say, and they have expired when it is not
\* there; so has the one in the file when the document is being replaced.
EntryDates ==
    /\ info # None => info.ex = info.anyEx \/ (info.ex = 0 /\ info.anyEx <= clock + Margin)
    /\ LET end == IF disk["doc"] # None THEN disk["doc"].ex ELSE clock
       IN  /\ info # None => info.anyEx <= end + Margin
           /\ \A d \in Child : Held(d) => sweep[d].entry.ex <= end + Margin
    /\ \A c \in Child : pc[c] \in Refilling /\ info # None => info.anyEx <= clock + Margin

\* What a request is about to put in place lives longer than the entry says, and what it
\* has put in place is there until it has written its own.
JobDates ==
    \A c \in Child :
        /\ pc[c] \in {"body", "created"} /\ info # None => info.anyEx <= job[c].ex + Margin
        /\ pc[c] \in {"reread", "restore"} /\ info # None =>
               job[c].ex = 0 \/ info.anyEx <= job[c].ex + Margin
        /\ pc[c] \in {"discard", "note"} =>
               disk["doc"] # None /\ disk["doc"].ex = job[c].ex
        /\ pc[c] \in {"unlock", "renote"} =>
               disk["doc"] # None /\ (job[c].ex = 0 \/ disk["doc"].ex = job[c].ex)
        /\ pc[c] \in {"info", "relock", "backup"} => disk["doc"] # None \/ disk["backup"] # None
        /\ Asking(c) => disk["backup"] # None

\* Who has found the entry fresh may open the document, and what may replace it till then
\* (a collection that is going on is not over before).
Flushing == \E d \in Child : pc[d] = "flush"

FoundDates ==
    \A c \in Child : pc[c] = "found" =>
        /\ disk["doc"] # None => disk["doc"].ex > job[c].now
        /\ \/ job[c].now < clock
           \/ info # None /\ info.anyEx > job[c].now + Margin
           \/ Flushing
        /\ \A e \in Child :
              \/ Flushing
              \/ /\ pc[e] \in {"body", "created"} => job[e].ex > job[c].now
                 /\ pc[e] \in {"reread", "restore"} => job[e].ex = 0 \/ job[e].ex > job[c].now

Dates == EntryDates /\ JobDates /\ FoundDates

DocInv ==
    /\ SameDocument /\ NotExpired
    /\ ~stolen => /\ JobsTrue
                  /\ "sweep" \notin crossed => Versions
                  /\ NoBypass /\ crossed = {} => Dates
==============================================================================
