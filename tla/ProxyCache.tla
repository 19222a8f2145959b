------------------------------ MODULE ProxyCache ------------------------------
(***************************************************************************)
(* The cache of httpd used as a proxy: HTCache.c and HTCacheInfo.c, called *)
(* by HTHandle (HTDaemon.c).  Each request is served by a child process;   *)
(* the children share the directory of the cache, here the files of one    *)
(* URL: the document, the backup made while it is being revalidated, the   *)
(* lock file, which is also where a new copy is written, and the entry of  *)
(* the document in the cache info file.                                    *)
(*                                                                         *)
(* A document is named by the time it was modified.  The server always     *)
(* says when that was, and it changes a document at most once a second.    *)
(***************************************************************************)
EXTENDS ExitStatus, FiniteSets

CONSTANTS
    Child,       \* the processes the daemon starts
    Nobody,      \* whoever wrote the copy that is there from the start
    None,        \* no file, no entry, no process
    Timeout,     \* seconds: output_timeout and cache_lock_timeout
    Margin,      \* cache_time_margin
    Lifetimes,   \* how long documents live
    Bytes,       \* the size of the document
    MaxClock     \* bound on the clock

VARIABLES
    clock,       \* the time
    origin,      \* when the server's document was last modified
    disk,        \* the three files
    info,        \* the entries of the document in the cache info file: the last
                 \*   one, and the last dates in them that are not zero
    pc,          \* where each child is
    job,         \* what each child knows
    stolen       \* history: somebody has ended a lock, by removing the file or by giving
                 \*   it its name, that was neither its own nor found too old

cacheVars == <<disk, info>>
world     == <<clock, origin>>

Name  == {"doc", "backup", "lock"}
Time  == 0 .. MaxClock
File  == [by : Child \cup {Nobody}, v : Time, ex : Nat, whole : BOOLEAN, at : Time]
Entry == [lc : Time, ex : Nat, lm : Time, anyEx : Nat, anyLm : Time]
Job   == [gc : BOOLEAN, forced : BOOLEAN, now : Time, seen : Child \cup {Nobody, None},
          ims : Time, v : Time, ex : Nat, got : File \cup {None}, same : BOOLEAN,
          misled : BOOLEAN, deaf : BOOLEAN, status : 0 .. 255]

\* `by' tells one file from another, as an inode number would, `ex' is the
\* expiry date that the server gave the document, `at' when it was last written.
NewFile(c) == [by |-> c, v |-> 0, ex |-> 0, whole |-> FALSE, at |-> clock]
Copy(c, whole) ==
    [by |-> c, v |-> job[c].v, ex |-> job[c].ex, whole |-> whole, at |-> clock]

Blank == [gc |-> FALSE, forced |-> FALSE, now |-> 0, seen |-> None,
          ims |-> 0, v |-> 0, ex |-> 0, got |-> None, same |-> FALSE,
          misled |-> FALSE, deaf |-> FALSE, status |-> 0]

StoredStatus == HTBytesToExitStatus(Bytes)

Go(c, where) == pc' = [pc EXCEPT ![c] = where]

Learn(c, what, value) == job' = [job EXCEPT ![c][what] = value]

\* What the child does next once the request is served or given up, with this
\* status: it collects garbage if it has been told to, or ends.  (The end of one
\* that has nothing to tell changes nothing, and nobody waits for it here.)
Leave(c, status) ==
    /\ job' = [job EXCEPT ![c] = [Blank EXCEPT !.gc = job[c].gc, !.status = status]]
    /\ Go(c, CASE job[c].gc -> "scan"
               [] ~job[c].gc /\ status = 0 -> "reaped"
               [] OTHER -> "gone")

\* It ends at once, with status 0.
Stop(c) ==
    /\ job' = [job EXCEPT ![c] = [Blank EXCEPT !.gc = job[c].gc]]
    /\ Go(c, IF job[c].gc THEN "gone" ELSE "reaped")

Rename(d, from, to) ==
    IF d[from] = None THEN d ELSE [d EXCEPT ![to] = d[from], ![from] = None]

Unlink(d, name) == [d EXCEPT ![name] = None]

\* A process writes to the file it has open, whatever its name is by now.
Write(c, copy) ==
    disk' = [n \in DOMAIN disk |->
               IF disk[n] # None /\ disk[n].by = c THEN copy ELSE disk[n]]

---------------------------------------------------------------------------
(* Timeouts.  The alarm is set before the cache is looked up; a second     *)
(* after the one it is due in, it has gone off.  A child whose client goes *)
(* away while it fills the cache goes on, but the handler of SIGPIPE sets  *)
(* all signals anew (set_signals), and SIGALRM is ignored from then on:    *)
(* such a child is deaf to its alarm, and has all the time it takes.       *)

Served == {"locked", "break", "stat", "info", "relock", "backup", "create", "found",
           "sending", "ask", "body", "created", "discard", "note", "reread",
           "restore", "unlock", "renote", "resend", "cancel"}

Due(c) == clock > job[c].now + Timeout

At(c, where) ==
    /\ pc[c] = where
    /\ ~Due(c) \/ job[c].deaf
    /\ UNCHANGED world

\* output_timed_out: the lock and the backup stay.
TimedOut(c) ==
    /\ pc[c] \in Served
    /\ clock >= job[c].now + Timeout
    /\ ~job[c].deaf
    /\ Stop(c)
    /\ UNCHANGED <<world, cacheVars, stolen>>

\* sig_pipe with ignore_sigpipes, while something is sent to the client.
PipeIgnored(c) ==
    /\ \/ At(c, "body") \/ At(c, "cancel")
       \/ At(c, "sending") /\ job[c].same
    /\ ~job[c].deaf
    /\ Learn(c, "deaf", TRUE)
    /\ UNCHANGED <<pc, cacheVars, stolen>>

---------------------------------------------------------------------------
(* cache_lookup                                                            *)

\* Mutant: a lock is broken in the very second its holder's alarm is due.
LockedBroken(c) ==
    /\ At(c, "locked")
    /\ CASE disk["lock"] = None -> Go(c, "stat") /\ UNCHANGED job
         [] disk["lock"] # None /\ job[c].now - disk["lock"].at >= Timeout ->
              Go(c, "break") /\ Learn(c, "seen", disk["lock"].by)
         [] OTHER -> Go(c, "sending") /\ UNCHANGED job
    /\ UNCHANGED <<cacheVars, stolen>>

\* locked: is there a lock file, and is it too old?
Locked(c) ==
    /\ At(c, "locked")
    /\ CASE disk["lock"] = None -> Go(c, "stat") /\ UNCHANGED job
         [] disk["lock"] # None /\ job[c].now - disk["lock"].at > Timeout ->
              Go(c, "break") /\ Learn(c, "seen", disk["lock"].by)
         [] OTHER -> Go(c, "sending") /\ UNCHANGED job
    /\ UNCHANGED <<cacheVars, stolen>>

\* A file is removed because the lock file looked at earlier was too old.
RemoveLock(c) ==
    /\ disk' = Unlink(disk, "lock")
    /\ stolen' = (stolen \/ (disk["lock"] # None /\ disk["lock"].by # job[c].seen))
    /\ UNCHANGED info

Break(c) ==
    /\ At(c, "break")
    /\ RemoveLock(c)
    /\ Go(c, "stat")
    /\ Learn(c, "seen", None)

Stat(c) ==
    /\ At(c, "stat")
    /\ Go(c, IF disk["doc"] # None THEN "info" ELSE "create")
    /\ UNCHANGED <<cacheVars, job, stolen>>

\* Mutant: an entry is good in the second it expires, too.
FreshStill(c) ==
    /\ info # None
    /\ info.ex - Margin >= job[c].now
    /\ ~job[c].forced

\* HTCacheInfo_for: the last entry counts.
Fresh(c) ==
    /\ info # None
    /\ info.ex - Margin > job[c].now
    /\ ~job[c].forced

\* Mutant: the server is asked whether the document has changed since it was
\* last checked, not since it was modified.
InfoChecked(c) ==
    /\ At(c, "info")
    /\ IF Fresh(c) THEN Go(c, "found") /\ UNCHANGED job
       ELSE /\ Go(c, "relock")
            /\ Learn(c, "ims", IF info = None THEN 0 ELSE info.lc)
    /\ UNCHANGED <<cacheVars, stolen>>

Info(c) ==
    /\ At(c, "info")
    /\ IF Fresh(c) THEN Go(c, "found") /\ UNCHANGED job
       ELSE /\ Go(c, "relock")
            /\ job' = [job EXCEPT
                   ![c].ims = CASE info = None -> 0
                                [] info # None /\ info.lm = 0 -> info.lc
                                [] OTHER -> info.lm,
                   ![c].misled = info # None /\ info.lm = 0]
    /\ UNCHANGED <<cacheVars, stolen>>

\* do_lock: open with O_EXCL.
DoLock(c, next) ==
    IF disk["lock"] # None
    THEN Go(c, "sending") /\ UNCHANGED cacheVars
    ELSE /\ disk' = [disk EXCEPT !["lock"] = NewFile(c)]
         /\ Go(c, next)
         /\ UNCHANGED info

Relock(c) == At(c, "relock") /\ DoLock(c, "backup") /\ UNCHANGED <<job, stolen>>
Create(c) == At(c, "create") /\ DoLock(c, "ask") /\ UNCHANGED <<job, stolen>>

Backup(c) ==
    /\ At(c, "backup")
    /\ disk' = Rename(disk, "doc", "backup")
    /\ Go(c, "ask")
    /\ UNCHANGED <<info, job, stolen>>

---------------------------------------------------------------------------
(* The answer is on disk, or comes from the server and is not stored.      *)

\* The file that has the name now is opened.
Found(c) ==
    /\ At(c, "found")
    /\ Go(c, "sending")
    /\ Learn(c, "got", disk["doc"])
    /\ UNCHANGED <<cacheVars, stolen>>

\* SIGPIPE, which is ignored while the cache is written.
ClientGone(c) ==
    /\ At(c, "sending")
    /\ ~job[c].same
    /\ Stop(c)
    /\ UNCHANGED <<cacheVars, stolen>>

Sent(c) ==
    /\ At(c, "sending")
    /\ Leave(c, 0)
    /\ UNCHANGED <<cacheVars, stolen>>

---------------------------------------------------------------------------
(* The stream to the cache: cache_put_char, cache_free.  A copy's lifetime *)
(* is given by the server (Expires) or worked out (figure_out_expires).    *)

\* Is the copy worth storing?
WorthIt(c, life, given) ==
    IF given THEN clock + life > job[c].now + Margin ELSE life > Margin

\* The document has not changed: status 304.  Without Expires, what is not
\* worth storing gets no expiry date; with one already over, the answer is
\* taken for a document that is not stored.
NotModified(c) ==
    /\ At(c, "ask")
    /\ job[c].ims # 0 /\ origin <= job[c].ims
    /\ \E life \in Lifetimes, given \in BOOLEAN :
         IF given /\ ~WorthIt(c, life, given)
         THEN Go(c, "cancel") /\ UNCHANGED job
         ELSE /\ Go(c, "reread")
              /\ job' = [job EXCEPT ![c].v = origin,
                     ![c].ex = IF WorthIt(c, life, given) THEN clock + life ELSE 0]
    /\ UNCHANGED <<cacheVars, stolen>>

\* The document comes: status 200.
Document(c) ==
    /\ At(c, "ask")
    /\ job[c].ims = 0 \/ origin > job[c].ims
    /\ \E life \in Lifetimes, given \in BOOLEAN :
         /\ WorthIt(c, life, given)
         /\ Go(c, "body")
         /\ job' = [job EXCEPT ![c].v = origin, ![c].ex = clock + life]
    /\ UNCHANGED <<cacheVars, stolen>>

\* Another status, no answer at all, or a document not worth storing.
Junk(c) ==
    /\ At(c, "ask")
    /\ Go(c, "cancel")
    /\ UNCHANGED <<cacheVars, job, stolen>>

\* All of the document has come.  One whose length the server did not give is
\* whole when the server ends it.
Body(c) ==
    /\ At(c, "body")
    /\ Write(c, Copy(c, TRUE))
    /\ Go(c, "created")
    /\ UNCHANGED <<info, job, stolen>>

\* Mutant: the length is not compared.
MismatchStored(c) ==
    /\ At(c, "body")
    /\ Write(c, Copy(c, FALSE))
    /\ Go(c, "created")
    /\ UNCHANGED <<info, job, stolen>>

\* Content-Length mismatch.  What has come counts as cached all the same.
Mismatch(c) ==
    /\ At(c, "body")
    /\ Write(c, Copy(c, FALSE))
    /\ Go(c, "cancel")
    /\ Learn(c, "status", StoredStatus)
    /\ UNCHANGED <<info, stolen>>

Holds(c) == disk["lock"] # None /\ disk["lock"].by = c

\* cache_created: the lock file, whoever has made it, becomes the document,
Created(c) ==
    /\ At(c, "created")
    /\ disk' = Rename(disk, "lock", "doc")
    /\ stolen' = (stolen \/ ~Holds(c))
    /\ Go(c, IF job[c].ims # 0 THEN "discard" ELSE "note")
    /\ UNCHANGED <<info, job>>

\* the backup is removed,
Discard(c) ==
    /\ At(c, "discard")
    /\ disk' = Unlink(disk, "backup")
    /\ Go(c, "note")
    /\ UNCHANGED <<info, job, stolen>>

\* HTCacheInfo_writeEntryFor: an entry is appended.
Enter(ex, lm) ==
    info' = [lc |-> clock, ex |-> ex, lm |-> lm,
             anyEx |-> IF ex = 0 /\ info # None THEN info.anyEx ELSE ex,
             anyLm |-> IF lm = 0 /\ info # None THEN info.anyLm ELSE lm]

\* and an entry is appended, with the date of the document.
Note(c) ==
    /\ At(c, "note")
    /\ Enter(job[c].ex, job[c].v)
    /\ Leave(c, StoredStatus)
    /\ UNCHANGED <<disk, stolen>>

\* cache_not_modified: the date in the last entry is kept,
Reread(c) ==
    /\ At(c, "reread")
    /\ Learn(c, "ims", IF info = None THEN 0 ELSE info.lm)
    /\ Go(c, "restore")
    /\ UNCHANGED <<cacheVars, stolen>>

\* the backup becomes the document again (with its new expiry date, which is now
\* if it is not worth storing),
Restored(c) ==
    [disk EXCEPT !["backup"] =
       IF @ = None THEN None
       ELSE [@ EXCEPT !.ex = IF job[c].ex = 0 THEN clock ELSE job[c].ex]]

Restore(c) ==
    /\ At(c, "restore")
    /\ disk' = Rename(Restored(c), "backup", "doc")
    /\ Go(c, "unlock")
    /\ UNCHANGED <<info, job, stolen>>

Unlock(c) ==
    /\ At(c, "unlock")
    /\ disk' = Unlink(disk, "lock")
    /\ Go(c, "renote")
    /\ UNCHANGED <<info, job, stolen>>

Renote(c) ==
    /\ At(c, "renote")
    /\ Enter(job[c].ex, job[c].ims)
    /\ Go(c, "resend")
    /\ UNCHANGED <<disk, job, stolen>>

\* and the document is sent from the disk, if it is there.
Resend(c) ==
    /\ At(c, "resend")
    /\ Go(c, "sending")
    /\ job' = [job EXCEPT ![c].got = disk["doc"], ![c].same = TRUE]
    /\ UNCHANGED <<cacheVars, stolen>>

\* cache_cancel: only the lock goes.
Cancel(c) ==
    /\ At(c, "cancel")
    /\ disk' = Unlink(disk, "lock")
    /\ stolen' = (stolen \/ (disk["lock"] # None /\ ~Holds(c)))
    /\ Leave(c, job[c].status)
    /\ UNCHANGED info

Request(c) ==
    \/ Locked(c) \/ Break(c) \/ Stat(c) \/ Info(c) \/ Relock(c) \/ Create(c)
    \/ Backup(c) \/ Found(c) \/ Sent(c) \/ ClientGone(c) \/ NotModified(c)
    \/ Document(c) \/ Junk(c) \/ Body(c) \/ Mismatch(c) \/ Created(c) \/ Discard(c)
    \/ Note(c) \/ Reread(c) \/ Restore(c) \/ Unlock(c) \/ Renote(c) \/ Resend(c)
    \/ Cancel(c) \/ TimedOut(c) \/ PipeIgnored(c)
==============================================================================
