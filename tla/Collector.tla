------------------------------- MODULE Collector -------------------------------
(***************************************************************************)
(* The garbage collection of the cache, HTgc.c, run by a child of httpd    *)
(* while other children use the cache.  Which of the files that have not   *)
(* expired are worth keeping (eval, calculate_value) is left open.         *)
(***************************************************************************)
EXTENDS ProxyCache

VARIABLES
    sweep,    \* what each collector has read and decided
    report    \* .gc_info

collectorVars == <<sweep, report>>

Findings == [now : Time, at : Time, files : SUBSET {"doc", "backup"}, locked : BOOLEAN,
             entry : [lc : Time, ex : Nat, lm : Time] \cup {None},
             kill : SUBSET {"doc", "backup"}]

Idle == [now |-> 0, at |-> 0, files |-> {}, locked |-> FALSE, entry |-> None, kill |-> {}]

Collecting(c) == pc[c] \in {"scan", "unstick", "read", "collect", "flush"}

\* The last collection, before the daemon was started, has found this many files.
CollectorInit(files) ==
    /\ sweep = [c \in Child |-> Idle]
    /\ report = IF files = 0 THEN None ELSE [used |-> Bytes * files, freed |-> 0]

Decide(c, what, value) == sweep' = [sweep EXCEPT ![c][what] = value]

\* gc_read_dir: the names in the directory.
Scan(c) ==
    /\ pc[c] = "scan"
    /\ sweep' = [sweep EXCEPT ![c].now = clock,
                              ![c].files = {n \in {"doc", "backup"} : disk[n] # None},
                              ![c].at = IF disk["doc"] = None THEN 0 ELSE disk["doc"].at,
                              ![c].locked = disk["lock"] # None]
    /\ IF disk["lock"] # None /\ clock - disk["lock"].at > Timeout
       THEN Go(c, "unstick") /\ Learn(c, "seen", disk["lock"].by)
       ELSE Go(c, "read") /\ UNCHANGED job
    /\ UNCHANGED <<world, cacheVars, stolen, report>>

\* A lock file that is too old is removed, and not counted.
Unstick(c) ==
    /\ pc[c] = "unstick"
    /\ RemoveLock(c)
    /\ Decide(c, "locked", FALSE)
    /\ Go(c, "read")
    /\ Learn(c, "seen", None)
    /\ UNCHANGED <<world, report>>

\* HTCacheInfo_next, set_attributes: a later entry counts, except for what it
\* leaves zero.  Without an entry there is only the time the file was written.
ReadInfo(c) ==
    /\ pc[c] = "read"
    /\ Decide(c, "entry",
           IF info = None THEN [lc |-> sweep[c].at, ex |-> 0, lm |-> 0]
           ELSE [lc |-> info.lc, ex |-> info.anyEx, lm |-> info.anyLm])
    /\ Go(c, "collect")
    /\ UNCHANGED <<world, cacheVars, job, stolen, report>>

Expired(c) == sweep[c].entry.ex \in 1 .. sweep[c].now

\* evaluate, get_threshold, collect: the cache info file is emptied.  What has
\* expired is always collected.
Collect(c) ==
    /\ pc[c] = "collect"
    /\ \E kill \in SUBSET sweep[c].files :
         /\ "doc" \in sweep[c].files /\ Expired(c) => "doc" \in kill
         /\ Decide(c, "kill", kill)
    /\ info' = None
    /\ Go(c, "flush")
    /\ UNCHANGED <<world, disk, job, stolen, report>>

\* One file after the other is removed, under the name it was found.
Sweep(c) ==
    /\ pc[c] = "flush"
    /\ \E n \in sweep[c].kill \cap sweep[c].files :
         /\ disk' = Unlink(disk, n)
         /\ sweep' = [sweep EXCEPT ![c].files = @ \ {n}]
    /\ UNCHANGED <<world, info, pc, job, stolen, report>>

Rewrite(entry) ==
    info' = [lc |-> entry.lc, ex |-> entry.ex, lm |-> entry.lm,
             anyEx |-> entry.ex, anyLm |-> entry.lm]

\* The entries of the files kept are written from the beginning of the file,
\* over what has been appended meanwhile.  With no file left, it is removed.  The
\* report says how many bytes are used, and how many have been freed.
Flush(c) ==
    /\ pc[c] = "flush"
    /\ sweep[c].kill \cap sweep[c].files = {}
    /\ CASE "doc" \in sweep[c].files -> Rewrite(sweep[c].entry)
         [] sweep[c].files = {"backup"} -> info' = None
         [] sweep[c].files = {} /\ ~sweep[c].locked -> info' = None
         [] OTHER -> UNCHANGED info
    /\ report' = [used |-> Bytes * Cardinality(sweep[c].files),
                  freed |-> Bytes * Cardinality(sweep[c].kill)]
    /\ sweep' = [sweep EXCEPT ![c] = Idle]
    /\ Go(c, "gone")
    /\ UNCHANGED <<world, disk, job, stolen>>

Collection(c) ==
    \/ Scan(c) \/ Unstick(c) \/ ReadInfo(c) \/ Collect(c) \/ Sweep(c) \/ Flush(c)
==============================================================================
