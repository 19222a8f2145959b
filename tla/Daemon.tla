-------------------------------- MODULE Daemon --------------------------------
(***************************************************************************)
(* The server loop of httpd (HTDaemon.c): it starts a child for each       *)
(* connection, lets some of them collect garbage when they are done, and   *)
(* learns from their ends how much is in the cache.                        *)
(*                                                                         *)
(* The system gives no process number twice.                               *)
(***************************************************************************)
EXTENDS Collector, FiniteSetsExt

CONSTANTS
    MaxKilos,  \* cache_max_k
    Workload   \* what the children are started for: functions on Child

VARIABLES
    kind,      \* to serve a client ("get"), one who bypasses the cache ("bypass"), or
               \*   only to collect garbage ("daily")
    usage,     \* HTCacheUsage, in kilobytes
    gc_pid,    \* who is collecting garbage
    forked     \* the child just started that will collect, until its number is
               \*   stored

daemonVars == <<kind, usage, gc_pid, forked>>

\* read_gc_results: what the collector has freed is subtracted, unless that is
\* far from what it has found.
Corrected(kilos) ==
    IF report = None THEN kilos
    ELSE LET less == kilos - report.freed \div 1024
         IN  IF \/ less < 0
                \/ less < report.used \div 1140
                \/ less > report.used \div 930
             THEN report.used \div 1024
             ELSE less

\* The daemon recovers what the last report says is in the cache.
DaemonInit ==
    /\ kind \in Workload
    /\ usage = Corrected(0)
    /\ gc_pid = None
    /\ forked = None

\* time_to_do_gc: the cache is full.  The daily collection is left to Daily.
Full == usage >= MaxKilos

\* A connection is accepted: fork.  If the child is to collect, its number is
\* stored afterwards.
Accept(c) ==
    /\ forked = None
    /\ pc[c] = "none" /\ kind[c] \in {"get", "bypass"}
    /\ LET gc == gc_pid = None /\ Full
       IN  /\ forked' = IF gc THEN [pid |-> c, daily |-> FALSE] ELSE None
           /\ job' = [job EXCEPT ![c] = [Blank EXCEPT !.gc = gc, !.now = clock,
                                                 !.forced = kind[c] = "bypass"]]
    /\ Go(c, "locked")
    /\ UNCHANGED <<world, cacheVars, stolen, collectorVars, kind, usage, gc_pid>>

\* Mutant: get_next_timeout does not look at gc_pid.
DailyAgain(c) ==
    /\ forked = None
    /\ pc[c] = "none" /\ kind[c] = "daily"
    /\ forked' = [pid |-> c, daily |-> TRUE]
    /\ Go(c, "scan")
    /\ Learn(c, "gc", TRUE)
    /\ UNCHANGED <<world, cacheVars, stolen, collectorVars, kind, usage, gc_pid>>

\* select has timed out: fork, only to collect.
Daily(c) ==
    /\ forked = None
    /\ gc_pid = None
    /\ pc[c] = "none" /\ kind[c] = "daily"
    /\ forked' = [pid |-> c, daily |-> TRUE]
    /\ Go(c, "scan")
    /\ Learn(c, "gc", TRUE)
    /\ UNCHANGED <<world, cacheVars, stolen, collectorVars, kind, usage, gc_pid>>

\* fork fails: the connection is closed.  That it was time to collect is
\* forgotten.
ForkFails(c) ==
    /\ forked = None
    /\ pc[c] = "none"
    /\ Go(c, "reaped")
    /\ UNCHANGED <<world, cacheVars, job, stolen, collectorVars, daemonVars>>

---------------------------------------------------------------------------
(* sig_child, as the handler of SIGCLD and called after a fork.            *)

Gone == {c \in Child : pc[c] = "gone"}

Kilos(c) == HTExitStatusToKilos(job[c].status)

\* The children that have ended are waited for, one after the other; the
\* collector's report counts when it is its turn.
Reap(pid) ==
    /\ \E before \in SUBSET (Gone \ {pid}) :
         LET Add(set) == MapThenSumSet(Kilos, set)
         IN  usage' = IF pid \in Gone
                      THEN Corrected(usage + Add(before)) + Add(Gone \ before)
                      ELSE usage + Add(Gone)
    /\ pc' = [c \in Child |-> IF c \in Gone THEN "reaped" ELSE pc[c]]
    /\ job' = [c \in Child |-> IF c \in Gone THEN Blank ELSE job[c]]
    /\ gc_pid' = IF pid \in Gone THEN None ELSE pid
    /\ UNCHANGED <<world, cacheVars, stolen, collectorVars, kind>>

\* The handler may run before the number of the new child has been stored.
SigChild ==
    /\ Gone # {}
    /\ Reap(gc_pid)
    /\ UNCHANGED forked

\* The number is stored; after Accept, children that have ended are waited for.
Forked ==
    /\ forked # None
    /\ forked' = None
    /\ IF forked.daily
       THEN /\ gc_pid' = forked.pid
            /\ UNCHANGED <<world, cacheVars, pc, job, stolen, collectorVars, kind, usage>>
       ELSE Reap(forked.pid)

Loop(c) == Accept(c) \/ Daily(c) \/ ForkFails(c)
==============================================================================
