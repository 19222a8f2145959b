------------------------------- MODULE Requests -------------------------------
(***************************************************************************)
(* The requests of one part of the site: httpd starts one process for each *)
(* (HTDaemon.c), lets them run at the same time, and stops a script that   *)
(* runs too long (script_timed_out).                                       *)
(***************************************************************************)
EXTENDS Lists, SequencesExt

CONSTANTS
    Req,       \* the requests
    User,      \* names found in session files
    Accounts,  \* the names in users.txt, in its order
    Workload   \* what the requests may ask for: functions on Req

VARIABLES
    query,     \* the query string of each request, and whose session it names
    pc,        \* where each request is
    before     \* history: the requests, not turned down, that had ended
               \*   when this one came

process == <<query, pc, before>>

Finished == {"done", "dead"}
Ended    == Finished \cup {"refused"}

ProcessInit ==
    /\ query \in Workload
    /\ pc = [r \in Req |-> "idle"]
    /\ before = [r \in Req |-> {}]

Arrive(r, op) ==
    /\ query[r].op = op
    /\ pc[r] = "idle"
    /\ before' = [before EXCEPT ![r] = {q \in Req : pc[q] \in Finished}]
    /\ UNCHANGED query

At(r, where) == pc[r] = where /\ UNCHANGED <<query, before>>

Go(r, where) == pc' = [pc EXCEPT ![r] = where]

\* Only the script is stopped, not the shell commands it has started.
Kill(r) ==
    /\ pc[r] \notin Ended \cup {"idle"}
    /\ Go(r, "dead")
    /\ UNCHANGED <<query, before>>

\* The requests of some kinds that have come, except those turned down.
Those(ops) == {r \in Req : query[r].op \in ops /\ pc[r] \notin {"idle", "refused"}}

\* One of the two had ended when the other came.
Apart(q, r) == q \in before[r] \/ r \in before[q]

\* None overlaps with another one.
OneByOne(requests) == \A q, r \in requests : q # r => Apart(q, r)

Killed(requests) == \E r \in requests : pc[r] = "dead"
\* Those who had ended when a request came have ended.
Past == \A r \in Req : before[r] \subseteq {q \in Req : pc[q] \in Finished}

\* No number is left out: with one, some request has each of the smaller ones.
Dense(number) ==
    \A r \in Req :
        /\ pc[r] = "idle" => number[r] = 0
        /\ \A n \in 1 .. number[r] : \E q \in Req : number[q] = n
==============================================================================
