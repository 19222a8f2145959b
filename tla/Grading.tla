------------------------------ MODULE Grading -------------------------------
(***************************************************************************)
(* What a judge promises about a submission, with no file, process or test *)
(* in sight: it enters at most one line into the list of results, the line *)
(* gives the right verdict on the submitted program, and it turns down     *)
(* only programs that do not compile.  `disturbed' collects the requests   *)
(* another process has interfered with, for which nothing is promised.     *)
(* Judge and ContestJudge implement this specification.                    *)
(***************************************************************************)
EXTENDS Sequences

CONSTANTS
    Req,       \* the requests
    Verdict,   \* what can be entered for a submission
    Right(_),  \* Right(j): the verdict job j deserves
    Faulty(_)  \* Faulty(j): the program of job j does not compile

VARIABLES
    job,       \* what each request submits
    status,    \* "idle", "taken", then "graded", "closed" or "lost"
    log,       \* the list of results
    disturbed

vars == <<job, status, log, disturbed>>

Init ==
    /\ status = [r \in Req |-> "idle"]
    /\ log = <<>>
    /\ disturbed = {}

Move(r, from, to) == status[r] = from /\ status' = [status EXCEPT ![r] = to]

\* The judge starts to work on a submission.
Take(r) == Move(r, "idle", "taken") /\ UNCHANGED log

\* The request is incomplete, or its sender has no right to submit.
TurnAway(r) == Move(r, "idle", "closed") /\ UNCHANGED log

Grade(r) ==
    /\ Move(r, "taken", "graded")
    /\ \E v \in Verdict :
          /\ r \notin disturbed => v = Right(job[r])
          /\ log' = Append(log, [req |-> r, verdict |-> v])

Reject(r) ==
    /\ Move(r, "taken", "closed")
    /\ Faulty(job[r]) \/ r \in disturbed
    /\ UNCHANGED log

\* The judge is killed.
Lose(r) == Move(r, "taken", "lost") /\ UNCHANGED log

Next ==
    /\ UNCHANGED job
    /\ disturbed \subseteq disturbed'
    /\ \/ UNCHANGED <<status, log>>
       \/ \E r \in Req : Take(r) \/ TurnAway(r) \/ Grade(r) \/ Reject(r) \/ Lose(r)

Spec == Init /\ [][Next]_vars
=============================================================================
