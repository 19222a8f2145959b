-------------------------------- MODULE Script --------------------------------
(***************************************************************************)
(* How httpd runs one program of the site for a request: HTCallScript      *)
(* (HTScript.c), called by HTHandle (HTDaemon.c) in a process of its own.  *)
(* Which requests run a script is decided in Handle, which goes on from    *)
(* "handle" to "call", and comes back to "check" when the script redirects *)
(* the request.                                                            *)
(* The process gives the body of the request to the script through one     *)
(* pipe, reads its output from another one, passes it on to the client,    *)
(* waits for the script, and stops it if that takes too long.              *)
(*                                                                         *)
(* Data are counted in blocks: of the body, of the output, of what a pipe  *)
(* holds.  A script keeps the ends of both pipes that it does not use      *)
(* open: its input never ends, and it is never told that nobody reads its  *)
(* output.                                                                 *)
(***************************************************************************)
EXTENDS Integers, Sequences, SequencesExt, FiniteSets

CONSTANTS
    PipeSize,   \* blocks in a pipe
    Buffer,     \* INPUT_BUFFER_SIZE: blocks fread waits for
    Hold,       \* max_content_len_buf: blocks kept to find out their number
    MaxHops,    \* redirections on the fly, 10 in HTDaemon.c
    DocSize,    \* the length of a document in blocks
    Incoming    \* the requests

\* What scripts do: read a block of the body (or the line end after it), read until
\* there is no more, write a block, start a process that keeps the output open,
\* hang.  In front of the first block is a header, which may be a redirection or
\* have no end.  They may or may not die of SIGTERM.
Plan == [ops : Seq({"in", "all", "out", "fork", "hang"}),
         header : {"type", "local", "remote", "none"}, traps : BOOLEAN]

\* content_length and whether there is a content_type, what the client sends, whether
\* it takes what it is sent, and what scripts do: the first one that is called, and
\* those it redirects to.
Query == [body : Nat, typed : BOOLEAN, sends : Nat, takes : BOOLEAN, scripts : Seq(Plan)]

Planned == \A q \in Incoming : q.scripts \in Seq(Plan) /\ q.scripts # <<>>

ASSUME ScriptAssumption ==
    /\ PipeSize \in Nat \ {0} /\ Buffer \in Nat \ {0}
    /\ Hold \in Nat /\ MaxHops \in Nat /\ DocSize \in Nat \ {0}
    /\ Planned /\ \A q \in Incoming : q.sends <= q.body

VARIABLES
    req,      \* the request
    client,   \* what it has sent that is not read, has got, is told, whether it left
    server,   \* the process of httpd; with out.content_length > 0, and a content_type
    alarm,    \* its alarm, and whether script_pid is that of the script (or 0)
    script,   \* the script running now, and the process it has started
    pin,      \* the number of blocks in the pipe to the script
    pout,     \* the blocks in the pipe from it
    down      \* whether all of httpd has been killed

pipes == <<pin, pout>>
scriptVars == <<req, client, server, alarm, script, pipes, down>>

Over == {"ended", "stopped", "left"}

\* The hop-th of a sequence, whose last one stands for all that follow.
Nth(seq, hop) == seq[IF hop > Len(seq) THEN Len(seq) ELSE hop]

ScriptPlan == Nth(req.scripts, server.hop)

\* Whether the script reads the pipe, and whether that is written to.
HasBody == req.body > 0
Feeds   == HasBody \/ server.typed

Unstarted == [state |-> "gone", at |-> 1, wrote |-> 0, termed |-> FALSE, child |-> FALSE]

ScriptInit ==
    /\ req \in Incoming
    /\ client = [unread |-> req.sends, got |-> <<>>, told |-> 0, left |-> FALSE]
    /\ server = [pc |-> "check", hop |-> 1, remain |-> 0, headers |-> TRUE, read |-> <<>>,
                 held |-> <<>>, direct |-> FALSE, redirect |-> FALSE,
                 out |-> <<>>, then |-> "wait",
                 sized |-> FALSE, typed |-> req.typed]
    /\ alarm = [state |-> "off", script |-> FALSE]
    /\ script = Unstarted
    /\ pin = 0 /\ pout = <<>>
    /\ down = FALSE

ServerAt(where) == server.pc = where /\ ~down /\ UNCHANGED <<req, down>>
ServerGoes(where) == server' = [server EXCEPT !.pc = where]

-----------------------------------------------------------------------------
(* The script and the process it has started.                              *)

Running == script.state = "run"

Step(op) ==
    /\ Running /\ ~down
    /\ script.at <= Len(ScriptPlan.ops)
    /\ ScriptPlan.ops[script.at] = op
    /\ UNCHANGED <<req, client, server, alarm, down>>

Advance == script' = [script EXCEPT !.at = @ + 1]

\* Without a body its standard input is that of httpd, where there is nothing.
ReadIn ==
    /\ Step("in")
    /\ HasBody => pin > 0
    /\ pin' = IF HasBody THEN pin - 1 ELSE pin
    /\ Advance
    /\ UNCHANGED pout

\* With a body the end never comes: the script has the other end of that pipe open.
ReadAll ==
    /\ Step("all")
    /\ IF HasBody THEN pin > 0 /\ pin' = pin - 1 /\ UNCHANGED script
               ELSE Advance /\ UNCHANGED pin
    /\ UNCHANGED pout

WriteOut ==
    /\ Step("out")
    /\ Len(pout) < PipeSize
    /\ pout' = Append(pout, <<server.hop, script.wrote + 1>>)
    /\ script' = [script EXCEPT !.at = @ + 1, !.wrote = @ + 1]
    /\ UNCHANGED pin

Fork ==
    /\ Step("fork")
    /\ script' = [script EXCEPT !.at = @ + 1, !.child = TRUE]
    /\ UNCHANGED pipes

\* It has come to its end, or dies of SIGTERM; the handler of SIGCLD waits for it.
Exit ==
    /\ Running /\ ~down
    /\ script.at > Len(ScriptPlan.ops) \/ script.termed
    /\ script' = [script EXCEPT !.state = "gone"]
    /\ UNCHANGED <<req, client, server, alarm, down, pipes>>

ScriptStep == ReadIn \/ ReadAll \/ WriteOut \/ Fork \/ Exit

ChildEnds ==
    /\ script.child /\ ~down
    /\ script' = [script EXCEPT !.child = FALSE]
    /\ UNCHANGED <<req, client, server, alarm, down, pipes>>

-----------------------------------------------------------------------------
(* HTCallScript: the body.                                                 *)

Begun == [server EXCEPT !.pc = IF Feeds THEN "feed" ELSE "load", !.remain = req.body,
             !.headers = TRUE, !.read = <<>>, !.held = <<>>, !.direct = FALSE,
             !.redirect = FALSE]

\* Mutant: script_timeout_on is forgotten.
CallUntimed ==
    /\ ServerAt("call")
    /\ script' = [Unstarted EXCEPT !.state = "run"]
    /\ pin' = 0 /\ pout' = <<>>
    /\ server' = Begun
    /\ UNCHANGED <<client, alarm>>

\* pipe, fork, execve, script_timeout_on
Call ==
    /\ ServerAt("call")
    /\ script' = [Unstarted EXCEPT !.state = "run"]
    /\ pin' = 0 /\ pout' = <<>>
    /\ alarm' = [state |-> "on", script |-> TRUE]
    /\ server' = Begun
    /\ UNCHANGED client

\* HTInputSocket_getBlock waits for the client.
GetBlock ==
    /\ ServerAt("feed")
    /\ \/ /\ server.remain > 0 /\ client.unread > 0
          /\ client' = [client EXCEPT !.unread = @ - 1]
          /\ ServerGoes("write")
       \/ /\ server.remain = 0 \/ (client.unread = 0 /\ client.left)
          /\ ServerGoes("newline")
          /\ UNCHANGED client
    /\ UNCHANGED <<alarm, script, pipes>>

\* A script that does not read the pipe has left it open, for what it starts too.
Readable == Running \/ (script.child /\ ~HasBody)

\* Nobody can read the pipe any more.  SIGPIPE is ignored, but its handler sets all
\* signals anew, and from then on SIGALRM is ignored as well.
SigPipeIgnored == ~Readable /\ alarm' = [alarm EXCEPT !.state = "ignored"] /\ UNCHANGED pin

Written == Readable /\ pin < PipeSize /\ pin' = pin + 1 /\ UNCHANGED alarm

WriteBlock ==
    /\ ServerAt("write")
    /\ \/ Written /\ server' = [server EXCEPT !.pc = "feed", !.remain = @ - 1]
       \/ SigPipeIgnored /\ ServerGoes("newline")
    /\ UNCHANGED <<client, script, pout>>

WriteNewline ==
    /\ ServerAt("newline")
    /\ Written \/ SigPipeIgnored
    /\ ServerGoes("load")
    /\ UNCHANGED <<client, script, pout>>

Feed == GetBlock \/ WriteBlock \/ WriteNewline

-----------------------------------------------------------------------------
(* HTLoadScriptResult, with the HTContentCounter it writes to.             *)

\* Mutant: the output ends with the script.
EofWithScript == ~Running

\* Mutant: close(pout[1]) is missing, and the server itself could write to it.
EofNever == FALSE

\* The output ends when all have ended that can write to it.
Eof == pout = <<>> /\ ~Running /\ ~script.child

\* fread waits until the buffer is full.
ReadOut ==
    /\ ServerAt("load")
    /\ pout # <<>> /\ Len(server.read) < Buffer
    /\ server' = [server EXCEPT !.read = Append(@, Head(pout))]
    /\ pout' = Tail(pout)
    /\ UNCHANGED <<client, alarm, script, pin>>

\* Give blocks to the client and go on with "where".
Answer(blocks, where) ==
    server' = [server EXCEPT !.pc = IF blocks = <<>> THEN where ELSE "send",
                  !.read = <<>>, !.headers = FALSE, !.out = blocks, !.then = where]

\* HTScriptWrapper: when the header has passed, the client is told the length of the
\* document that was found for the path, if there is one.  Otherwise blocks are kept
\* until their number is known, unless there are too many.
PutBlock ==
    LET known  == server.headers /\ server.sized
        all    == server.held \o server.read
        giveUp == server.direct \/ known \/ Len(all) >= Hold
    IN /\ server' = [server EXCEPT !.read = <<>>, !.headers = FALSE, !.direct = giveUp,
                        !.held = IF giveUp THEN <<>> ELSE all,
                        !.out  = IF giveUp THEN all ELSE <<>>,
                        !.pc   = IF giveUp THEN "send" ELSE "load", !.then = "load"]
       /\ client' = [client EXCEPT !.told = IF known THEN DocSize ELSE @]

\* The header of a redirection on the fly may have a Content-Type in it.
Redirect ==
    \E typed \in {server.typed, TRUE} :
        server' = [server EXCEPT !.pc = "wait", !.read = <<>>, !.redirect = TRUE,
                                 !.typed = typed]

\* A bufferload that is not the last, empty one.
LoadBlock ==
    /\ ServerAt("load")
    /\ server.read # <<>>
    /\ Len(server.read) = Buffer \/ Eof
    /\ \/ ScriptPlan.header = "type"   /\ PutBlock
       \/ ScriptPlan.header = "none"   /\ server' = [server EXCEPT !.read = <<>>]
                                       /\ UNCHANGED client
       \/ ScriptPlan.header = "local"  /\ Redirect /\ UNCHANGED client
       \/ ScriptPlan.header = "remote" /\ Answer(<<"moved">>, "wait") /\ UNCHANGED client
    /\ UNCHANGED <<alarm, script, pipes>>

\* The end of the output: the client is told the number of the blocks kept.
LoadEnd ==
    /\ ServerAt("load")
    /\ server.read = <<>> /\ Eof
    /\ Answer(server.held, "wait")
    /\ client' = [client EXCEPT !.told = IF server.direct THEN @ ELSE Len(server.held)]
    /\ UNCHANGED <<alarm, script, pipes>>

\* What is written to a client that has left is lost, or brings SIGPIPE.
Send ==
    /\ ServerAt("send")
    /\ \/ /\ client.left \/ req.takes
          /\ server' = [server EXCEPT !.out = Tail(@),
                           !.pc = IF Len(server.out) = 1 THEN server.then ELSE @]
          /\ client' = IF client.left THEN client
                       ELSE [client EXCEPT !.got = Append(@, Head(server.out))]
       \/ client.left /\ ServerGoes("pipe") /\ UNCHANGED client
    /\ UNCHANGED <<alarm, script, pipes>>

-----------------------------------------------------------------------------
(* The end of HTCallScript and of the request.                             *)

Wait ==
    /\ ServerAt("wait")
    /\ ~Running
    /\ ServerGoes("off")
    /\ UNCHANGED <<client, alarm, script, pipes>>

\* timeout_off first sets script_pid to 0.
PidOff ==
    /\ \/ ServerAt("off") /\ ServerGoes("alarm")
       \/ ServerAt("pipe") /\ ServerGoes("quit")
    /\ alarm' = [alarm EXCEPT !.script = FALSE]
    /\ UNCHANGED <<client, script, pipes>>

\* Short answers are taken by the system at once.
Tell(what) ==
    client' = IF client.left THEN client ELSE [client EXCEPT !.got = Append(@, what)]

\* HTHandle goes on: a redirection on the fly is followed, with the length of the
\* body the request came with.
AlarmOff ==
    /\ ServerAt("alarm")
    /\ alarm' = [alarm EXCEPT !.state = "off"]
    /\ \/ ~server.redirect /\ ServerGoes("ended") /\ UNCHANGED client
       \/ server.redirect /\ server.hop > MaxHops /\ ServerGoes("ended") /\ Tell("error")
       \/ /\ server.redirect /\ server.hop <= MaxHops
          /\ server' = [server EXCEPT !.pc = "check", !.hop = @ + 1]
          /\ UNCHANGED client
    /\ UNCHANGED <<script, pipes>>

\* sig_pipe: the process exits, and the script goes on without it.
Quit ==
    /\ ServerAt("quit")
    /\ alarm' = [alarm EXCEPT !.state = "off"]
    /\ ServerGoes("left")
    /\ UNCHANGED <<client, script, pipes>>

-----------------------------------------------------------------------------
(* The alarm.                                                              *)

Rings == alarm.state = "on" /\ server.pc \notin Over /\ ~down

\* script_timed_out begins: SIGTERM to the script.
TermScript ==
    /\ Rings /\ alarm.script
    /\ script' = [script EXCEPT !.termed = ~ScriptPlan.traps]
    /\ alarm' = [alarm EXCEPT !.state = "off"]
    /\ ServerGoes("term")
    /\ UNCHANGED <<req, client, pipes, down>>

\* SIGTERM to process 0 reaches every process of httpd, whose handler kills them.
TermAll ==
    /\ Rings /\ ~alarm.script
    /\ down' = TRUE
    /\ UNCHANGED <<req, client, server, alarm, script, pipes>>

\* Mutant: there is no SIGKILL.
TermOnly ==
    /\ ServerAt("term")
    /\ ServerGoes("stopped")
    /\ UNCHANGED <<client, alarm, script, pipes>>

\* Five seconds later: SIGKILL, waitpid, clean_exit.
KillScript ==
    /\ ServerAt("term")
    /\ script' = [script EXCEPT !.state = "gone"]
    /\ ServerGoes("stopped")
    /\ UNCHANGED <<client, alarm, pipes>>

ClientLeaves ==
    /\ ~client.left /\ server.pc \notin Over /\ ~down
    /\ client' = [client EXCEPT !.left = TRUE]
    /\ UNCHANGED <<req, server, alarm, script, pipes, down>>

ServerStep ==
    \/ Call \/ Feed \/ ReadOut \/ LoadBlock \/ LoadEnd \/ Send
    \/ Wait \/ PidOff \/ AlarmOff \/ Quit \/ KillScript

-----------------------------------------------------------------------------
\* How often a script does something, in its first n steps.
Count(ops, op, n) == Cardinality({k \in 1 .. n : ops[k] = op})

\* The blocks a plan writes, as they come out of the pipe.
Blocks(hop, n) == [k \in 1 .. n |-> <<hop, k>>]
Output(plan, hop) == Blocks(hop, Count(plan.ops, "out", Len(plan.ops)))

ScriptTypeOK ==
    /\ req \in Incoming
    /\ client.unread \in 0 .. req.sends /\ client.told \in Nat /\ client.left \in BOOLEAN
    /\ server.pc \in Over \cup {"check", "handle", "list", "call", "feed", "write", "newline",
                                "load", "send", "wait", "off", "alarm", "pipe", "quit", "term"}
    /\ server.sized \in BOOLEAN /\ server.typed \in BOOLEAN
    /\ server.hop \in 1 .. MaxHops + 1 /\ server.remain \in 0 .. req.body
    /\ Len(server.read) <= Buffer /\ Len(server.held) < Hold + 1
    /\ alarm \in [state : {"on", "off", "output", "ignored"}, script : BOOLEAN]
    /\ script.state \in {"run", "gone"}
    /\ pin \in 0 .. PipeSize /\ Len(pout) <= PipeSize
    /\ down \in BOOLEAN

\* When a request is over and its client was there to the end, no script of it runs
\* any more, whether it came to its end or had to be stopped, and whatever it does
\* on SIGTERM.
ScriptIsGone ==
    server.pc \in {"ended", "stopped"} => ~Running

\* This is so because a script runs only while it is called, fed and read; one that has
\* got a SIGTERM will be waited for.
Quiet == {"check", "handle", "list", "call", "off", "alarm", "ended", "stopped"}

ScriptAttended ==
    /\ server.pc \in Quiet => ~Running
    /\ script.termed => server.pc \in {"term", "stopped"}

\* What the client should have of the script that was called last: what it wrote,
\* where to look for it, or nothing if the header had no end.
Expected ==
    IF Output(ScriptPlan, server.hop) = <<>> THEN <<>>
    ELSE CASE ScriptPlan.header = "none"   -> <<>>
           [] ScriptPlan.header = "remote" -> <<"moved">>
           [] ScriptPlan.header = "local"  -> <<"error">>
           [] ScriptPlan.header = "type"   -> Output(ScriptPlan, server.hop)

\* How this comes about.  What is being read: the script has written as much as it
\* has come to; all of that is with the client or on the way to it, in order, unless it
\* is thrown away or belongs to a redirection.
Read == {"feed", "write", "newline", "load"}

Partly == server.pc = "send" /\ server.then = "load"

ScriptAsPlanned ==
    server.pc \in Read \/ Partly =>
        /\ script.at \in 1 .. Len(ScriptPlan.ops) + 1
        /\ script.wrote = Count(ScriptPlan.ops, "out", script.at - 1)
        /\ ~Running => script.at = Len(ScriptPlan.ops) + 1

\* Before the end a client may only have been told the length of a document.
Announced == client.told = 0 \/ (server.sized /\ client.told = DocSize)

BeingRead ==
    LET wrote == Blocks(server.hop, script.wrote) IN
    server.pc \in Read =>
        /\ Announced /\ ~server.redirect
        /\ server.direct => server.held = <<>>
        /\ ~server.direct => client.got = <<>> /\ client.told = 0
        /\ ScriptPlan.header = "type" =>
               client.got \o server.held \o server.read \o pout = wrote
        /\ ScriptPlan.header # "type" => ~server.direct /\ server.held = <<>>
        /\ ScriptPlan.header \in {"local", "remote"} => server.read \o pout = wrote

\* What is being sent, now and, if there is more to be read, in the end.
BeingSent ==
    server.pc = "send" =>
        /\ server.out # <<>> /\ ~server.redirect
        /\ IF server.then = "load"
           THEN /\ ScriptPlan.header = "type" /\ Announced /\ server.direct
                /\ server.held = <<>> /\ server.read = <<>>
                /\ client.got \o server.out \o pout = Blocks(server.hop, script.wrote)
           ELSE /\ client.got \o server.out = Expected
                /\ Announced \/ client.told = Len(Expected)

\* All is sent, or a redirection is to be followed.
AllSent ==
    server.pc \in {"wait", "off", "alarm"} =>
        IF server.redirect
        THEN /\ client.got = <<>> /\ client.told = 0
             /\ ScriptPlan.header = "local" /\ Expected # <<>>
        ELSE client.got = Expected /\ (Announced \/ client.told = Len(Expected))

\* Of what: blocks, or where to look.
Part == (Nat \X Nat) \cup {"moved"}

Passed ==
    /\ server.read \in Seq(Part) /\ server.held \in Seq(Part) /\ server.out \in Seq(Part)
    /\ pout \in Seq(Part)
    /\ client.told \in Nat
    /\ server.pc \in Read \cup {"send", "wait", "off", "alarm"} => client.got \in Seq(Part)

OutputInOrder == Passed /\ ScriptAsPlanned /\ BeingRead /\ BeingSent /\ AllSent

\* Scripts that take what they are sent before they write more than a pipe holds,
\* ask for no more than that, redirect only without a body and then write no more
\* than is read with the header; and clients that send what they announced.
Ordinary(q) ==
    /\ q.sends = q.body /\ q.takes
    /\ \A plan \in ToSet(q.scripts) :
          LET ops == plan.ops
          IN /\ ToSet(ops) \subseteq {"in", "out"}
             /\ q.body > 0 => Count(ops, "in", Len(ops)) <= q.body + 1
             /\ \A k \in DOMAIN ops :
                   (q.body > 0 /\ ops[k] = "out" /\ Count(ops, "out", k) > PipeSize) =>
                       Count(ops, "in", k) >= q.body + 1 - PipeSize
             /\ plan.header = "local" => q.body = 0
             /\ plan.header \in {"local", "remote"} =>
                   Count(ops, "out", Len(ops)) <= Buffer + PipeSize

\* With such scripts and clients the two processes and the two pipes never wait for
\* each other: while a script is run one of them can go on without the alarm.
NobodyWaits ==
    (Ordinary(req) /\ server.pc \notin Over \cup {"check", "handle", "list"} /\ ~down) =>
        ENABLED ServerStep \/ ENABLED ScriptStep
=============================================================================
