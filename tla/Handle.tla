-------------------------------- MODULE Handle ---------------------------------
(***************************************************************************)
(* One request from the time it has been parsed: HTHandle (HTDaemon.c).    *)
(* The path is translated and the access checked (Access); then a script   *)
(* is run (Script), a document, the entries of a directory (BTree) or an   *)
(* error is sent.  A script may redirect the request to another path, for  *)
(* which all of this is done again, by the same process and with whatever  *)
(* it still knows.                                                         *)
(*                                                                         *)
(* What is sent for a document is one item; so is an error, its status.    *)
(***************************************************************************)
EXTENDS Script, Access, BTree

CONSTANT Sites   \* configurations, and their files, by name

\* Of a request moreover: the site, the path it asks for and those it is redirected
\* to, none if the request line had no argument; which of these have keywords; a
\* date since which the document has not changed; method and client.
ASSUME HandleAssumption ==
    \A q \in Incoming :
        /\ q.site \in DOMAIN Sites
        /\ q.keywords \in Seq(BOOLEAN) /\ q.keywords # <<>> /\ q.since \in BOOLEAN
        /\ \A plan \in ToSet(q.scripts) : plan.header = "local" => q.paths # <<>>
        /\ q.method = "HEAD" => \A r \in ToSet(Sites[q.site].rules) : r.op # "exec"

\* Rules and groups are lists, and the protections they name are there.
ASSUME SitesAssumption == \A name \in DOMAIN Sites : Configured(Sites[name])

VARIABLES
    auth,     \* what HTAA_checkAuthorization has left: translation, protection, reason
    listing   \* of a directory: the tree, the files not read yet, whether one was gone

all == <<scriptVars, auth, listing>>

Site == Sites[req.site]
Path == Nth(req.paths, server.hop)
Keywords == Nth(req.keywords, server.hop)

\* Mutant: the method is kept.
MethodKept == req.method

\* Redirected requests read.
Method == IF server.hop > 1 /\ req.method \notin Reading THEN "GET" ELSE req.method

HandleInit ==
    /\ ScriptInit
    /\ auth = Start(<<>>, NoName, NoName)
    /\ listing = [tree |-> NewTree, unread |-> {}, gone |-> FALSE]

\* Answer and be done.
Reply(what) == Tell(what) /\ ServerGoes("ended")

KeepScript == UNCHANGED <<alarm, script, pipes>>

-----------------------------------------------------------------------------
(* Whether there will be an answer.                                        *)

\* What is wrong with the request itself, in the order in which it is looked for.
Wrong ==
    IF req.method = "INVALID" THEN <<"400">>
    ELSE IF req.method \in Site.disabled THEN <<"403">>
    ELSE IF req.paths = <<>> THEN <<"400">>
    ELSE <<>>

Refuse ==
    /\ ServerAt("check")
    /\ server.hop = 1 /\ Wrong # <<>>
    /\ Reply(Wrong[1])
    /\ KeepScript /\ UNCHANGED <<auth, listing>>

Going == {"200", "301", "302"}

\* The process goes on, and knows the length of a document and the type of whatever was
\* found for this path or one before.
Attributes(where) ==
    LET physical == Physical(Site, Path, Method)
    IN server' = [server EXCEPT !.pc = where, !.typed = @ \/ physical # <<>>,
                                !.sized = @ \/ IsPage(Site.fs, physical)]

\* HTProt and HTDefProt are those of the path before, if there was one.
Authorize ==
    /\ ServerAt("check")
    /\ server.hop > 1 \/ Wrong = <<>>
    /\ auth' = Check(Site, Path, Method, req.who, auth.prot, auth.defprot)
    /\ \/ /\ Status(auth'.reason) \in Going
          /\ Attributes("handle") /\ UNCHANGED client
       \/ /\ Status(auth'.reason) \notin Going
          /\ Attributes("ended") /\ Tell(Status(auth'.reason))
    /\ KeepScript /\ UNCHANGED listing

-----------------------------------------------------------------------------
(* The answer.                                                             *)

\* What is to be done, by the first of these that applies.
Task ==
    IF auth.reason = "ok_gateway" THEN "gateway"
    ELSE IF auth.reason \in {"ok_redirect", "ok_moved"} THEN "redirect"
    ELSE IF auth.script # <<>> THEN "script"
    ELSE IF Keywords THEN IF "search" \in Site.scripts THEN "script" ELSE "unable"
    ELSE CASE Method = "GET"  -> IF req.since THEN "unchanged"
                                 ELSE IF IsDir(Site.fs, auth.translated) THEN "list"
                                 ELSE "document"
           [] Method = "HEAD" -> "head"
           [] Method \in {"PUT", "POST", "DELETE"} ->
                IF Method \in Site.scripts THEN "script" ELSE "unset"
           [] OTHER           -> "unknown"

Handling(task) == ServerAt("handle") /\ Task = task /\ UNCHANGED auth

RunScript ==
    /\ Handling("script")
    /\ ServerGoes("call")
    /\ KeepScript /\ UNCHANGED <<client, listing>>

Simple ==
    /\ \/ Handling("redirect")  /\ Reply("moved")
       \/ Handling("unable")    /\ Reply("501")
       \/ Handling("unchanged") /\ Reply("304")
       \/ Handling("document")  /\ Reply("document")
       \/ Handling("head")      /\ Reply("head")
    /\ KeepScript /\ UNCHANGED listing

\* "status" was not assigned: it may have any value, and after a redirection is still
\* that of the redirection.  Then the request is redirected to nowhere.
Unassigned(what) ==
    LET nowhere == IF server.hop > MaxHops THEN "error" ELSE "403"
    IN /\ ServerGoes("ended")
       /\ \/ server.hop = 1 /\ Tell(what)
          \/ client' = IF client.left THEN client
                       ELSE [client EXCEPT !.got = @ \o <<what, nowhere>>]

NotHandled ==
    /\ \/ Handling("unset")   /\ Unassigned("500")
       \/ Handling("unknown") /\ Unassigned("501")
    /\ KeepScript /\ UNCHANGED listing

\* Without connections only what is in the cache is served.
Gateway ==
    /\ Handling("gateway")
    /\ \/ Reply("proxied")
       \/ /\ Site.standalone /\ Method = "GET"
          /\ req.who.scheme = NoName /\ ~Keywords
          /\ Unassigned("404")
    /\ KeepScript /\ UNCHANGED listing

-----------------------------------------------------------------------------
(* HTBrowseDirectory.  Entries are given as they are read, and sorted.     *)

\* The directory, with its slash.
ListedDir == IF EndsInSlash(auth.translated) THEN auth.translated
             ELSE Append(auth.translated, "/")

\* Listing is forbidden, or allowed where there is a certain file.
MayList ==
    \/ Site.listing = "ok"
    \/ Site.listing = "selective" /\ Exists(Site.fs, Append(ListedDir, ".www_browsable"))

\* Neither hidden files nor links to nothing.
Shown == {f \in Site.fs : f.shown /\ Directory(f.path) = ListedDir}

ListForbidden ==
    /\ Handling("list")
    /\ ~MayList
    /\ Reply("forbidden")
    /\ KeepScript /\ UNCHANGED listing

ListStart ==
    /\ Handling("list")
    /\ MayList
    /\ listing' = [tree |-> NewTree, unread |-> Shown, gone |-> FALSE]
    /\ alarm' = [alarm EXCEPT !.state = "output"]
    /\ ServerGoes("list")
    /\ UNCHANGED <<client, script, pipes>>

ListEntry ==
    /\ ServerAt("list")
    /\ \E f \in listing.unread :
          LET same == {e \in DOMAIN listing.tree.node : e[1] = f.key}
          IN listing' = [listing EXCEPT !.unread = @ \ {f},
                            !.tree = AddTo(@, <<f.key, 1 + Cardinality(same)>>)]
    /\ KeepScript /\ UNCHANGED <<server, client, auth>>

\* A file was removed since its name was read: all is given up, without a word.
ListGone ==
    /\ ServerAt("list")
    /\ listing.unread # {}
    /\ listing' = [listing EXCEPT !.gone = TRUE]
    /\ alarm' = [alarm EXCEPT !.state = "off"]
    /\ ServerGoes("ended")
    /\ UNCHANGED <<client, auth, script, pipes>>

ListEnd ==
    /\ ServerAt("list")
    /\ listing.unread = {}
    /\ client.left \/ req.takes
    /\ client' = IF client.left THEN client ELSE [client EXCEPT !.got = @ \o Listed(listing.tree)]
    /\ alarm' = [alarm EXCEPT !.state = "off"]
    /\ ServerGoes("ended")
    /\ UNCHANGED <<auth, listing, script, pipes>>

\* output_timed_out
OutputTimedOut ==
    /\ ServerAt("list")
    /\ alarm.state = "output"
    /\ alarm' = [alarm EXCEPT !.state = "off"]
    /\ ServerGoes("stopped")
    /\ UNCHANGED <<client, auth, listing, script, pipes>>

HandleStep ==
    \/ Refuse \/ Authorize \/ RunScript \/ Simple \/ NotHandled \/ Gateway
    \/ ListForbidden \/ ListStart \/ ListEntry \/ ListGone \/ ListEnd

Process == HandleStep \/ (ServerStep /\ UNCHANGED <<auth, listing>>)

Alarm == OutputTimedOut \/ ((TermScript \/ TermAll) /\ UNCHANGED <<auth, listing>>)

Others == (ScriptStep \/ ChildEnds \/ ClientLeaves) /\ UNCHANGED <<auth, listing>>

HandleNext == Process \/ Alarm \/ Others

\* ENABLED <<Process>>_all, spelled out: HTHandle itself waits only for a client that
\* takes nothing.
CanGoOn ==
    ~down /\ \/ server.pc \in {"check", "handle"}
             \/ server.pc = "list" /\ (listing.unread # {} \/ client.left \/ req.takes)
             \/ ENABLED ServerStep

\* The kernel runs the process of httpd (this is WF_all(Process)) and sends the alarm
\* it was asked for.  Of scripts, of what they start and of clients nothing is assumed.
Fairness ==
    /\ []<>~CanGoOn \/ []<><<Process>>_all
    /\ WF_all(Alarm)

HandleSpec == HandleInit /\ [][HandleNext]_all /\ Fairness

-----------------------------------------------------------------------------
\* auth is about the path of this hop.
Decided == server.pc # "check" /\ Wrong = <<>>

Granted == {"ok", "ok_gateway", "multi_failed"}

\* What decided has nothing to do with who asks.
ByTranslation == {"ok_redirect", "ok_moved", "by_rule", "invalid_redirect", "invalid_user"}

This   == IF auth.script # <<>> THEN auth.script ELSE auth.translated
Controlled ==
    /\ auth.script # <<>> \/ ~Remote(Translate(Site, Path, NoName, NoName).translated)
    /\ Directory(This) \in DOMAIN Site.lists
Setup  == Site.setups[auth.prot]
Mask   == CHOOSE m \in Masks(Setup, Method) : TRUE

In(group, name) == Belongs(group, Setup.groups, name, req.who.client)

\* Whether somebody may have what the request asks for.
MayHave(name) ==
    LET masked  == Masks(Setup, Method) # {}
        entries == Entries(Site.lists[Directory(This)], This, Method)
    IN IF Controlled
       THEN /\ auth.prot # NoName
            /\ masked /\ ~Setup.override => In(Mask, name)
            /\ \E group \in entries : In(group, name)
       ELSE IF auth.prot # NoName THEN masked /\ In(Mask, name)
       ELSE Method \notin Changing

\* Documents, scripts and other servers, and that there is no document, are for those
\* who belong to the group of the mask and to one of the access control list, by any
\* of their items and by groups within groups, and for all of them
\* (check_authorization, HTAAServ.c:262-470, 656-668).
MembersServed ==
    Decided /\ auth.reason \notin ByTranslation =>
        (auth.reason \in Granted <=>
            MayHave(IF auth.prot = NoName THEN NoUser ELSE User(Setup, req.who)))

\* Where a mask decides, a client is asked for a name and a password if and only if
\* some name would do from where it is; as long as no group has groups in it
\* (HTAA_userAndInetInGroup, HTGroup.c:676-737).
AskedWhenItHelps ==
    /\ Decided /\ auth.reason \in {"not_member", "ip_mask"}
    /\ ~Controlled /\ ~Nested(Mask, Setup.groups)
    => (auth.reason = "not_member" <=>
           \E item \in ToSet(Mask) : \E name \in ToSet(item.users) : MayHave(name))

\* A request redirected by a script gets what a new one, to read the other path, would
\* get, if a rule protects that path.  If none does, what protected the script still
\* protects it: then it may be refused what is open to all, but it never gets what
\* would be refused, unless a list refers to the default protection
\* (HTHandle, HTDaemon.c:2041-2048).
HopAsDirect ==
    Decided /\ server.hop > 1 =>
        \E direct \in {Check(Site, Path, IF req.method \in Reading THEN req.method ELSE "GET",
                             req.who, NoName, NoName)} :
            /\ Translate(Site, Path, NoName, NoName).prot # NoName => auth.reason = direct.reason
            /\ auth.reason \in Granted /\ ~Controlled => direct.reason \in Granted

\* What a rule matches is what its pattern means.  What is meant is matched unless a
\* text in the pattern overlaps itself, or the path is below the directory of a user
\* (match, HTWild.c:187-253).
MatchIsGlob ==
    server.pc = "check" /\ Wrong = <<>> =>
        \A rule \in ToSet(Site.rules) :
            LET matches == Mapped(rule.pat, rule.eqv, Path) # {}
            IN /\ matches => Glob(rule.pat, Path)
               /\ Glob(rule.pat, Path) =>
                      \/ matches
                      \/ \E item \in ToSet(PatternOf(rule.pat)) : Overlaps(item.text)
                      \/ \E i \in DOMAIN Path : UserDir(From(Path, i))

\* The path was translated, and may be had.
Allowed == Wrong = <<>> /\ Status(auth.reason) \in Going

\* The entries of a directory are sorted, those that are alike in the order in which
\* they were read, at any time, and none is missing; every node of the tree knows
\* how deep it is on either side (HTBTree.c).  A client that was not left alone gets
\* all of them, or nothing if a file was gone (HTBrowseDirectory, HTDirBrw.c).
ListingIsSorted ==
    LET tree == listing.tree
        list == Listed(tree)
    IN /\ ToSet(list) = DOMAIN tree.node /\ Len(list) = Cardinality(DOMAIN tree.node)
       /\ \A i \in 1 .. Len(list) - 1 :
              \/ list[i][1] < list[i + 1][1]
              \/ list[i][1] = list[i + 1][1] /\ list[i][2] < list[i + 1][2]
       /\ \A n \in DOMAIN tree.node : \A d \in Side :
              tree.node[n].depth[d] = Depth(tree, tree.node[n].child[d])
       /\ server.pc = "ended" /\ ~client.left /\ Allowed /\ Task = "list" /\ MayList =>
              IF listing.gone THEN client.got = <<>>
              ELSE Len(client.got) = Cardinality(Shown)

\* The client of a request that has ended and was not left alone has one answer: all
\* of the output of the script that was not redirected, once and in order, and of the
\* length it was told, unless that is the length of a document found for this path or
\* for one that was redirected (HTScriptWrapper, HTRequest.c:824-833); or one item,
\* and a second one only if the first was an error without a status (HTHandle).
\* Directories are looked at above.
AnswerIsWhole ==
    server.pc = "ended" /\ ~client.left =>
        IF ~Allowed THEN Len(client.got) = 1
        ELSE CASE Task = "script" -> /\ client.got = Expected
                                     /\ client.told = Len(client.got) \/ Announced
               [] Task = "list" /\ MayList -> TRUE
               [] OTHER -> \/ Len(client.got) = 1
                           \/ /\ Len(client.got) = 2
                              /\ Task \in {"gateway", "unset", "unknown"}
                              /\ client.got[1] \in {"404", "500", "501"}

\* This is so because nobody is told anything before it is decided what; and then it
\* stays decided.
Calling == Read \cup {"call", "send", "wait", "off", "alarm"}

AnswerDue ==
    /\ server.hop > 1 => Wrong = <<>>
    /\ server.pc \in {"check", "handle", "list", "call"} => client.got = <<>> /\ client.told = 0
    /\ server.pc \in {"handle", "list"} \cup Calling => Allowed
    /\ server.pc = "list" => Task = "list" /\ MayList
    /\ server.pc \in Calling => Task = "script"

Shaped ==
    /\ req.scripts \in Seq(Plan) /\ req.scripts # <<>>
    /\ DOMAIN client = {"unread", "got", "told", "left"}
    /\ DOMAIN server = {"pc", "hop", "remain", "headers", "read", "held", "direct", "redirect",
                        "out", "then", "sized", "typed"}
    /\ server.hop \in Nat \ {0} /\ server.then \in {"load", "wait"}
    /\ DOMAIN script = {"state", "at", "wrote", "termed", "child"} /\ script.wrote \in Nat

\* An invariant from which ScriptIsGone and AnswerIsWhole follow.
AnswerInv ==
    /\ Shaped /\ ScriptAttended
    /\ client.left \/ (AnswerDue /\ OutputInOrder /\ AnswerIsWhole)

\* What is known of the path of this hop has come from a check of it, after others that
\* may have left the names of protections; and no script is timed before it is called.
CheckedHere ==
    /\ req \in Incoming
    /\ auth.prot \in Prots(Site) /\ auth.defprot \in Prots(Site)
    /\ DOMAIN alarm = {"state", "script"}
    /\ server.pc \in {"check", "handle", "list", "call"} => alarm.state # "on"
    /\ Decided => \E p, d \in Prots(Site) : auth = Check(Site, Path, Method, req.who, p, d)

\* Every request is over some time, whatever the script and the client do, except
\* that the alarm is ignored once a body, or only the line end that is written where
\* there is a content type (HTScript.c:1004), was written to a script that had ended;
\* then whoever keeps its output open, or a client that takes nothing, keeps the
\* process.
RequestEnds ==
    \/ <>(server.pc \in Over \/ down)
    \/ <>[](alarm.state = "ignored" /\ (script.child \/ ~req.takes))
=============================================================================
