------------------------------- MODULE Accounts -------------------------------
(***************************************************************************)
(* Accounts: cgi-src/register.c, change_password.c, update_profile.c and   *)
(* cgi-bin/delete_user.cgi, manage_admin.cgi, login.cgi, logout.cgi.       *)
(*                                                                         *)
(* users.txt has a line name|password|role|number|nickname|mail for each   *)
(* account.  register.c appends to it.  The others write an edited copy to *)
(* /tmp/users.txt, the same name for all of them, and rename it.  Files    *)
(* are modelled as the kernel sees them: a name refers to a file, and who  *)
(* has opened the file keeps it when the name is given to another.  /tmp   *)
(* and data/ are taken to be on one file system, where a rename is atomic. *)
(***************************************************************************)
EXTENDS Lists, SequencesExt

CONSTANTS
    Req,       \* the requests
    Name,      \* user names; none contains another one
    Password,  \* passwords
    Su,        \* the name on the only line of users.txt as shipped ...
    SuPassword,  \* ... and the password
    Query,     \* what requests ask for
    None,      \* no file, no number, or "(null)"
    Torn       \* the rest of a line whose beginning was overwritten; whatever
               \* it looks like, it is nobody's account

Registration == [op : {"register"}, name : Name, pwd : Password]
PwdChange    == [op : {"password"}, user : Name, old : Password, new : Password]
Profile      == [op : {"profile"}, user : Name, mail : BOOLEAN]
Deletion     == [op : {"delete"}, user : Name, target : Name]
Appointment  == [op : {"add", "remove"}, user : Name, target : Nat]

ASSUME AccountsAssumption ==
    /\ Su \in Name /\ SuPassword \in Password
    /\ Query \subseteq Registration \cup PwdChange \cup Profile \cup Deletion \cup Appointment
    /\ None \notin Req \cup Name \cup Password \cup Nat \cup {"users"}
    /\ Torn \notin Name /\ "users" \notin Req

\* A file is named after the request that created it; "users" came with the
\* installation.
File == Req \cup {"users"}

\* A line: the text before the first |, what follows it, and whether it ends
\* with a line feed.  Only the last line of a file may lack it, and a line
\* whose account is None has no |.  `by' is history, the request that
\* registered the account.
Account == [pwd : Password \cup {None}, role : {0, 1, 2, None}, uid : Nat \cup {None},
            by : File]
Line == [name : Seq(Name \cup {Torn}), account : Account \cup {None}, ended : BOOLEAN]

ASSUME NoAccount == None \notin Account

VARIABLES
    content,   \* the contents of every file
    users,     \* the file data/users.txt refers to
    copy,      \* the file /tmp/users.txt refers to
    lastId,    \* the number in last_id.txt, None if it is empty
    sessions,  \* the names in the files of data/sessions
    query,     \* the query string of each request
    pc,        \* where each request is
    uid,       \* user_id in register.c
    fd,        \* the file a request has opened
    text,      \* the lines a request is about to write
    before     \* history: the requests that had ended when this one came

local == <<uid, fd, text>>
vars  == <<content, users, copy, lastId, sessions, query, pc, local, before>>

Ended == {"refused", "done", "crashed"}

-----------------------------------------------------------------------------
\* Lines

\* The fields of a line that is only a name.
Nothing == [pwd |-> None, role |-> None, uid |-> None, by |-> "users"]

NewLine(name, account) == [name |-> name, account |-> account, ended |-> TRUE]
Blank == NewLine(<<>>, None)

\* The text with the line after it: a line feed that lacks joins the two.
Glue(lines, line) ==
    IF lines # <<>> /\ ~Last(lines).ended
    THEN Front(lines) \o <<[line EXCEPT !.name = Last(lines).name \o @]>>
    ELSE Append(lines, line)

GlueAll(lines, more) == FoldLeft(Glue, lines, more)

\* user_exists, grep "^name|": the lines of the accounts with that name.
HasLine(lines, u) == \E k \in DOMAIN lines :
    lines[k].name = <<u>> /\ lines[k].account # None

\* In change_password.c and update_profile.c: strtok takes a line without |
\* for a name, together with its line feed if it has one.
Named(line, u) ==
    /\ line.name = <<u>>
    /\ line.account = None => ~line.ended

\* What they write for another user: strtok has put an end to the line after
\* its first token.
Others(line) ==
    IF line.account = None THEN line
    ELSE [name |-> line.name, account |-> None, ended |-> FALSE]

\* The account with a new password, unless that is None.
Edited(a, new) ==
    LET old == IF a = None THEN Nothing ELSE a
    IN IF new = None THEN old ELSE [old EXCEPT !.pwd = new]

\* The copy when the lines of u are replaced.  The mail field is the last of
\* the line and brings its line feed along, unless it is replaced.
Replaced(lines, u, new, mail) ==
    LET piece(line) ==
          IF ~Named(line, u) THEN <<Others(line)>>
          ELSE <<NewLine(line.name, Edited(line.account, new))>>
               \o (IF mail \/ ~line.ended THEN <<>> ELSE <<Blank>>)
    IN FoldLeft(LAMBDA done, line : GlueAll(done, piece(line)), <<>>, lines)

\* grep and awk end the last line.
Complete(lines) ==
    IF lines = <<>> THEN lines
    ELSE Front(lines) \o <<[Last(lines) EXCEPT !.ended = TRUE]>>

Without(lines, u) ==
    Complete(Keep(lines, {k \in DOMAIN lines :
        ~(lines[k].name = <<u>> /\ lines[k].account # None)}))

WithRole(lines, name, role) ==
    Complete([k \in DOMAIN lines |->
        IF lines[k].name # name THEN lines[k]
        ELSE [lines[k] EXCEPT !.account = [(IF @ = None THEN Nothing ELSE @)
                                           EXCEPT !.role = role]]])

-----------------------------------------------------------------------------
Init ==
    /\ content = [f \in File |->
           IF f = "users"
           THEN <<NewLine(<<Su>>, [pwd |-> SuPassword, role |-> 2, uid |-> 0, by |-> "users"])>>
           ELSE <<>>]
    /\ users = "users"
    /\ copy = None
    /\ lastId = None
    /\ sessions = {}
    /\ query \in [Req -> Query]
    /\ pc = [r \in Req |-> "idle"]
    /\ uid = [r \in Req |-> 0]
    /\ fd = [r \in Req |-> "users"]
    /\ text = [r \in Req |-> <<>>]
    /\ before = [r \in Req |-> {}]

\* login.cgi
Login(u) ==
    /\ HasLine(content[users], u)
    /\ sessions' = sessions \cup {u}
    /\ UNCHANGED <<content, users, copy, lastId, query, pc, local, before>>

\* logout.cgi
Logout(u) ==
    /\ sessions' = sessions \ {u}
    /\ UNCHANGED <<content, users, copy, lastId, query, pc, local, before>>

Arrive(r) ==
    /\ pc[r] = "idle"
    /\ before' = [before EXCEPT ![r] = {q \in Req : pc[q] \in Ended}]

Go(r, where) == pc' = [pc EXCEPT ![r] = where]

\* A form left empty, no session, no permission, a name that is taken.
Refuse(r) ==
    /\ Arrive(r)
    /\ Go(r, "refused")
    /\ UNCHANGED <<content, users, copy, lastId, sessions, query, local>>

-----------------------------------------------------------------------------
\* register.c

CheckName(r) ==
    /\ query[r].op = "register"
    /\ ~HasLine(content[users], query[r].name)
    /\ Arrive(r)
    /\ Go(r, "free")
    /\ UNCHANGED <<content, users, copy, lastId, sessions, query, local>>

\* Mutant: the number after that of the last line, as in upload.c.
ReadNumberOfLast(r) ==
    /\ pc[r] = "free"
    /\ uid' = [uid EXCEPT ![r] = Max({10001} \cup
           {content[users][k].account.uid : k \in
               {k \in DOMAIN content[users] : content[users][k].account # None}}) + 1]
    /\ Go(r, "numbered")
    /\ UNCHANGED <<content, users, copy, lastId, sessions, query, fd, text, before>>

\* get_next_id reads last_id.txt, ...
ReadNumber(r) ==
    /\ pc[r] = "free"
    /\ uid' = [uid EXCEPT ![r] = (IF lastId = None THEN 10001 ELSE lastId) + 1]
    /\ Go(r, "numbered")
    /\ UNCHANGED <<content, users, copy, lastId, sessions, query, fd, text, before>>

\* ... opens it for writing, which empties it, ...
EmptyNumber(r) ==
    /\ pc[r] = "numbered"
    /\ lastId' = None
    /\ Go(r, "emptied")
    /\ UNCHANGED <<content, users, copy, sessions, query, local, before>>

\* ... and writes the new number.
WriteNumber(r) ==
    /\ pc[r] = "emptied"
    /\ lastId' = uid[r]
    /\ Go(r, "counted")
    /\ UNCHANGED <<content, users, copy, sessions, query, local, before>>

\* Mutant: "w" instead of "a".
OpenUsersAfresh(r) ==
    /\ pc[r] = "counted"
    /\ fd' = [fd EXCEPT ![r] = users]
    /\ content' = [content EXCEPT ![users] = <<>>]
    /\ Go(r, "appending")
    /\ UNCHANGED <<users, copy, lastId, sessions, query, uid, text, before>>

\* fopen(users.txt, "a")
OpenUsers(r) ==
    /\ pc[r] = "counted"
    /\ fd' = [fd EXCEPT ![r] = users]
    /\ Go(r, "appending")
    /\ UNCHANGED <<content, users, copy, lastId, sessions, query, uid, text, before>>

\* fclose writes the line.
AppendUser(r) ==
    LET q == query[r] IN
    /\ pc[r] = "appending"
    /\ content' = [content EXCEPT ![fd[r]] = Glue(@,
           NewLine(<<q.name>>, [pwd |-> q.pwd, role |-> 0, uid |-> uid[r], by |-> r]))]
    /\ Go(r, "done")
    /\ UNCHANGED <<users, copy, lastId, sessions, query, local, before>>

-----------------------------------------------------------------------------
\* The programs that replace users.txt

\* r opens /tmp/users.txt for writing.
OpensCopy(r) ==
    LET f == IF copy = None THEN r ELSE copy
    IN /\ copy' = f
       /\ content' = [content EXCEPT ![f] = <<>>]
       /\ fd' = [fd EXCEPT ![r] = f]

\* change_password.c and update_profile.c open users.txt.
OpenOld(r) ==
    /\ query[r].op \in {"password", "profile"}
    /\ query[r].user \in sessions
    /\ Arrive(r)
    /\ fd' = [fd EXCEPT ![r] = users]
    /\ Go(r, "opened")
    /\ UNCHANGED <<content, users, copy, lastId, sessions, query, uid, text>>

\* update_profile.c opens the copy and prepares its contents.
CopyProfile(r) ==
    LET q == query[r] IN
    /\ pc[r] = "opened"
    /\ q.op = "profile"
    /\ text' = [text EXCEPT ![r] = Replaced(content[fd[r]], q.user, None, q.mail)]
    /\ OpensCopy(r)
    /\ Go(r, "writing")
    /\ UNCHANGED <<users, lastId, sessions, query, uid, before>>

\* Mutant: the old password is not compared.
CopyPasswordAnyway(r) ==
    LET q == query[r] IN
    /\ pc[r] = "opened"
    /\ q.op = "password"
    /\ OpensCopy(r)
    /\ text' = [text EXCEPT ![r] = Replaced(content[fd[r]], q.user, q.new, FALSE)]
    /\ Go(r, "writing")
    /\ UNCHANGED <<users, lastId, sessions, query, uid, before>>

\* change_password.c does the same unless it finds another password in one of
\* the user's lines.  Where a line is only a name it follows a null pointer.
CopyPassword(r) ==
    LET q == query[r]
        old == content[fd[r]]
        mine == {k \in DOMAIN old : Named(old[k], q.user)}
        wrong == {k \in mine : old[k].account = None \/ old[k].account.pwd # q.old}
        first == CHOOSE k \in wrong : \A i \in wrong : k <= i
    IN
    /\ pc[r] = "opened"
    /\ q.op = "password"
    /\ OpensCopy(r)
    /\ IF wrong = {}
       THEN /\ text' = [text EXCEPT ![r] = Replaced(old, q.user, q.new, FALSE)]
            /\ Go(r, IF mine # {} THEN "writing" ELSE "failing")
       ELSE IF old[first].account = None
       THEN /\ text' = text
            /\ Go(r, "crashed")
       ELSE /\ text' = [text EXCEPT ![r] =
                   Replaced(SubSeq(old, 1, first - 1), q.user, q.new, FALSE)]
            /\ Go(r, "failing")
    /\ UNCHANGED <<users, lastId, sessions, query, uid, before>>

RolesOf(lines, name) ==
    [k \in {k \in DOMAIN lines : lines[k].name = name /\ lines[k].account # None}
        |-> lines[k].account.role]

\* manage_admin.cgi: the name on the first line with number i.
NameOf(lines, i) ==
    lines[CHOOSE k \in DOMAIN lines :
        /\ lines[k].account # None /\ lines[k].account.uid = i
        /\ \A h \in 1 .. k - 1 :
              lines[h].account = None \/ lines[h].account.uid # i].name

\* delete_user.cgi looks up the role of the user.  If it does not find exactly
\* one, the comparison of the shell fails and the script goes on.
AllowDelete(r) ==
    LET roles == RolesOf(content[users], <<query[r].user>>) IN
    /\ query[r].op = "delete"
    /\ query[r].user \in sessions
    /\ query[r].user # query[r].target
    /\ Cardinality(DOMAIN roles) = 1 => \A k \in DOMAIN roles : roles[k] # 0
    /\ Arrive(r)
    /\ Go(r, "allowed")
    /\ UNCHANGED <<content, users, copy, lastId, sessions, query, local>>

\* manage_admin.cgi: su makes a user an administrator or takes that back.
AllowAppoint(r) ==
    LET q == query[r]
        lines == content[users]
        roles == RolesOf(lines, <<q.user>>)
        target == NameOf(lines, q.target)
        had == RolesOf(lines, target)
    IN
    /\ q.op \in {"add", "remove"}
    /\ q.user \in sessions
    /\ Cardinality(DOMAIN roles) = 1 /\ \A k \in DOMAIN roles : roles[k] = 2
    /\ \E k \in DOMAIN lines : lines[k].account # None /\ lines[k].account.uid = q.target
    /\ target # <<q.user>>
    /\ IF q.op = "add"
       THEN ~(Cardinality(DOMAIN had) = 1 /\ \A k \in DOMAIN had : had[k] \in {1, 2})
       ELSE Cardinality(DOMAIN had) = 1 /\ \A k \in DOMAIN had : had[k] = 1
    /\ Arrive(r)
    /\ text' = [text EXCEPT ![r] = <<NewLine(target, None)>>]
    /\ Go(r, "allowed")
    /\ UNCHANGED <<content, users, copy, lastId, sessions, query, uid, fd>>

\* The shell opens the copy for grep or awk.
OpenCopy(r) ==
    /\ pc[r] = "allowed"
    /\ OpensCopy(r)
    /\ Go(r, "filtering")
    /\ UNCHANGED <<users, lastId, sessions, query, uid, text, before>>

\* grep or awk reads users.txt.
Filter(r) ==
    LET q == query[r] IN
    /\ pc[r] = "filtering"
    /\ text' = [text EXCEPT ![r] =
           CASE q.op = "delete" -> Without(content[users], q.target)
             [] q.op = "add"    -> WithRole(content[users], @[1].name, 1)
             [] q.op = "remove" -> WithRole(content[users], @[1].name, 0)]
    /\ Go(r, "writing")
    /\ UNCHANGED <<content, users, copy, lastId, sessions, query, uid, fd, before>>

\* Writing lines from the beginning of file f: if it was not empty any more, the
\* end of what was there may stay, with its first line torn.
Overwritten(f, lines) ==
    LET was == content[f]
        torn(k) == [was[k] EXCEPT !.name = <<Torn>>, !.account = None]
    IN {lines}
       \cup {GlueAll(lines, SubSeq(was, k, Len(was))) : k \in DOMAIN was}
       \cup {GlueAll(lines, <<torn(k)>> \o SubSeq(was, k + 1, Len(was))) : k \in DOMAIN was}

WriteCopy(r) ==
    /\ pc[r] \in {"writing", "failing"}
    /\ \E lines \in Overwritten(fd[r], text[r]) :
          content' = [content EXCEPT ![fd[r]] = lines]
    /\ Go(r, IF pc[r] = "writing" THEN "moving" ELSE "refused")
    /\ UNCHANGED <<users, copy, lastId, sessions, query, local, before>>

\* rename or mv; nothing happens if another request has moved the copy away.
MoveCopy(r) ==
    /\ pc[r] = "moving"
    /\ IF copy = None THEN UNCHANGED <<users, copy>>
       ELSE users' = copy /\ copy' = None
    /\ Go(r, "done")
    /\ UNCHANGED <<content, lastId, sessions, query, local, before>>

-----------------------------------------------------------------------------
Next ==
    \/ \E u \in Name : Login(u) \/ Logout(u)
    \/ \E r \in Req :
          \/ Refuse(r)
          \/ CheckName(r) \/ ReadNumber(r) \/ EmptyNumber(r) \/ WriteNumber(r)
          \/ OpenUsers(r) \/ AppendUser(r)
          \/ OpenOld(r) \/ CopyProfile(r) \/ CopyPassword(r)
          \/ AllowDelete(r) \/ AllowAppoint(r) \/ OpenCopy(r) \/ Filter(r)
          \/ WriteCopy(r) \/ MoveCopy(r)

Spec == Init /\ [][Next]_vars

-----------------------------------------------------------------------------
TypeOK ==
    /\ content \in [File -> Seq(Line)]
    /\ users \in File
    /\ copy \in File \cup {None}
    /\ lastId \in Nat \cup {None}
    /\ sessions \subseteq Name
    /\ query \in [Req -> Query]
    /\ pc \in [Req -> {"idle", "free", "numbered", "emptied", "counted", "appending",
                       "opened", "allowed", "filtering", "writing", "failing", "moving"}
                      \cup Ended]
    /\ uid \in [Req -> Nat]
    /\ fd \in [Req -> File]
    /\ text \in [Req -> Seq(Line)]
    /\ before \in [Req -> SUBSET Req]

Registers(r) == query[r].op = "register"
Arrived(r)   == pc[r] # "idle"

\* One of the requests had ended when the other came.
Apart(q, r) == q \in before[r] \/ r \in before[q]

\* r was never under way together with a request of the set.
ApartFrom(r, others) == \A q \in others \ {r} : Arrived(q) => Apart(q, r)

\* No two requests of the set were under way together.
AllApart(requests) == \A r \in requests : Arrived(r) => ApartFrom(r, requests)

Registering == {r \in Req : Registers(r)}
Rewriting   == Req \ Registering

\* No program of C has replaced users.txt.
Scripted == \A r \in Req : Arrived(r) => query[r].op \notin {"password", "profile"}

\* Registered accounts in users.txt.
Listed == {k \in DOMAIN content[users] : content[users][k].account # None}

(***************************************************************************)
(* As long as no two registrations overlap, every account gets a number of *)
(* its own, and none is given again after its account was deleted: last_id *)
(* only grows (get_next_id in register.c).                                 *)
(***************************************************************************)
NumbersAreNew ==
    AllApart(Registering) =>
        \A q, r \in Registering :
            q # r /\ pc[q] = "done" /\ pc[r] = "done" => uid[q] # uid[r]

(***************************************************************************)
(* Two accounts have the same name only if two registrations overlapped    *)
(* or two requests that replace users.txt did.                             *)
(***************************************************************************)
NamesUnique ==
    Scripted /\ AllApart(Registering) /\ AllApart(Rewriting) =>
        \A i, j \in Listed :
            i # j => content[users][i].name # content[users][j].name

(***************************************************************************)
(* Two accounts share neither their number nor their name as long as the   *)
(* programs of register.c, which read the one and look for the other       *)
(* before they write, do not overlap.                                      *)
(***************************************************************************)
AccountsDistinct == NumbersAreNew /\ NamesUnique

(***************************************************************************)
(* An account that was there when a request to delete it came is gone when *)
(* the request is done, and does not come back, unless another request was *)
(* replacing users.txt at the time: what has read the old file may still   *)
(* write it (delete_user.cgi:24-25).                                       *)
(***************************************************************************)
DeletedStays ==
    \A r \in Req :
        /\ query[r].op = "delete"
        /\ pc[r] = "done"
        /\ ApartFrom(r, Rewriting)
        /\ Scripted
        => \A k \in Listed :
              content[users][k].name = <<query[r].target>> =>
                  content[users][k].account.by \notin before[r] \cup {"users"}

(***************************************************************************)
(* Whoever was told "Registration success!" has an account with the number *)
(* and password of the registration until a request deletes it, unless the *)
(* registration overlapped with a request that replaces users.txt, or two  *)
(* such requests overlapped.                                               *)
(***************************************************************************)
RegistrationStays ==
    \A r \in Registering :
        /\ pc[r] = "done"
        /\ ApartFrom(r, Rewriting)
        /\ AllApart(Rewriting)
        /\ Scripted
        /\ \A q \in Rewriting :
              query[q].op = "delete" /\ query[q].target = query[r].name /\ Arrived(q) =>
                  q \in before[r]
        => \E k \in Listed :
              /\ content[users][k].name = <<query[r].name>>
              /\ content[users][k].account.uid = uid[r]
              /\ content[users][k].account.pwd = query[r].pwd

(***************************************************************************)
(* What a user was told lasts: a confirmed registration until somebody     *)
(* deletes the account (register.c), a confirmed deletion for good         *)
(* (delete_user.cgi), whatever the other requests rewrite in users.txt.    *)
(***************************************************************************)
AccountsLast == RegistrationStays /\ DeletedStays

\* The passwords u was given, and those that requests other than q set.
Given(u) ==
    {SuPassword : p \in {u} \cap {Su}}
    \cup {query[r].pwd : r \in {r \in Registering : query[r].name = u}}

ChangesOf(u) == {q \in Req : query[q].op = "password" /\ query[q].user = u}

Legitimate(u, pwd) ==
    \/ pwd \in Given(u)
    \/ \E q \in ChangesOf(u) :
          /\ query[q].new = pwd
          /\ query[q].old \in Given(u) \cup {query[p].new : p \in ChangesOf(u) \ {q}}

(***************************************************************************)
(* However the programs that replace users.txt overlap, cut each other's   *)
(* lines or write over each other's copies, a line that is found under one *)
(* name is the line of an account registered under that name, with its     *)
(* number, and with a password that was registered, or set by a request of *)
(* that user whose old password was one of theirs; or all that was left of *)
(* it is the name (change_password.c:80-90, update_profile.c:63-69).       *)
(***************************************************************************)
OwnLines ==
    \A k \in Listed, u \in Name :
        LET line == content[users][k]
            a == line.account
        IN line.name = <<u>> /\ a.pwd # None =>
              /\ IF a.by = "users" THEN u = Su /\ a.uid = 0
                 ELSE query[a.by].name = u /\ a.uid = uid[a.by]
              /\ Legitimate(u, a.pwd)

(***************************************************************************)
(* What change_password.c:98 says, "Password changed successfully!": the   *)
(* user has a line with the new password then.                             *)
(***************************************************************************)
PasswordChanged ==
    [][\A r \in Req :
          query[r].op = "password" /\ pc[r] = "moving" /\ pc'[r] = "done" =>
              \E k \in DOMAIN content[users]' :
                  /\ content[users]'[k].name = <<query[r].user>>
                  /\ content[users]'[k].account # None
                  /\ content[users]'[k].account.pwd = query[r].new]_vars

-----------------------------------------------------------------------------
\* An inductive invariant, from which the other properties follow.

\* Whose account follows the name that stands last before the first |.
IsOwn(line) ==
    LET a == line.account
        u == Last(line.name)
    IN a # None /\ a.pwd # None =>
          /\ line.name # <<>>
          /\ IF a.by = "users" THEN u = Su /\ a.uid = 0
             ELSE Registers(a.by) /\ pc[a.by] = "done" /\ query[a.by].name = u
                  /\ a.uid = uid[a.by]
          /\ Legitimate(u, a.pwd)

OwnLine == {line \in Line : IsOwn(line)}

LinesOwn == content \in [File -> Seq(OwnLine)] /\ text \in [Req -> Seq(OwnLine)]

\* What programs are where.
Kinds ==
    \A r \in Req :
        /\ pc[r] \in {"free", "numbered", "emptied", "counted", "appending"} => Registers(r)
        /\ pc[r] \in {"writing", "moving"} => ~Registers(r)
        /\ pc[r] \in {"allowed", "filtering"} => query[r].op \in {"delete", "add", "remove"}
        /\ pc[r] \in {"opened", "failing", "crashed"} =>
               query[r].op \in {"password", "profile"}

\* Who had ended has ended.
Past ==
    \A r \in Req : /\ \A q \in before[r] : pc[q] \in Ended
                   /\ ~Arrived(r) => before[r] = {}

\* As long as registrations do not overlap, their numbers are above those of
\* the registrations that had ended, and so is last_id unless it is just empty.
NumbersGrow ==
    AllApart(Registering) => \A q \in Registering :
        /\ pc[q] \in {"numbered", "emptied", "counted", "appending", "done"} =>
               \A r \in Registering \cap before[q] : pc[r] = "done" => uid[r] < uid[q]
        /\ pc[q] \in {"counted", "appending", "done"} =>
               \/ lastId # None /\ uid[q] <= lastId
               \/ \E r \in Registering : pc[r] = "emptied"

\* No name refers to the file of a request before it opens the copy, and no
\* file that users.txt was is the copy again.
FilesNew ==
    /\ copy # users
    /\ \A r \in Req :
        /\ pc[r] = "appending" => fd[r] # copy
        /\ pc[r] \in {"idle", "opened", "allowed"} =>
               users # r /\ copy # r /\ \A q \in Req : fd[q] # r

\* What is in the copy while no other request replaces users.txt.
CopyAtWork ==
    Scripted => \A r \in Rewriting : ApartFrom(r, Rewriting) =>
        /\ pc[r] \in {"filtering", "writing", "moving"} => copy = fd[r]
        /\ pc[r] \in {"filtering", "writing"} => content[fd[r]] = <<>>
        /\ pc[r] = "moving" => content[fd[r]] = text[r]

\* The lines the scripts leave.
WholeLine == {line \in Line : line.ended /\ (line.account = None => line.name = <<Torn>>)}

LinesWhole ==
    Scripted =>
        /\ content \in [File -> Seq(WholeLine)]
        /\ \A r \in Req : pc[r] \in {"writing", "moving"} => text[r] \in Seq(WholeLine)

\* Every line has an account and a name of its own.
NamesOf(lines) == {lines[k].name : k \in DOMAIN lines}

Distinct(lines) ==
    /\ \A k \in DOMAIN lines : lines[k].account # None
    /\ \A i, j \in DOMAIN lines : i # j => lines[i].name # lines[j].name

NamesApart ==
    Scripted /\ AllApart(Registering) /\ AllApart(Rewriting) =>
        /\ Distinct(content[users])
        /\ \A r \in Rewriting : pc[r] \in {"writing", "moving"} =>
               Distinct(text[r]) /\ NamesOf(text[r]) \subseteq NamesOf(content[users])
        /\ \A r \in Registering :
               pc[r] \in {"free", "numbered", "emptied", "counted", "appending"} =>
                   <<query[r].name>> \notin NamesOf(content[users])

\* Nothing took the account of r away.
Untouched(r) ==
    /\ Scripted /\ AllApart(Rewriting) /\ ApartFrom(r, Rewriting)
    /\ \A q \in Rewriting :
           query[q].op = "delete" /\ query[q].target = query[r].name /\ Arrived(q) =>
               q \in before[r]

Has(lines, u, n, pwd) == \E k \in DOMAIN lines :
    /\ lines[k].name = <<u>>
    /\ lines[k].account # None
    /\ lines[k].account.uid = n
    /\ lines[k].account.pwd = pwd

Kept ==
    \A r \in Registering : Untouched(r) =>
        /\ pc[r] = "appending" => fd[r] = users
        /\ pc[r] = "done" =>
               /\ Has(content[users], query[r].name, uid[r], query[r].pwd)
               /\ \A w \in Rewriting : pc[w] \in {"writing", "moving"} =>
                      Has(text[w], query[r].name, uid[r], query[r].pwd)

\* Lines that are not of an account r was to delete.
CleanLine(r) ==
    {line \in WholeLine : line.account # None /\ line.name = <<query[r].target>> =>
                              line.account.by \notin before[r] \cup {"users"}}

Cleaned ==
    Scripted => \A r \in Req : query[r].op = "delete" /\ ApartFrom(r, Rewriting) =>
        /\ pc[r] \in {"writing", "moving"} => text[r] \in Seq(CleanLine(r))
        /\ pc[r] = "done" =>
               /\ content[users] \in Seq(CleanLine(r))
               /\ copy # None => content[copy] \in Seq(CleanLine(r))
               /\ \A w \in Rewriting :
                      /\ pc[w] \in {"filtering", "writing"} =>
                             content[fd[w]] \in Seq(CleanLine(r))
                      /\ pc[w] \in {"writing", "moving"} => text[w] \in Seq(CleanLine(r))

IInv ==
    /\ TypeOK /\ Kinds /\ Past /\ LinesOwn
    /\ NumbersGrow
    /\ FilesNew /\ CopyAtWork /\ LinesWhole
    /\ NamesApart /\ Kept /\ Cleaned
=============================================================================
