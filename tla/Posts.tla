--------------------------------- MODULE Posts ---------------------------------
(***************************************************************************)
(* The forum: cgi-src/create_post.c, delete_post.c, view_post.c.           *)
(*                                                                         *)
(* A post is a line of posts.txt and a file posts/<number>.txt.  The       *)
(* number is read, the file written and the line appended in separate      *)
(* steps; a deletion lets sed replace posts.txt by a copy without the line *)
(* and then removes the file, whoever wrote it.                            *)
(***************************************************************************)
EXTENDS Requests

CONSTANTS
    None,      \* no file, no sed running, no separator in a title
    Outside    \* a file that a title names and that is no text of a post

Number == 1 .. Cardinality(Req)

\* A title, by what stands behind a separator of posts.txt in it: None if there is no
\* separator, the number of a text, 0 for a name no file has, or another file's name.
Title == {None, Outside, 0} \cup Number

Creation  == [op : {"create"}, user : User, title : Title]
Deletion  == [op : {"delete"}, user : User, number : Nat]
Reading   == [op : {"view"}, number : Nat]

Post   == [number : Number, user : User, title : Title, req : Req]
\* A file, named by the request that created it, and whose text is in it.
Text   == [file : Req, holds : SUBSET Req]
\* What view_post.c shows: the line of a post, and whose text.
Shown  == [post : Post, text : SUBSET (Req \cup {Outside})]

VARIABLES
    posts,    \* posts.txt
    text,     \* text[i]: the file posts/<i>.txt, or None
    number,   \* id in create_post.c
    opened,   \* the file create_post.c has open
    sed,      \* the lines a running sed has kept, or None
    shown     \* what view_post.c shows, or None

postLocal == <<number, opened, sed, shown>>
postVars  == <<posts, text, postLocal>>

PostInit ==
    /\ posts = <<>>
    /\ text = [i \in Number |-> None]
    /\ number = [r \in Req |-> 0]
    /\ opened = [r \in Req |-> None]
    /\ sed = [r \in Req |-> None]
    /\ shown = [r \in Req |-> None]

-----------------------------------------------------------------------------
\* create_post.c

\* get_next_id
ReadMax(r) ==
    /\ Arrive(r, "create")
    /\ number' = [number EXCEPT ![r] =
           1 + Max({0} \cup {posts[k].number : k \in DOMAIN posts})]
    /\ Go(r, "numbered")
    /\ UNCHANGED <<posts, text, opened, sed, shown>>

\* Mutant: mode "a".
OpenToAppend(r) ==
    LET i == number[r]
        file == IF text[i] = None THEN [file |-> r, holds |-> {}] ELSE text[i]
    IN
    /\ At(r, "numbered")
    /\ text' = [text EXCEPT ![i] = file]
    /\ opened' = [opened EXCEPT ![r] = file.file]
    /\ Go(r, "opened")
    /\ UNCHANGED <<posts, number, sed, shown>>

\* fopen, mode "w"
OpenText(r) ==
    LET i == number[r]
        file == [file |-> IF text[i] = None THEN r ELSE text[i].file, holds |-> {}]
    IN
    /\ At(r, "numbered")
    /\ text' = [text EXCEPT ![i] = file]
    /\ opened' = [opened EXCEPT ![r] = file.file]
    /\ Go(r, "opened")
    /\ UNCHANGED <<posts, number, sed, shown>>

\* fclose.  Of what another request has written meanwhile the end may stay; a
\* file that was removed is written in vain.
WriteText(r) ==
    LET i == number[r] IN
    /\ At(r, "opened")
    /\ IF text[i] # None /\ text[i].file = opened[r]
       THEN \E rest \in {{}, text[i].holds} :
               text' = [text EXCEPT ![i].holds = rest \cup {r}]
       ELSE UNCHANGED text
    /\ Go(r, "written")
    /\ UNCHANGED <<posts, postLocal>>

\* "Post published!"
AppendPost(r) ==
    LET q == query[r] IN
    /\ At(r, "written")
    /\ posts' = Append(posts,
           [number |-> number[r], user |-> q.user, title |-> q.title, req |-> r])
    /\ Go(r, "done")
    /\ UNCHANGED <<text, postLocal>>

-----------------------------------------------------------------------------
\* delete_post.c

\* Mutant: the pattern is the number alone.
MatchesNumber(line, q) == line.number = q.number

\* /^number|user|/
Matches(line, q) == line.number = q.number /\ line.user = q.user

\* sed -i has read posts.txt and written its copy.
SedRead(r) ==
    /\ Arrive(r, "delete")
    /\ sed' = [sed EXCEPT ![r] = Keep(posts, {k \in DOMAIN posts : ~Matches(posts[k], query[r])})]
    /\ Go(r, "sed")
    /\ UNCHANGED <<posts, text, number, opened, shown>>

\* It renames the copy, even if the script has been stopped.
SedRename(r) ==
    /\ sed[r] # None
    /\ posts' = sed[r]
    /\ sed' = [sed EXCEPT ![r] = None]
    /\ UNCHANGED <<process, text, number, opened, shown>>

\* "Post deleted"
RemoveText(r) ==
    LET i == query[r].number IN
    /\ At(r, "sed")
    /\ sed[r] = None
    /\ text' = [text EXCEPT ![i] = None]
    /\ Go(r, "done")
    /\ UNCHANGED <<posts, postLocal>>

-----------------------------------------------------------------------------
\* view_post.c

\* Where the first line with the number is, 0 without one: then "Post not found".
FirstLine(i) == SelectInSeq(posts, LAMBDA l : l.number = i)

FindLine(r) ==
    LET k == FirstLine(query[r].number) IN
    /\ Arrive(r, "view")
    /\ shown' = [shown EXCEPT ![r] =
           IF k = 0 THEN None ELSE [post |-> posts[k], text |-> {}]]
    /\ Go(r, IF k = 0 THEN "done" ELSE "found")
    /\ UNCHANGED <<posts, text, number, opened, sed>>

\* The name of the file is the field behind the title: with a separator in the
\* title it is the rest of the title, whatever file that is.
NamedFile(p) == IF p.title = None THEN p.number ELSE p.title

\* Whose text is in posts/<i>.txt; without the file "Content not found".
TextIn(i) == IF i = 0 \/ text[i] = None THEN {} ELSE text[i].holds

ReadText(r) ==
    LET p == shown[r].post IN
    /\ At(r, "found")
    /\ shown' = [shown EXCEPT ![r].text =
           IF p.title = Outside THEN {Outside} ELSE TextIn(NamedFile(p))]
    /\ Go(r, "done")
    /\ UNCHANGED <<posts, text, number, opened, sed>>

PostStep(r) ==
    \/ ReadMax(r) \/ OpenText(r) \/ WriteText(r) \/ AppendPost(r)
    \/ SedRead(r) \/ SedRename(r) \/ RemoveText(r)
    \/ FindLine(r) \/ ReadText(r)

-----------------------------------------------------------------------------
PostTypeOK ==
    /\ posts \in Seq(Post)
    /\ text \in [Number -> Text \cup {None}]
    /\ number \in [Req -> Number \cup {0}]
    /\ opened \in [Req -> Req \cup {None}]
    /\ sed \in [Req -> Seq(Post) \cup {None}]
    /\ shown \in [Req -> Shown \cup {None}]

Creations == Those({"create"})
Deletions == Those({"delete"})

\* No change overlapped with another one, and none left its sed running.
PostsInTurn == OneByOne(Creations \cup Deletions) /\ ~Killed(Deletions)

\* The deletions of a number that came after a request had ended.
DeletionsSince(r, i) == {d \in Deletions : query[d].number = i /\ r \in before[d]}

(***************************************************************************)
(* A post that was confirmed ("Post published!") keeps its line until its  *)
(* author deletes the number, and its text until anybody does, even if     *)
(* other creations are killed: unless creations or deletions overlapped or *)
(* a deletion was killed (create_post.c:93-107, delete_post.c:34-42).      *)
(***************************************************************************)
PostStays ==
    PostsInTurn =>
        \A r \in Creations : pc[r] = "done" =>
            LET later == DeletionsSince(r, number[r]) IN
            /\ (\A d \in later : query[d].user # query[r].user)
                  => \E k \in DOMAIN posts : posts[k].req = r
            /\ later = {} => text[number[r]] # None /\ text[number[r]].holds = {r}

(***************************************************************************)
(* After a confirmed deletion by its author ("Post deleted") neither the   *)
(* line nor the text of a post is there or comes back, unless changes      *)
(* overlapped or a deletion was killed.                                    *)
(***************************************************************************)
DeletedPostGone ==
    PostsInTurn =>
        \A d \in Deletions, r \in Creations :
            /\ pc[d] = "done" /\ r \in before[d]
            /\ number[r] = query[d].number /\ query[r].user = query[d].user
            => /\ \A k \in DOMAIN posts : posts[k].req # r
               /\ \A i \in Number : text[i] # None => r \notin text[i].holds

(***************************************************************************)
(* What an author was told lasts: a publication until somebody deletes the *)
(* post (create_post.c), a deletion for good (delete_post.c).              *)
(***************************************************************************)
PostsLast == PostStays /\ DeletedPostGone

(***************************************************************************)
(* Under the title of a post the page shows the text of that post and no   *)
(* other, or "Content not found", even under a number that was in use      *)
(* before or left by a creation that was killed.  The exception is a title *)
(* with the separator of posts.txt, the rest of which is taken for the     *)
(* name of the file (view_post.c:62, 77): then the page shows what is in   *)
(* that file, of a post only if the title names its number.  All that      *)
(* unless changes overlapped with each other or with the page, or a        *)
(* deletion was killed.                                                    *)
(***************************************************************************)
\* Whose text may be shown with a line of posts.txt.
Belongs(p) == CASE p.title = None      -> {p.req}
                [] p.title = Outside   -> {Outside}
                [] OTHER               -> {c \in Creations : number[c] = p.title}

ShownTogether ==
    \A v \in Those({"view"}) :
        /\ pc[v] = "done" /\ shown[v] # None
        /\ PostsInTurn
        /\ \A c \in Creations \cup Deletions : Apart(c, v)
        => shown[v].text \subseteq Belongs(shown[v].post)
-----------------------------------------------------------------------------
\* What makes PostsLast and ShownTogether inductive.

\* A line of a request that was confirmed.
IsPost(l) ==
    /\ l.req \in Creations /\ pc[l.req] = "done"
    /\ l.number = number[l.req] /\ l.user = query[l.req].user

Kept(r) == Keep(posts, {k \in DOMAIN posts : ~Matches(posts[k], query[r])})

\* Lines come from requests that are done, also in the copies that sed has made; and a
\* text is under the number of the requests that wrote it.
PostLines ==
    /\ \A k \in DOMAIN posts : IsPost(posts[k])
    /\ \A r \in Req : sed[r] # None =>
          /\ r \in Deletions /\ pc[r] \in {"sed", "dead"}
          /\ \A k \in DOMAIN sed[r] : IsPost(sed[r][k])
    /\ \A i \in Number : text[i] # None => \A r \in text[i].holds :
          r \in Creations /\ number[r] = i /\ pc[r] \notin {"numbered", "opened"}

\* The number and the text a creation is at, while no other change is under way.
PostAtWork ==
    PostsInTurn =>
        /\ \A j, k \in DOMAIN posts : posts[j].number = posts[k].number => j = k
        /\ \A r \in Req : sed[r] # None => sed[r] = Kept(r)
        /\ \A r \in Req :
              LET i == number[r] IN
              /\ pc[r] \in {"numbered", "opened", "written"} =>
                    \A k \in DOMAIN posts : posts[k].number < i
              /\ pc[r] = "opened" =>
                    text[i] # None /\ text[i].file = opened[r] /\ text[i].holds = {}
              /\ pc[r] = "written" => text[i] # None /\ text[i].holds = {r}

\* As long as a line is there, its text is the one that belongs to it, or removed.
TextBelongs ==
    PostsInTurn =>
        \A k \in DOMAIN posts :
            text[posts[k].number] # None => text[posts[k].number].holds \subseteq {posts[k].req}

\* DeletedPostGone, from the moment when sed has renamed its copy.
LineGone ==
    PostsInTurn =>
        \A d \in Deletions, r \in Creations :
            /\ pc[d] \in {"sed", "done"} /\ sed[d] = None /\ r \in before[d]
            /\ number[r] = query[d].number /\ query[r].user = query[d].user
            => \A k \in DOMAIN posts : posts[k].req # r

\* Without changes meanwhile a page still has a line that is there.
FoundStays ==
    PostsInTurn =>
        \A v \in Those({"view"}) :
            pc[v] = "found" /\ (\A c \in Creations \cup Deletions : Apart(c, v)) =>
                \E k \in DOMAIN posts : shown[v].post = posts[k]
==============================================================================
