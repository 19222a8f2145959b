--------------------------------- MODULE Forms ---------------------------------
(***************************************************************************)
(* What becomes of a text between the form it is typed into and the file:  *)
(* the browser encodes it, the programs find it in the query string, each  *)
(* in its own way, and some of them decode it.  The programs are           *)
(* register.c, login.cgi, delete_user.cgi and manage_admin.cgi, of the     *)
(* pages of which users.txt is the meeting point; how they get in each     *)
(* other's way is the matter of Accounts, so that each is one step here.   *)
(*                                                                         *)
(* A text is a sequence of characters: one that stays as it is, three that *)
(* a browser encodes, and two that it leaves but that mean something to    *)
(* grep, by which the scripts look for it.  No text has the separator | in *)
(* it, and none is longer than its buffer.                                 *)
(***************************************************************************)
EXTENDS Requests

Char == {"a", " ", "+", "@", ".", "*"}

\* Names of fields, in the pieces that occur in other names.
Token    == <<"token">>
Email    == <<"email">>
Username == <<"user", "name">>
Nickname == <<"nick", "name">>
Userid   == <<"user", "id">>
Password == <<"pass", "word">>
Confirm  == <<"confirm">>
Choice   == <<"action">>

Registering == [op : {"register"}, name : Seq(Char), pwd : Seq(Char)]
LoggingIn   == [op : {"login"}, name : Seq(Char), pwd : Seq(Char)]
Removing    == [op : {"unregister"}, name : Seq(Char)]
Appointing  == [op : {"appoint"}, key : {Username, Userid},
                value : Seq(Char \cup {"0", "1"} \cup Req), choice : {"add", "remove"}]

FormOps == {"register", "login", "unregister", "appoint"}

VARIABLES
    lines,   \* users.txt
    told     \* what the page says

formVars == <<lines, told>>

\* The number of an account, named after the request that registered it.
AccountNumber(r) == <<"1", "0", "0", "0", r>>

Line(name, pwd, r) ==
    [name |-> name, pwd |-> pwd, role |-> "0", number |-> AccountNumber(r)]

\* The line the site is shipped with: su removes and appoints.
Su == <<"s", "u">>
SuLine == [name |-> Su, pwd |-> <<"a", "d", "m", "i", "n", "1", "2", "3">>, role |-> "2",
           number |-> <<"0", "0", "0", "0", "0">>]

FormInit ==
    /\ lines = <<SuLine>>
    /\ told = [r \in Req |-> "nothing"]

-----------------------------------------------------------------------------
\* The query string: what a browser makes of a form, or of a link.
FormCode(c) == CASE c = " " -> <<"+">>
                 [] c = "+" -> <<"%", "2", "B">>
                 [] c = "@" -> <<"%", "4", "0">>
                 [] OTHER   -> <<c>>

LinkCode(c) == IF c = " " THEN <<"%", "2", "0">> ELSE <<c>>

FormEncoded(text) == FlattenSeq([i \in DOMAIN text |-> FormCode(text[i])])
LinkEncoded(text) == FlattenSeq([i \in DOMAIN text |-> LinkCode(text[i])])

\* Pairs of a name and an encoded text.
Joined(pairs) == FlattenSeq([i \in DOMAIN pairs |->
    (IF i = 1 THEN <<>> ELSE <<"&">>) \o pairs[i][1] \o <<"=">> \o pairs[i][2]])

\* register.c: the form it shows.
RegisterForm(q) ==
    Joined(<<<<Email, FormEncoded(<<"a", "@", "a">>)>>, <<Username, FormEncoded(q.name)>>,
             <<Nickname, <<>>>>, <<Password, FormEncoded(q.pwd)>>,
             <<Confirm, FormEncoded(q.pwd)>>>>)

\* login.cgi: the form it shows.
LoginForm(q) ==
    Joined(<<<<Username, FormEncoded(q.name)>>, <<Password, FormEncoded(q.pwd)>>>>)

\* admin.c: the link behind every account, with its name as it is.
RemoveLink(q) == Joined(<<<<Token, <<"a">>>>, <<Username, LinkEncoded(q.name)>>>>)

\* admin.c: "Manage Admins", with a field for the name; or an address typed by hand.
AppointForm(q) ==
    Joined(<<<<Token, <<"a">>>>, <<q.key, FormEncoded(q.value)>>, <<Choice, <<q.choice>>>>>>)

-----------------------------------------------------------------------------
\* What programs read.

\* Where a name with a = behind it is.
Places(text, name) ==
    LET key == Append(name, "=")
    IN {i \in 1 .. Len(text) - Len(key) + 1 : SubSeq(text, i, i + Len(key) - 1) = key}

UpToAnd(text, from) ==
    LET ands == {k \in from .. Len(text) : text[k] = "&"}
    IN SubSeq(text, from, IF ands = {} THEN Len(text) ELSE Min(ands) - 1)

Behind(text, name, at) == UpToAnd(text, at + Len(name) + 1)

\* strstr, and sscanf up to the next &: the first place.
Field(text, name) ==
    IF Places(text, name) = {} THEN <<>> ELSE Behind(text, name, Min(Places(text, name)))

\* sed 's/.*name=\([^&]*\).*/\1/': the last place; without one the line is not changed.
SedField(text, name) ==
    IF Places(text, name) = {} THEN text ELSE Behind(text, name, Max(Places(text, name)))

Hex == [code \in {<<"2", "B">>, <<"2", "0">>, <<"4", "0">>} |->
    CASE code = <<"2", "B">> -> "+" [] code = <<"2", "0">> -> " " [] OTHER -> "@"]

url_decode(src) ==
    LET from[i \in 1 .. Len(src) + 1] ==
            IF i > Len(src) THEN <<>>
            ELSE IF src[i] = "+" THEN <<" ">> \o from[i + 1]
            ELSE IF src[i] = "%" /\ i + 2 <= Len(src)
            THEN <<Hex[<<src[i + 1], src[i + 2]>>]>> \o from[i + 3]
            ELSE <<src[i]>> \o from[i + 1]
    IN from[1]

-----------------------------------------------------------------------------
\* A line as it is in the file; the nickname is the name, the addresses are alike.
LineText(l) == l.name \o <<"|">> \o l.pwd \o <<"|", l.role, "|">> \o l.number
                   \o <<"|">> \o l.name \o <<"|", "a", "@", "a">>

\* Whether a basic regular expression matches a text from the j-th character on: a dot is
\* any character, a star repeats the one before it, and stands for itself at the beginning.
MatchesAt(pattern, t, at) ==
    LET Fits(i, j) == j <= Len(t) /\ pattern[i] \in {".", t[j]}
        from[i \in 1 .. Len(pattern) + 1, j \in 1 .. Len(t) + 1] ==
            \/ i > Len(pattern)
            \/ /\ i \in 2 .. Len(pattern) /\ pattern[i] = "*"
               /\ from[i + 1, j]
            \/ /\ i < Len(pattern) /\ pattern[i + 1] = "*"
               /\ from[i + 2, j] \/ (Fits(i, j) /\ from[i, j + 1])
            \/ /\ i <= Len(pattern) /\ (i = 1 \/ pattern[i] # "*")
               /\ i = Len(pattern) \/ pattern[i + 1] # "*"
               /\ Fits(i, j) /\ from[i + 1, j + 1]
    IN from[1, at]

\* grep "^pattern|" and grep "|pattern|", as indices of lines.
Begin(pattern) ==
    {i \in DOMAIN lines : MatchesAt(pattern \o <<"|">>, LineText(lines[i]), 1)}
Contain(pattern) ==
    {i \in DOMAIN lines : \E at \in DOMAIN LineText(lines[i]) :
        MatchesAt(<<"|">> \o pattern \o <<"|">>, LineText(lines[i]), at)}

Answer(r, what) == told' = [told EXCEPT ![r] = what] /\ Go(r, "done")


\* The line register.c writes: of name and password it decodes the name.
Registered(text, r) == Line(url_decode(Field(text, Username)), Field(text, Password), r)

Register(r) ==
    LET text == RegisterForm(query[r])
        line == Registered(text, r)
    IN /\ Arrive(r, "register")
       /\ IF \/ url_decode(Field(text, Email)) = <<>> \/ line.name = <<>> \/ line.pwd = <<>>
             \/ Field(text, Password) # Field(text, Confirm)
             \/ \E i \in DOMAIN lines : lines[i].name = line.name
          THEN Answer(r, "not_registered") /\ UNCHANGED lines
          ELSE Answer(r, "registered") /\ lines' = Append(lines, line)

\* Without a name or a password the form is shown again.
LogIn(r) ==
    LET text == LoginForm(query[r])
        name == SedField(text, Username)
        pwd  == SedField(text, Password)
    IN /\ Arrive(r, "login")
       /\ Answer(r, IF <<>> \in {name, pwd} THEN "form"
                    ELSE IF Begin(name \o <<"|">> \o pwd) # {} THEN "logged_in"
                    ELSE "login_failed")
       /\ UNCHANGED lines

\* grep -v "^target|"; the page says "deleted" whatever that has done.  The link is not
\* shown for su; without the line of su the comparison of its role fails, and forbids nothing.
Unregister(r) ==
    LET target == SedField(RemoveLink(query[r]), Username)
    IN /\ Arrive(r, "unregister")
       /\ lines' = Keep(lines, DOMAIN lines \ Begin(target))
       /\ Answer(r, "deleted")

\* The first line with the number between two separators says who is meant; its name is
\* then looked for as a pattern to learn the role, and as it is to change it.
Appoint(r) ==
    LET text   == AppointForm(query[r])
        found  == Contain(SedField(text, Userid))
        target == lines[Min(found)].name
        roles  == {<<i, lines[i].role>> : i \in Begin(target)}
        IsRole(role) == \E i \in DOMAIN lines : roles = {<<i, role>>}
        add    == SedField(text, Choice) = <<"add">>
    IN /\ Arrive(r, "appoint")
       /\ \/ /\ ~\E i \in Begin(Su) : lines[i].role = "2"
             /\ Answer(r, "denied") /\ UNCHANGED lines
          \/ /\ \E i \in Begin(Su) : lines[i].role = "2"
             /\ \/ found = {} /\ Answer(r, "not_found") /\ UNCHANGED lines
                \/ /\ found # {}
                   /\ \/ target = Su
                      \/ add /\ (IsRole("1") \/ IsRole("2"))
                      \/ ~add /\ ~IsRole("1")
                   /\ Answer(r, "as_before") /\ UNCHANGED lines
                \/ /\ found # {} /\ target # Su
                   /\ IF add THEN ~IsRole("1") /\ ~IsRole("2") ELSE IsRole("1")
                   /\ Answer(r, "role_changed")
                   /\ lines' = [i \in DOMAIN lines |->
                          IF lines[i].name # target THEN lines[i]
                          ELSE [lines[i] EXCEPT !.role = IF add THEN "1" ELSE "0"]]

FormStep(r) == Register(r) \/ LogIn(r) \/ Unregister(r) \/ Appoint(r)

-----------------------------------------------------------------------------
FormTypeOK ==
    /\ \A i \in DOMAIN lines :
           \/ lines[i] = SuLine
           \/ /\ lines[i].name \in Seq(Char) /\ lines[i].role \in {"0", "1"}
              /\ \E r \in Req : lines[i].number = AccountNumber(r)
    /\ told \in [Req -> {"nothing", "registered", "not_registered", "form", "logged_in",
                         "login_failed", "deleted", "denied", "not_found", "as_before",
                         "role_changed"}]

\* Of characters that neither a browser nor grep takes for others.
Simple(text) == Range(text) \cap {".", "*"} = {}
Plain(text)  == Range(text) \subseteq {"a", "."}

Did(r, what) == told[r] = what

\* The deletions by which an account may have gone.
Removals(name) == {d \in Req : Did(d, "deleted")
                               /\ (query[d].name = name \/ ~Simple(query[d].name))}

\* r came for the account that q has registered, which nobody had removed.
Regards(r, q) ==
    q \in before[r] /\ Did(q, "registered") /\ Removals(query[q].name) \cap before[r] = {}

==============================================================================
