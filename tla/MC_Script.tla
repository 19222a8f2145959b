------------------------------ MODULE MC_Script ------------------------------
(* An instance of Handle, with Script, for TLC.                            *)
EXTENDS Handle

-----------------------------------------------------------------------------
(* Sites.                                                                  *)

Rule(op, pat, eqv, prot) == [op |-> op, pat |-> pat, eqv |-> eqv, prot |-> prot]

File(path, quality, key) ==
    [path |-> path, dir |-> FALSE, typed |-> TRUE, readable |-> TRUE,
     quality |-> quality, key |-> key, shown |-> TRUE]

Plain ==
    [rules |-> <<>>, userDirs |-> FALSE, homes |-> <<>>, setups |-> <<>>, lists |-> <<>>,
     fs |-> {}, welcome |-> <<>>, alwaysWelcome |-> FALSE, disabled |-> {}, scripts |-> {},
     standalone |-> FALSE, listing |-> "forbid"]

Cgi  == <<"/", "cgi", "/", "judge">>
Page == <<"/", "docs", "/", "page", ".html">>
Note == <<"/", "docs", "/", "note">>
Open == <<"/", "docs", "/", "open", "/">>
Missing == <<"/", "docs", "/", "none">>
All  == <<"/", "*">>

\* The site of the online judge: scripts, documents, and nothing protected.
Judging ==
    [Plain EXCEPT
        !.rules = <<Rule("exec", <<"/", "cgi", "/", "*">>, <<"/", "cgi", "/", "*">>, NoName),
                    Rule("pass", All, <<>>, NoName)>>,
        !.fs = {File(Page, 1, 0)}]

\* Groups: who may use what is protected, in all combinations.
Home == <<"10", ".", "*">>
Item(users, addresses) == [users |-> users, addresses |-> addresses]
Some ==
    {Item(users, addresses) :
        users \in {<<>>, <<"alice">>, <<"staff">>, <<"staff", "bob">>, <<"all">>, <<"anyone">>},
        addresses \in {<<>>, <<Home>>}}

Staff == [name |-> "staff", items |-> <<Item(<<"alice">>, <<Home>>)>>]

Protection(items, override) ==
    [masks |-> [m \in {"GET", "POST", "DELETE"} |->
                   IF m = "POST" THEN <<Item(<<"anyone">>, <<>>)>> ELSE items],
     override |-> override, basic |-> TRUE,
     groups |-> <<Staff, [name |-> "all", items |-> <<Item(<<"staff", "carol">>, <<>>)>>]>>,
     passwords |-> [u \in {"alice", "bob"} |-> IF u = "bob" THEN "" ELSE "word"]]

Member(items) ==
    [Plain EXCEPT
        !.rules = <<Rule("protect", All, <<>>, "own"), Rule("pass", All, <<>>, NoName)>>,
        !.setups = [s \in {"own"} |-> Protection(items, FALSE)],
        !.fs = {File(Page, 1, 0)}]

\* Rules of every kind, and access control lists.
Mixed(override) ==
    [Plain EXCEPT
        !.rules =
            <<Rule("defprot", <<"/", "docs", "/", "*">>, <<>>, "default"),
              Rule("protect", <<"/", "cgi", "/", "*">>, <<>>, "staff"),
              Rule("protect", <<"/", "*", "page", "*">>, <<>>, NoName),
              Rule("exec", <<"/", "cgi", "/", "*">>, <<"/", "bin", "/", "*">>, NoName),
              Rule("map", <<"/", "alias", "*">>, <<"/", "docs", "*">>, NoName),
              Rule("redirect", <<"/", "old", "/", "*">>, <<"/", "docs", "/", "*">>, NoName),
              Rule("moved", <<"*", "a", "b", "a">>, <<>>, NoName),
              Rule("moved", <<"/", "gone", "*">>, Page, NoName),
              Rule("fail", <<"/", "*", "fail">>, <<>>, NoName),
              Rule("pass", <<"/", "far", "/", "*">>, <<"http:", "/", "*">>, NoName),
              Rule("pass", <<"/", "~", "*", "/", "*">>, <<"/", "~", "*", "/", "*">>, NoName),
              Rule("pass", <<"/", "docs", "*">>, <<"/", "docs", "*">>, NoName),
              Rule("pass", <<"/", "list", "*">>, <<"/", "docs", "*">>, NoName)>>,
        !.userDirs = TRUE,
        !.homes = [u \in {<<"bob">>} |-> <<"/", "bob">>],
        !.setups = [s \in {"default", "staff"} |->
                       Protection(<<IF s = "staff" THEN Item(<<"staff">>, <<>>)
                                ELSE Item(<<"bob">>, <<>>)>>, override)],
        !.lists = [d \in {<<"/", "docs", "/", "open", "/">>} |->
                      <<[template |-> <<"page", "*">>, methods |-> {"GET", "DELETE"},
                         group |-> <<Item(<<"bob">>, <<>>)>>],
                        [template |-> <<"*">>, methods |-> {"GET"},
                         group |-> <<Item(<<"staff">>, <<>>)>>]>>],
        !.fs = {File(<<"/", "docs", "/", "page", ".en", ".html">>, 2, 0),
                File(<<"/", "docs", "/", "page", ".fr", ".html">>, 1, 0),
                File(<<"/", "docs", "/", "note">>, 1, 0),
                File(<<"/", "docs", "/", "open", "/", "page">>, 1, 0),
                File(<<"/", "docs", "/", "open", "/", "welcome">>, 1, 0),
                File(<<"/", "bob", "/", "note">>, 1, 0),
                [File(<<"/", "docs", "/", "open">>, 1, 0) EXCEPT !.dir = TRUE]},
        !.welcome = <<"index", "welcome">>,
        !.alwaysWelcome = TRUE,
        !.disabled = {"TRACE"},
        !.scripts = {"search", "DELETE"},
        !.standalone = override]

\* Directories.
Dir == <<"/", "docs", "/", "pub">>
Names == <<"a", "b", "c", "d", "e", "f">>
Listing(how, keys) ==
    [Plain EXCEPT
        !.rules = <<Rule("exec", <<"/", "cgi", "/", "*">>, <<>>, NoName),
                    Rule("pass", All, <<>>, NoName)>>,
        !.fs = {[File(Dir, 1, 0) EXCEPT !.dir = TRUE],
                [File(Dir \o <<"/", ".www_browsable">>, 1, 0) EXCEPT !.shown = FALSE],
                File(Page, 1, 0)}
               \cup {File(Dir \o <<"/", Names[k]>>, 1, keys[k]) : k \in DOMAIN keys},
        !.listing = how]

SiteNames ==
    {<<"judge", <<>>>>} \cup ({"member"} \X (BoundedSeq(Some, 2) \ {<<>>}))
    \cup ({"mixed"} \X {<<FALSE>>, <<TRUE>>})
    \cup ({"forbid", "selective", "ok"} \X {<<1, 2>>, <<1, 2, 2, 3, 3, 4>>, <<>>})

SiteTable ==
    [n \in SiteNames |->
        CASE n[1] = "judge"  -> Judging
          [] n[1] = "member" -> Member(n[2])
          [] n[1] = "mixed"  -> Mixed(n[2][1])
          [] OTHER           -> Listing(n[1], n[2])]

-----------------------------------------------------------------------------
(* Clients and requests.                                                   *)

Client(scheme, user, password, address) ==
    [scheme |-> scheme, user |-> user, password |-> password, client |-> {address}]

AtHome == <<"10", ".", "1">>
Away   == <<"11", ".", "1">>
Anonymous == Client(NoName, "", "", Away)

Does(ops, header) == [ops |-> ops, header |-> header, traps |-> FALSE]

Asks(body, scripts, paths) ==
    [body |-> body, typed |-> body > 0, sends |-> body, takes |-> TRUE, scripts |-> scripts,
     paths |-> paths, site |-> <<"judge", <<>>>>, method |-> IF body = 0 THEN "GET" ELSE "POST",
     keywords |-> <<FALSE>>, since |-> FALSE, who |-> Anonymous]

\* All short scripts, asked with and without a body.
Short ==
    {Asks(body, <<Does(ops, header)>>, <<Cgi, Page>>) :
        body \in {0, 2},
        ops \in BoundedSeq({"in", "out", "fork"}, 4) \cup
                {<<"out", "in", "in", "out", "out">>,
                 <<"out", "out", "out", "out", "out">>, <<"in", "out", "out", "in", "out">>},
        header \in {"type", "local", "remote", "none"}}

\* One redirects to the other, once or more often than is followed.
Redirected ==
    {Asks(body, s, <<Cgi>>) :
        body \in {0, 1},
        s \in {<<Does(<<"out">>, "local"), Does(ops, "type")>> :
                   ops \in BoundedSeq({"in", "out"}, 2)}
              \cup {<<Does(<<"out">>, "local")>>}}

\* Scripts that do not come to an end, and clients that say nothing or take nothing.
Hanging ==
    {[Asks(1, <<[ops |-> ops, header |-> "type", traps |-> traps]>>, <<Cgi>>) EXCEPT
        !.sends = sends, !.takes = takes] :
        sends \in {0, 1}, takes \in BOOLEAN, traps \in BOOLEAN,
        ops \in {<<"hang">>, <<"all", "out">>, <<"out", "out", "hang">>, <<"fork">>,
                 <<"in", "out">>}}

\* A content type without a body.
LineEnd ==
    {[Asks(0, <<Does(ops, header)>>, <<Cgi, Page>>) EXCEPT !.typed = TRUE, !.takes = takes] :
        takes \in BOOLEAN, header \in {"type", "local"},
        ops \in {<<>>, <<"out">>, <<"in", "out">>, <<"fork", "out">>, <<"out", "out", "hang">>}}

\* A search, asked for or redirected to, for what there is and what there is not; and
\* what a script says that a search has redirected to.
Searches ==
    {[Asks(0, scripts, paths) EXCEPT !.site = <<"mixed", <<FALSE>>>>, !.keywords = keywords,
        !.who = Client("basic", "alice", "word", AtHome)] :
        scripts \in {<<Does(ops, "type")>> : ops \in {<<>>, <<"out">>, <<"out", "out", "out">>}}
                   \cup {<<Does(<<"out">>, "local"), Does(ops, "type")>> :
                            ops \in {<<"out">>, <<"out", "out", "out">>}},
        paths \in {<<Note>>, <<Cgi, Note>>, <<Note, Cgi>>, <<Note, Open>>, <<Open, Cgi>>,
                   <<Missing, Note>>},
        keywords \in {<<TRUE>>, <<TRUE, FALSE>>, <<FALSE, TRUE>>}}

\* Everybody asks for a protected document.
Protected ==
    {[Asks(0, <<Does(<<"out">>, "type")>>, <<Page>>) EXCEPT !.site = site, !.who = who] :
        site \in {n \in SiteNames : n[1] = "member"},
        who \in {Anonymous, Client("basic", "alice", "word", AtHome),
                 Client("basic", "alice", "word", Away), Client("basic", "bob", "", Away),
                 Client("basic", "alice", "guess", AtHome)}}

\* Paths of all kinds, at once and after a script has redirected to them.
Paths ==
    {<<"/", "docs", "/", "page">>, <<"/", "docs", "/", "page", ".fr", ".html">>,
     <<"/", "docs", "/", "note">>, <<"/", "docs", "/", "none">>,
     <<"/", "docs", "/", "page", "none">>, <<"/", "docs", "/", "open">>,
     <<"/", "docs", "/", "open", "/">>, <<"/", "docs", "/", "open", "/", "page">>,
     <<"/", "list", "/", "open", "/", "page">>, <<"/", "list", "/", "open", "/", "welcome">>,
     <<"/", "list", "/", "note">>,
     <<"/", "alias", "/", "note">>, <<"/", "old", "/", "note">>, <<"/", "gone">>,
     <<"a", "b", "a", "b", "a">>, <<"/", "b", "a", "b", "a">>, <<"/", "x", "fail">>,
     <<"/", "cgi", "/", "judge", "/", "note">>, <<"/", "cgi", "/", "judge", "/", "~", "bob">>,
     <<"/", "far", "/", "host">>, <<"/", "~", "bob">>, <<"/", "~", "bob", "/", "note">>,
     <<"/", "~", "eve", "/", "note">>, <<"/", "none">>}

Various ==
    {[Asks(0, <<Does(<<"out">>, "local"), Does(<<"out">>, "type")>>, paths) EXCEPT
        !.site = site, !.method = method, !.who = who] :
        site \in {n \in SiteNames : n[1] = "mixed"},
        method \in {"GET", "POST", "DELETE"},
        who \in {Anonymous, Client("basic", "alice", "word", AtHome),
                 Client("basic", "bob", "", Away)},
        paths \in {<<path>> : path \in Paths} \cup {<<Cgi, path>> : path \in Paths}}

\* The other methods, with and without keywords or a date.
Odd ==
    {[Asks(0, <<Does(<<"out">>, "type")>>, <<path>>) EXCEPT
        !.site = <<"mixed", <<FALSE>>>>, !.method = method, !.keywords = keywords, !.since = since,
        !.who = Client("basic", "bob", "", Away)] :
        method \in {"GET", "PUT", "POST", "LINK", "TRACE", "INVALID"},
        keywords \in {<<FALSE>>, <<TRUE>>}, since \in BOOLEAN, path \in Paths}
    \cup {Asks(0, <<Does(<<"out">>, "type")>>, <<>>)}

Heads ==
    {[Asks(0, <<Does(<<"out">>, "type")>>, <<Page>>) EXCEPT
        !.site = <<"member", <<Item(<<"alice">>, <<>>)>>>>, !.method = "HEAD", !.who = who] :
        who \in {Anonymous, Client("basic", "alice", "word", AtHome)}}

Directories ==
    {[Asks(0, <<Does(<<"out">>, "type")>>, <<path>>) EXCEPT !.site = site, !.takes = takes] :
        site \in {n \in SiteNames : n[1] \in {"forbid", "selective", "ok"}}, takes \in BOOLEAN,
        path \in {Dir, Append(Dir, "/")}}

Requests == Short \cup Redirected \cup Hanging \cup LineEnd \cup Searches \cup Protected
            \cup Various \cup Odd \cup Heads \cup Directories
=============================================================================
