--------------------------------- MODULE Rules ---------------------------------
(***************************************************************************)
(* How httpd translates the path of a request by its rules, HTTranslateReq *)
(* (HTConfig.c): each rule whose pattern matches maps the path and acts on *)
(* it, until one of them decides.  For a script the rest of the path is    *)
(* translated once more, with Map, Pass and Fail only.                     *)
(***************************************************************************)
EXTENDS Patterns

NoName == "none"

\* A rule is an operation, a pattern, what it is mapped to (<<>>: nothing), and the
\* name of a protection (NoName: nothing) for protect and defprot.
Ops == {"protect", "defprot", "exec", "redirect", "moved", "pass", "map", "fail"}

\* prot and defprot are HTProt and HTDefProt before the translation.
Start(path, prot, defprot) ==
    [done |-> FALSE, ok |-> FALSE, current |-> path, reason |-> "ok",
     prot |-> prot, defprot |-> defprot, script |-> <<>>, translated |-> <<>>,
     info |-> <<>>, trans |-> <<>>, location |-> <<>>]

Failed(s, reason) == [s EXCEPT !.done = TRUE, !.ok = FALSE, !.reason = reason]

\* HTAA_setCurrentProtection and HTAA_setDefaultProtection, or the protection of the
\* rule itself: a Protect rule without one uses the default.
Protect(s, r) == [s EXCEPT !.prot = IF r.prot = NoName THEN s.defprot ELSE r.prot]
DefProt(s, r) == [s EXCEPT !.defprot = r.prot]

Relocate(s, r, reason) ==
    IF r.eqv = <<>> THEN Failed(s, "invalid_redirect")
    ELSE [s EXCEPT !.done = TRUE, !.ok = TRUE, !.reason = reason, !.location = s.current]

Fail(s) == IF UserDir(s.current) THEN s ELSE Failed(s, "by_rule")

Unwrap(path) == IF path # <<>> /\ path[1] = "file:" THEN Tail(path) ELSE path

Slashes(path) == {i \in DOMAIN path : path[i] = "/"}

\* The end of a translation that passes: the directory of a user is looked up.
\* Without a slash behind its name the client is sent to the path with one.
PassTo(conf, path, s) ==
    LET to   == Unwrap(s.current)
        ends == Slashes(to) \ {1}
        user == SubSeq(to, 3, Min(ends) - 1)
    IN IF ~conf.userDirs \/ ~IsPrefix(<<"/", "~">>, to)
       THEN [s EXCEPT !.done = TRUE, !.ok = TRUE, !.translated = to]
       ELSE IF ends = {}
       THEN [s EXCEPT !.done = TRUE, !.ok = TRUE, !.reason = "ok_redirect",
                      !.location = path \o <<"/">>]
       ELSE IF user \in DOMAIN conf.homes
       THEN [s EXCEPT !.done = TRUE, !.ok = TRUE,
                      !.translated = conf.homes[user] \o From(to, Min(ends))]
       ELSE Failed(s, "invalid_user")

\* What decides when no rule did.
Default(conf, path, s) ==
    IF s.done THEN s
    ELSE IF UserDir(s.current) THEN PassTo(conf, path, s) ELSE Failed(s, "by_rule")

\* A rule maps the current path.
Matches(s, r) == Mapped(r.pat, r.eqv, s.current) # {}
MappedBy(s, r) == [s EXCEPT !.current = CHOOSE to \in Mapped(r.pat, r.eqv, @) : TRUE]

\* One rule when the rest of a script's path is translated.
ActDry(conf, path, m, r) ==
    CASE r.op = "pass" -> PassTo(conf, path, m)
      [] r.op = "fail" -> Fail(m)
      [] OTHER         -> m

MapDry(conf, path, s, r) ==
    IF s.done \/ ~Matches(s, r) THEN s ELSE ActDry(conf, path, MappedBy(s, r), r)

TranslateInfo(conf, path, s, info) ==
    Default(conf, path,
            FoldLeft(LAMBDA t, r : MapDry(conf, path, t, r),
                     Start(info, s.prot, s.defprot), conf.rules))

\* The path up to its n-th part is a script, and t the translation of the rest, which
\* may fail, but also send the client elsewhere.
ScriptUpTo(n, s, t) ==
    [s EXCEPT !.done = TRUE, !.ok = TRUE, !.script = SubSeq(s.current, 1, n),
              !.info = From(s.current, n + 1), !.trans = t.translated,
              !.reason = t.reason, !.location = t.location]

\* An Exec rule: what begins with a slash where the wildcard matched is not the name
\* of the script.
Exec(conf, path, s, r) ==
    LET at    == FirstWild(PatternOf(IF r.eqv = <<>> THEN r.pat ELSE r.eqv))
        after == {i \in Slashes(s.current) : at > 0 /\ i >= at}
    IN IF after = {} THEN [s EXCEPT !.done = TRUE, !.ok = TRUE, !.script = s.current]
       ELSE ScriptUpTo(Min(after) - 1, s,
                       TranslateInfo(conf, path, s, From(s.current, Min(after))))

\* One rule.
Act(conf, path, m, r) ==
    CASE r.op = "protect"  -> Protect(m, r)
      [] r.op = "defprot"  -> DefProt(m, r)
      [] r.op = "exec"     -> Exec(conf, path, m, r)
      [] r.op = "redirect" -> Relocate(m, r, "ok_redirect")
      [] r.op = "moved"    -> Relocate(m, r, "ok_moved")
      [] r.op = "pass"     -> PassTo(conf, path, m)
      [] r.op = "fail"     -> Fail(m)
      [] r.op = "map"      -> m

Apply(conf, path, s, r) ==
    IF s.done \/ ~Matches(s, r) THEN s ELSE Act(conf, path, MappedBy(s, r), r)

\* HTTranslateReq
Translate(conf, path, prot, defprot) ==
    Default(conf, path,
            FoldLeft(LAMBDA s, r : Apply(conf, path, s, r),
                     Start(path, prot, defprot), conf.rules))
=============================================================================
