--------------------------------- MODULE Access --------------------------------
(***************************************************************************)
(* Whether a request is answered, HTAA_checkAuthorization (HTAAServ.c):    *)
(* its path is translated by the rules, the file or script it stands for   *)
(* is found, and the protection in force, and the access control list of   *)
(* its directory, say who may have it.                                     *)
(***************************************************************************)
EXTENDS Multi, Groups

Changing == {"PUT", "DELETE"}

\* The names of protections, and that of none.
Prots(conf) == {NoName} \cup DOMAIN conf.setups

\* A configuration: rules, protections by name, access control lists by directory.
Configured(conf) ==
    /\ conf.rules \in Seq(ToSet(conf.rules))
    /\ \A r \in ToSet(conf.rules) : r.op \in Ops /\ r.prot \in Prots(conf)
    /\ \A name \in DOMAIN conf.setups :
          LET setup == conf.setups[name]
          IN /\ name # NoName /\ setup.groups \in Seq(Group)
             /\ \A m \in DOMAIN setup.masks : setup.masks[m] \in Items
    /\ \A dir \in DOMAIN conf.lists :
          \A e \in ToSet(conf.lists[dir]) : e.group \in Items

\* get_mask: the groups of a protection that may use a method, in a set that is empty
\* if it names none.
Masks(setup, method) ==
    LET m == IF method = "HEAD" THEN "GET" ELSE method
    IN IF m \in DOMAIN setup.masks THEN {setup.masks[m]}
       ELSE IF "any" \in DOMAIN setup.masks THEN {setup.masks["any"]} ELSE {}

\* HTAA_authenticate, HTAA_checkPassword: the name of the user, if the protection takes
\* the scheme and the password is right, or is needed for nobody.
User(setup, who) ==
    IF /\ who.scheme = "basic" /\ setup.basic
       /\ who.user \in DOMAIN setup.passwords
       /\ setup.passwords[who.user] \in {"", who.password}
    THEN who.user ELSE NoUser

\* HTAA_getAclEntry: the groups of the entries for this file and method.
Entries(list, path, method) ==
    {e.group : e \in {e \in ToSet(list) : /\ TemplateMatches(e.template, NameIn(path))
                                        /\ method \in e.methods}}

Decision(reason, prot) == [reason |-> reason, prot |-> prot]

\* What a group says of who asks.
Says(group, setup, who) == InGroup(group, setup.groups, User(setup, who), who.client)

Granting(granted, says) == IF says = "ok" THEN granted ELSE says

\* check_authorization by the masks of a protection alone.
ByMask(conf, prot, method, who, granted) ==
    LET setup == conf.setups[prot]
        masks == Masks(setup, method)
    IN IF masks = {} THEN Decision("no_acl", prot)
       ELSE Decision(Granting(granted, Says(CHOOSE m \in masks : TRUE, setup, who)), prot)

\* The same with an access control list, which may override the masks.
ByEntries(setup, entries, who) ==
    IF entries = {} THEN "no_entry"
    ELSE IF \E group \in entries : Says(group, setup, who) = "ok" THEN "ok"
    ELSE "not_member"

Both(by, reason) == IF by.reason = "ok" THEN Decision(reason, by.prot) ELSE by

ByList(conf, list, path, prot, method, who) ==
    LET setup  == conf.setups[prot]
        masked == Masks(setup, method) # {} /\ ~setup.override
    IN IF prot = NoName THEN Decision("setup_error", prot)
       ELSE Both(IF masked THEN ByMask(conf, prot, method, who, "ok") ELSE Decision("ok", prot),
                 ByEntries(setup, Entries(list, path, method), who))

\* check_authorization; t is a translation.  Without a Protect rule the default is
\* used for methods that change something and where there is a list.  There are no
\* lists for what a proxy fetches.
CheckAuthorization(conf, t, method, who, remote) ==
    LET this   == IF t.script # <<>> THEN t.script ELSE t.translated
        dir    == Directory(this)
        listed == ~remote /\ dir \in DOMAIN conf.lists
        ok     == IF remote THEN "ok_gateway" ELSE "ok"
        prot   == IF t.prot = NoName /\ (listed \/ method \in Changing) THEN t.defprot ELSE t.prot
    IN IF listed THEN ByList(conf, conf.lists[dir], this, prot, method, who)
       ELSE IF prot # NoName THEN ByMask(conf, prot, method, who, ok)
       ELSE IF method \in Changing THEN Decision("not_allowed", NoName)
       ELSE Decision(ok, NoName)

\* A path with the name of a protocol in front of it.
Remote(path) == path # <<>> /\ path[1] = "http:"

Reading == {"GET", "HEAD"}

IsPage(fs, found) == found # <<>> /\ ~IsDir(fs, found)

\* A directory without a slash behind it whose welcome page is there.
WelcomeElsewhere(conf, path) ==
    /\ conf.alwaysWelcome /\ IsDir(conf.fs, path) /\ ~EndsInSlash(path)
    /\ IsPage(conf.fs, FoundFile(conf.fs, conf.welcome, Append(path, "/")))

Settled(t, d) == [t EXCEPT !.reason = d.reason, !.prot = d.prot]

\* Mutant: whoever asks is told.
SaidMissing(missing, reason) == IF missing THEN "multi_failed" ELSE reason

\* That there is no file is only told to who is authorized.
Said(missing, reason) == IF missing /\ reason = "ok" THEN "multi_failed" ELSE reason

Authorized(conf, t, method, who, remote) ==
    Settled(t, CheckAuthorization(conf, t, method, who, remote))

Telling(missing, t) == [t EXCEPT !.reason = Said(missing, @)]

\* A translation that names a local file: who reads it gets the file that was found
\* for it.
CheckLocal(conf, path, t, method, who, physical) ==
    LET missing == method \in Reading /\ physical = <<>>
        present == method \in Reading /\ physical # <<>>
    IN IF present /\ WelcomeElsewhere(conf, physical)
       THEN [t EXCEPT !.reason = "ok_redirect", !.location = Append(path, "/")]
       ELSE Telling(missing,
                    Authorized(conf, [t EXCEPT !.translated = IF present THEN physical ELSE @],
                               method, who, FALSE))

\* What is checked once the path has been translated.
CheckTranslated(conf, path, t, method, who) ==
    IF ~t.ok \/ t.reason \in {"ok_redirect", "ok_moved"} THEN t
    ELSE IF t.script # <<>> \/ Remote(t.translated)
    THEN Authorized(conf, t, method, who, t.script = <<>>)
    ELSE CheckLocal(conf, path, t, method, who, FoundFile(conf.fs, conf.welcome, t.translated))

\* The file or directory that was found for a path: its attributes are kept, for an
\* answer that may be another one (HTSetAttributes).
Physical(conf, path, method) ==
    LET t     == Translate(conf, path, NoName, NoName)
        found == FoundFile(conf.fs, conf.welcome, t.translated)
    IN IF /\ t.ok /\ t.reason \notin {"ok_redirect", "ok_moved"}
          /\ t.script = <<>> /\ ~Remote(t.translated)
          /\ method \in Reading /\ ~WelcomeElsewhere(conf, found)
       THEN found ELSE <<>>

\* HTAA_checkAuthorization, with the protections of an earlier path, if any.
Check(conf, path, method, who, prot, defprot) ==
    CheckTranslated(conf, path, Translate(conf, path, prot, defprot), method, who)

\* The status code of a reason.
Status(reason) ==
    CASE reason \in {"not_member"} -> "401"
      [] reason \in {"ip_mask", "by_rule", "no_acl", "no_entry", "setup_error", "dotdot",
                     "invalid_redirect", "invalid_user", "not_allowed"} -> "403"
      [] reason \in {"multi_failed"} -> "404"
      [] reason \in {"ok", "ok_gateway"} -> "200"
      [] reason = "ok_moved" -> "301"
      [] reason = "ok_redirect" -> "302"
=============================================================================
