--------------------------------- MODULE Multi ---------------------------------
(***************************************************************************)
(* Which file answers a request for a path, HTMulti (HTMulti.c): the file  *)
(* itself, the welcome page of a directory, or the best of the files that  *)
(* have the parts of the name.  A path ends with the parts of a file name, *)
(* split where suffixes begin.                                             *)
(***************************************************************************)
EXTENDS Rules

\* A file system is a set of files: a path, whether it is a directory, whether its
\* suffixes tell its type, whether it is readable, and how well it suits the client
\* (HTRank); no two files suit it equally well.
Exists(fs, path) == \E f \in fs : f.path = path

\* The directory of a path, with its slash, and the name in it.
Directory(path) == SubSeq(path, 1, Max({0} \cup Slashes(path)))
NameIn(path) == From(path, Max({0} \cup Slashes(path)) + 1)

EndsInSlash(path) == path # <<>> /\ Last(path) = "/"

\* multi_match: the same beginning, and the other parts required in any order.
MultiMatch(required, actual) ==
    LET same == {n \in 0 .. Len(required) :
                    n <= Len(actual) /\ SubSeq(required, 1, n) = SubSeq(actual, 1, n)}
        c == Max(same)
    IN c > 0 /\ ToSet(From(required, c + 1)) \subseteq ToSet(From(actual, c + 1))

Better(f, g) == f.quality > g.quality

\* dir_matches, HTGetBest: files of the directory with a type, readable, and accepted.
Candidates(fs, path) ==
    LET name     == NameIn(path)
        required == IF name # <<>> /\ Last(name) = ".multi" THEN Front(name) ELSE name
    IN {f \in fs : /\ Directory(f.path) = Directory(path)
                   /\ MultiMatch(required, NameIn(f.path))
                   /\ f.typed /\ f.readable /\ f.quality > 0}

Best(fs, path) ==
    LET all == Candidates(fs, path)
    IN IF all = {} THEN <<>>
       ELSE (CHOOSE f \in all : \A g \in all \ {f} : Better(f, g)).path

\* get_best_welcome: the first of the welcome names that is in the directory.
Welcome(fs, names, path) ==
    LET there == {i \in DOMAIN names : Exists(fs, Append(path, names[i]))}
    IN IF there = {} THEN path ELSE Append(path, names[Min(there)])

IsDir(fs, path) ==
    \E f \in fs : f.dir /\ (f.path = path \/ Append(f.path, "/") = path)

\* HTMulti: the path of the file, or <<>>.  A path with a slash at its end that has no
\* welcome page is that of the directory.
FoundFile(fs, names, path) ==
    IF path = <<>> THEN <<>>
    ELSE IF EndsInSlash(path)
    THEN LET page == Welcome(fs, names, path)
         IN IF Exists(fs, page) \/ IsDir(fs, page) THEN page ELSE <<>>
    ELSE IF Last(path) # ".multi" /\ Exists(fs, path) THEN path
    ELSE Best(fs, path)
=============================================================================
