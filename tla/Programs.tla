------------------------------ MODULE Programs ------------------------------
(***************************************************************************)
(* What the two judges (cgi-src/judge.c, cgi-src/contest_submit.c) take    *)
(* from outside: the compilers, the submitted programs, the test files of  *)
(* data/testdata/<problem>/ and the diff command.                          *)
(*                                                                         *)
(* A printed text is abstracted to what diff tells apart: `text' is the    *)
(* text without its white space, `gaps' says where white space separates   *)
(* it.  The amount of white space, which diff -b and diff -w both ignore,  *)
(* is left out.                                                            *)
(***************************************************************************)
EXTENDS Integers, FiniteSets

CONSTANTS
    Lang,       \* languages submitted, of the three the forms offer
    Problem,    \* problem numbers
    Code,       \* source texts that are submitted
    Text,       \* abstract fragments of printed text
    MaxTests,   \* upload.c writes at most this many test points (50)
    Tests,      \* Tests[p]: the numbers n for which <p>/<n>.in exists
    Expected,   \* Expected[p][n]: the contents of <p>/<n>.out
    Prints,     \* Prints[c][p][n]: what program c has printed on <p>/<n>.in
                \*   when it exits, or when it is stopped if it never exits
    Hangs,      \* the <<c, p, n>> on which program c never exits
    Broken,     \* the source texts a C or C++ compiler refuses
    Endless,    \* the source texts a C or C++ compiler never finishes with
    None,       \* no file, no child process
    Empty,      \* contents of a file just truncated by a shell redirection
    Mixed,      \* contents of a file two processes have written into
    ShellError  \* the shell's message when the program cannot be executed

TestNo == 1 .. MaxTests
Output == [text : Text, gaps : Text]
\* A running compiler or test run, and the text it works on.
Child  == [op : {"link", "run"}, code : Code \cup {None}]
File   == Output \cup {None, Empty, Mixed, ShellError}

ASSUME ProgramsAssumption ==
    /\ Lang \subseteq {"c", "cpp", "py"}
    /\ MaxTests \in Nat \ {0}
    /\ Tests \in [Problem -> SUBSET TestNo]
    /\ Expected \in [Problem -> [TestNo -> Output]]
    /\ Prints \in [Code -> [Problem -> [TestNo -> Output]]]
    /\ Hangs \subseteq Code \X Problem \X TestNo
    /\ Broken \subseteq Code
    /\ Endless \subseteq Code \ Broken
    /\ None \notin Code \cup Child
    /\ {None, Empty, Mixed, ShellError} \cap Output = {}
    /\ None # ShellError /\ Empty # Mixed /\ {None, ShellError} \cap {Empty, Mixed} = {}

Compiled(lang) == lang # "py"

\* The texts agree up to the amount of white space, or without white space.
SameB(file, expected) == file = expected
SameW(file, expected) == file \in Output /\ file.text = expected.text

\* The exit statuses `diff -b' and `diff -w' can have: 0 if the texts agree.
\* What two processes have written into one file may or may not agree.
DiffB(file, expected) ==
    IF file = Mixed THEN {0, 1} ELSE IF SameB(file, expected) THEN {0} ELSE {1}
DiffW(file, expected) ==
    IF file = Mixed THEN {0, 1} ELSE IF SameW(file, expected) THEN {0} ELSE {1}

\* What running `code' on test n of problem p leaves in its output file.
Ran(code, p, n) == IF code = None THEN ShellError ELSE Prints[code][p][n]
=============================================================================
