------------------------------- MODULE Patterns -------------------------------
(***************************************************************************)
(* The wildcards of httpd (HTWild.c): patterns of the rules and of the     *)
(* addresses a group may come from, how they match a text and how what     *)
(* they match is put into another pattern.  A text is a sequence of        *)
(* tokens, "*" the wildcard of a pattern.                                  *)
(***************************************************************************)
EXTENDS Integers, Sequences, SequencesExt, FiniteSets, FiniteSetsExt

\* "/~" or "file:/~": a directory of a user, matched only by patterns that say so.
UserDir(text) ==
    \/ IsPrefix(<<"/", "~">>, text)
    \/ IsPrefix(<<"file:", "/", "~">>, text)

\* HTPattern_new: texts, with or without a wildcard before them.
PatternOf(str) ==
    LET Take(s, c) ==
            IF c # "*" THEN [s EXCEPT !.text = Append(@, c)]
            ELSE [wild |-> TRUE, text |-> <<>>,
                  items |-> IF s.text = <<>> THEN s.items
                            ELSE Append(s.items, [wild |-> s.wild, text |-> s.text])]
        end == FoldLeft(Take, [wild |-> FALSE, text |-> <<>>, items |-> <<>>], str)
    IN IF end.wild \/ end.text # <<>>
       THEN Append(end.items, [wild |-> end.wild, text |-> end.text])
       ELSE end.items

From(text, i) == SubSeq(text, i, Len(text))

\* Mutant: not at the end.
OccurrencesInside(act, t, i) == {j \in i .. Len(act) - Len(t) : IsPrefix(t, From(act, j))}

\* Where t begins in act, from place i on.
Occurrences(act, t, i) == {j \in i .. Len(act) - Len(t) + 1 : IsPrefix(t, From(act, j))}

\* match: what the wildcards stand for, in a set that is empty if there is no match.
\* Item k is matched from place i on; if what follows an occurrence of its text does
\* not match, the search goes on behind that occurrence.
MatchTexts(pat, act) ==
    LET m[k \in 1 .. Len(pat) + 1, i \in 1 .. Len(act) + 1] ==
            LET t    == pat[k].text
                udir == UserDir(From(act, i))
                after[j \in i .. Len(act) + 1] ==
                    LET found == Occurrences(act, t, j)
                        first == Min(found)
                        rest  == m[k + 1, first + Len(t)]
                    IN IF found = {} THEN {}
                       ELSE IF rest # {}
                            THEN {<<SubSeq(act, i, first - 1)>> \o texts : texts \in rest}
                            ELSE after[first + Len(t)]
            IN IF k > Len(pat) THEN IF i > Len(act) THEN {<<>>} ELSE {}
               ELSE IF udir /\ ~UserDir(t) THEN {}
               ELSE IF pat[k].wild
                    THEN IF t = <<>> THEN {<<From(act, i)>>} ELSE after[i]
                    ELSE IF IsPrefix(t, From(act, i)) THEN m[k + 1, i + Len(t)] ELSE {}
    IN m[1, 1]

\* replace: the wildcards of eqv stand for what those of the pattern stood for.
Replaced(eqv, texts) ==
    LET Put(s, item) ==
            IF item.wild /\ s.texts # <<>>
            THEN [out |-> s.out \o Head(s.texts) \o item.text, texts |-> Tail(s.texts)]
            ELSE [s EXCEPT !.out = @ \o item.text]
    IN FoldLeft(Put, [out |-> <<>>, texts |-> texts], eqv).out

\* HTPattern_match: what act is mapped to, in a set that is empty if there is no match.
Mapped(pat, eqv, act) ==
    IF pat = <<>> THEN {}
    ELSE {IF eqv = <<>> THEN act ELSE Replaced(PatternOf(eqv), texts) :
              texts \in MatchTexts(PatternOf(pat), act)}

\* HTPattern_firstWild: the place in act where the first wildcard begins, or 0.
FirstWild(pat) ==
    IF pat = <<>> THEN 0
    ELSE IF pat[1].wild THEN 1
    ELSE IF Len(pat) > 1 THEN 1 + Len(pat[1].text) ELSE 0

\* HTAA_templateMatch: one wildcard, of the templates in access control lists.
TemplateMatches(template, name) ==
    LET equal == {n \in 0 .. Len(template) :
                     n <= Len(name) /\ SubSeq(template, 1, n) = SubSeq(name, 1, n)}
        n     == Max(equal)
        rest  == From(template, n + 2)
    IN \/ template = name
       \/ /\ n < Len(template) /\ template[n + 1] = "*"
          /\ Len(name) - n >= Len(rest)
          /\ IsSuffix(rest, name)

-----------------------------------------------------------------------------
\* What patterns mean: each wildcard stands for any text.
Glob(str, act) ==
    LET g[k \in 1 .. Len(str) + 1, i \in 1 .. Len(act) + 1] ==
            IF k > Len(str) THEN i > Len(act)
            ELSE IF str[k] = "*" THEN \E j \in i .. Len(act) + 1 : g[k + 1, j]
            ELSE i <= Len(act) /\ act[i] = str[k] /\ g[k + 1, i + 1]
    IN g[1, 1]

\* Some end of the text is also its beginning.
Overlaps(text) ==
    \E n \in 1 .. Len(text) - 1 : SubSeq(text, 1, n) = From(text, Len(text) - n + 1)
=============================================================================
