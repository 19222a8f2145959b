----------------------------- MODULE AccountsProofs -----------------------------
(***************************************************************************)
(* Proofs about Accounts: for any requests, names and passwords, and any   *)
(* order of the steps.                                                     *)
(***************************************************************************)
EXTENDS Accounts, ListsProofs

---------------------------------------------------------------------------
\* Lists of lines

\* A line of L is still one of L when another is joined to its front.
Closed(L) == \A l, m \in L : [l EXCEPT !.name = m.name \o l.name] \in L

LEMMA FrontIn ==
    ASSUME NEW L, NEW s \in Seq(L), s # <<>>
    PROVE  Front(s) \in Seq(L) /\ Last(s) \in L
<1>1. Len(s) \in Nat \ {0}
  OBVIOUS
<1>2. QED
  BY <1>1 DEF Front, Last

LEMMA GlueIn ==
    ASSUME NEW L, Closed(L), NEW s \in Seq(L), NEW line \in L
    PROVE  Glue(s, line) \in Seq(L)
<1>1. CASE s # <<>> /\ ~Last(s).ended
  <2> DEFINE new == [line EXCEPT !.name = Last(s).name \o line.name]
  <2>1. Last(s) \in L /\ Front(s) \in Seq(L)
    BY <1>1, FrontIn
  <2>2. new \in L
    BY <2>1 DEF Closed
  <2>3. Glue(s, line) = Front(s) \o <<new>>
    BY <1>1 DEF Glue
  <2> HIDE DEF new
  <2>4. QED
    BY <2>1, <2>2, <2>3
<1>2. CASE ~(s # <<>> /\ ~Last(s).ended)
  <2>1. Glue(s, line) = Append(s, line)
    BY <1>2, Zenon DEF Glue
  <2>2. QED
    BY <2>1
<1>3. QED
  BY <1>1, <1>2

\* One step of the fold in GlueAll.
GlueStep(base, more, f) ==
    [S \in SUBSET DOMAIN more |->
        IF S = {} THEN base ELSE Glue(f[S \ {Max(S)}], more[Max(S)])]

LEMMA GlueAllIs ==
    ASSUME NEW base, NEW more
    PROVE  GlueAll(base, more) = (CHOOSE f : f = GlueStep(base, more, f))[DOMAIN more]
BY Zenon DEF GlueAll, FoldLeft, MapThenFoldSet, GlueStep

LEMMA LatestIsMax ==
    ASSUME NEW s, NEW S \in SUBSET DOMAIN s
    PROVE  Latest(s)[S] = Max(S)
BY Zenon DEF Latest, Max

LEMMA GlueAllIn ==
    ASSUME NEW L, NEW more \in Seq(L), NEW V, NEW base \in V,
           \A s \in V, l \in L : Glue(s, l) \in V
    PROVE  GlueAll(base, more) \in V
<1> DEFINE D == DOMAIN more
           c == Latest(more)
<1>1. /\ IsFiniteSet(D) /\ Chooses(c, D)
      /\ \A S \in SUBSET D : S # {} => c[S] = Max(S)
  BY LatestIs, LatestIsMax
<1>2. \A k \in D : more[k] \in L
  OBVIOUS
<1>3. \E f : f = GlueStep(base, more, f)
  <2> DEFINE G == [x \in V \X D |-> Glue(x[1], more[x[2]])]
  <2>1. G \in [V \X D -> V]
    BY <1>2
  <2>2. \A s \in V, k \in D : G[<<s, k>>] = Glue(s, more[k])
    OBVIOUS
  <2> HIDE DEF c, D, G
  <2>3. PICK f : FoldOf(f, D, c, V, base, G)
    BY <1>1, <2>1, FoldExists
  <2>4. ASSUME NEW S \in SUBSET D
        PROVE  f[S] = GlueStep(base, more, f)[S]
    <3>1. CASE S = {}
      BY <2>3, <3>1 DEF GlueStep, FoldOf, D
    <3>2. CASE S # {}
      <4> DEFINE rest == f[S \ {c[S]}]
      <4>1. c[S] = Max(S) /\ c[S] \in D /\ rest \in V
        BY <1>1, <2>3, <3>2 DEF FoldOf, Chooses
      <4>2. f[S] = G[<<rest, c[S]>>]
        BY <2>3, <3>2 DEF FoldOf
      <4>3. G[<<rest, c[S]>>] = Glue(rest, more[Max(S)])
        <5> HIDE DEF rest
        <5>1. QED
          BY <2>2, <4>1
      <4>4. GlueStep(base, more, f)[S] = Glue(rest, more[Max(S)])
        BY <3>2, <4>1 DEF GlueStep, D
      <4>5. QED
        BY <4>2, <4>3, <4>4
    <3>3. QED
      BY <3>1, <3>2
  <2>5. f = GlueStep(base, more, f)
    BY <2>3, <2>4 DEF GlueStep, FoldOf, D
  <2>6. QED
    BY <2>5
<1> DEFINE f == CHOOSE f : f = GlueStep(base, more, f)
           T == {S \in SUBSET D : f[S] \in V}
<1>4. f = GlueStep(base, more, f)
  BY <1>3
<1> HIDE DEF f
<1>5. {} \in T
  <2>1. GlueStep(base, more, f)[{}] = base
    BY DEF GlueStep
  <2>2. f[{}] = base
    BY <1>4, <2>1, Zenon
  <2>3. QED
    BY <2>2
<1>6. ASSUME NEW S \in SUBSET D, S # {}, S \ {c[S]} \in T
      PROVE  S \in T
  <2> DEFINE rest == f[S \ {Max(S)}]
  <2>1. c[S] = Max(S) /\ Max(S) \in D
    BY <1>1, <1>6 DEF Chooses
  <2>2. rest \in V /\ more[Max(S)] \in L
    BY <1>2, <1>6, <2>1
  <2>3. GlueStep(base, more, f)[S] = Glue(rest, more[Max(S)])
    BY <1>6 DEF GlueStep
  <2> HIDE DEF rest
  <2>4. f[S] = Glue(rest, more[Max(S)])
    BY <1>4, <2>3, Zenon
  <2>5. f[S] \in V
    BY <2>2, <2>4
  <2>6. QED
    BY <2>5
<1>7. SUBSET D \subseteq T
  <2> HIDE DEF c, D, T
  <2>1. PassedOn(T, c, D)
    BY <1>5, <1>6 DEF PassedOn
  <2>2. QED
    BY <1>1, <2>1, SubsetInduction
<1>8. QED
  BY <1>7, GlueAllIs DEF f

\* What is written for a line when the lines of u are replaced.
Piece(line, u, new, mail) ==
    IF ~Named(line, u) THEN <<Others(line)>>
    ELSE <<NewLine(line.name, Edited(line.account, new))>>
         \o (IF mail \/ ~line.ended THEN <<>> ELSE <<Blank>>)

ReplacedStep(lines, u, new, mail, f) ==
    [S \in SUBSET DOMAIN lines |->
        IF S = {} THEN <<>>
        ELSE GlueAll(f[S \ {Max(S)}], Piece(lines[Max(S)], u, new, mail))]

LEMMA ReplacedIs ==
    ASSUME NEW lines, NEW u, NEW new, NEW mail
    PROVE  Replaced(lines, u, new, mail) =
               (CHOOSE f : f = ReplacedStep(lines, u, new, mail, f))[DOMAIN lines]
BY Zenon DEF Replaced, FoldLeft, MapThenFoldSet, ReplacedStep, Piece

LEMMA ReplacedIn ==
    ASSUME NEW L, Closed(L), NEW lines, lines \in Seq(Line), NEW u, NEW new, NEW mail,
           \A k \in DOMAIN lines : Piece(lines[k], u, new, mail) \in Seq(L)
    PROVE  Replaced(lines, u, new, mail) \in Seq(L)
<1> DEFINE D == DOMAIN lines
           V == Seq(L)
           c == Latest(lines)
           piece(k) == Piece(lines[k], u, new, mail)
           after(f) == ReplacedStep(lines, u, new, mail, f)
<1>1. /\ IsFiniteSet(D) /\ Chooses(c, D)
      /\ \A S \in SUBSET D : S # {} => c[S] = Max(S)
  BY LatestIs, LatestIsMax
<1>2. ASSUME NEW s \in V, NEW k \in D
      PROVE  GlueAll(s, piece(k)) \in V
  <2>1. piece(k) \in Seq(L)
    OBVIOUS
  <2>2. \A a \in V, l \in L : Glue(a, l) \in V
    BY GlueIn
  <2> HIDE DEF piece, V
  <2>3. QED
    BY <2>1, <2>2, GlueAllIn
<1>3. <<>> \in V
  OBVIOUS
<1> HIDE DEF V, c
<1>4. \E f : f = after(f)
  <2> DEFINE G == [x \in V \X D |-> GlueAll(x[1], piece(x[2]))]
  <2>1. G \in [V \X D -> V]
    <3> HIDE DEF piece
    <3>1. QED
      BY <1>2
  <2>2. \A s \in V, k \in D : G[<<s, k>>] = GlueAll(s, piece(k))
    OBVIOUS
  <2> HIDE DEF D, G, piece
  <2>3. PICK f : FoldOf(f, D, c, V, <<>>, G)
    BY <1>1, <1>3, <2>1, FoldExists
  <2>4. ASSUME NEW S \in SUBSET D
        PROVE  f[S] = after(f)[S]
    <3>1. CASE S = {}
      BY <2>3, <3>1 DEF ReplacedStep, FoldOf, D
    <3>2. CASE S # {}
      <4> DEFINE rest == f[S \ {c[S]}]
      <4>1. c[S] = Max(S) /\ c[S] \in D /\ rest \in V
        BY <1>1, <2>3, <3>2 DEF FoldOf, Chooses
      <4>2. f[S] = G[<<rest, c[S]>>]
        BY <2>3, <3>2 DEF FoldOf
      <4>3. G[<<rest, c[S]>>] = GlueAll(rest, piece(Max(S)))
        <5> HIDE DEF rest
        <5>1. QED
          BY <2>2, <4>1
      <4>4. after(f)[S] = GlueAll(rest, piece(Max(S)))
        BY <3>2, <4>1 DEF ReplacedStep, D, piece
      <4>5. QED
        BY <4>2, <4>3, <4>4
    <3>3. QED
      BY <3>1, <3>2
  <2>5. f = after(f)
    BY <2>3, <2>4 DEF ReplacedStep, FoldOf, D
  <2>6. QED
    BY <2>5
<1> DEFINE f == CHOOSE f : f = after(f)
           T == {S \in SUBSET D : f[S] \in V}
<1>5. f = after(f)
  BY <1>4
<1> HIDE DEF f
<1>6. {} \in T
  <2>1. after(f)[{}] = <<>>
    BY DEF ReplacedStep
  <2>2. f[{}] = <<>>
    BY <1>5, <2>1, Zenon
  <2>3. QED
    BY <1>3, <2>2
<1>7. ASSUME NEW S \in SUBSET D, S # {}, S \ {c[S]} \in T
      PROVE  S \in T
  <2> DEFINE rest == f[S \ {Max(S)}]
  <2>1. c[S] = Max(S) /\ Max(S) \in D
    BY <1>1, <1>7 DEF Chooses
  <2>2. rest \in V
    BY <1>7, <2>1
  <2>3. after(f)[S] = GlueAll(rest, piece(Max(S)))
    BY <1>7 DEF ReplacedStep
  <2> HIDE DEF rest, piece
  <2>4. f[S] = GlueAll(rest, piece(Max(S)))
    BY <1>5, <2>3, Zenon
  <2>5. f[S] \in V
    BY <1>2, <2>1, <2>2, <2>4
  <2>6. QED
    BY <2>5
<1>8. SUBSET D \subseteq T
  <2> HIDE DEF D, T
  <2>1. PassedOn(T, c, D)
    BY <1>6, <1>7 DEF PassedOn
  <2>2. QED
    BY <1>1, <2>1, SubsetInduction
<1>9. f[D] \in V
  BY <1>8
<1>10. QED
  BY <1>9, ReplacedIs DEF f, V

---------------------------------------------------------------------------
\* What programs make of lines that are their owners'

LEMMA JoinedIs ==
    ASSUME NEW S, NEW s \in Seq(S), NEW t \in Seq(S)
    PROVE  /\ s \o t \in Seq(S)
           /\ t # <<>> => s \o t # <<>> /\ Last(s \o t) = Last(t)
<1>1. s \o t \in Seq(S) /\ Len(s \o t) = Len(s) + Len(t)
  OBVIOUS
<1>2. ASSUME t # <<>>
      PROVE  s \o t # <<>> /\ Last(s \o t) = Last(t)
  <2>1. Len(s) \in Nat /\ Len(t) \in Nat \ {0}
    BY <1>2
  <2>2. (s \o t)[Len(s) + Len(t)] = t[Len(t)]
    BY <2>1
  <2>3. s \o t # <<>>
    BY <1>1, <2>1
  <2>4. QED
    BY <1>1, <2>2, <2>3 DEF Last
<1>3. QED
  BY <1>1, <1>2

LEMMA OwnClosed == Closed(OwnLine)
<1> SUFFICES ASSUME NEW l \in OwnLine, NEW m \in OwnLine
             PROVE  [l EXCEPT !.name = m.name \o l.name] \in OwnLine
  BY DEF Closed
<1> DEFINE both == m.name \o l.name
           new == [l EXCEPT !.name = both]
<1>1. /\ m.name \in Seq(Name \cup {Torn}) /\ l.name \in Seq(Name \cup {Torn})
      /\ l \in Line /\ IsOwn(l)
  BY DEF OwnLine, Line
<1>2. both \in Seq(Name \cup {Torn}) /\ (l.name # <<>> => both # <<>> /\ Last(both) = Last(l.name))
  BY <1>1, JoinedIs
<1> HIDE DEF both
<1>3. new \in Line /\ new.name = both /\ new.account = l.account
  BY <1>1, <1>2 DEF Line
<1> HIDE DEF new
<1>4. IsOwn(new)
  BY <1>1, <1>2, <1>3 DEF IsOwn
<1>5. QED
  BY <1>3, <1>4 DEF OwnLine, new, both

\* A line that is nobody's account.
LEMMA NobodysIn ==
    ASSUME NEW line \in Line, line.account = None \/ line.account.pwd = None
    PROVE  line \in OwnLine
BY DEF OwnLine, IsOwn

\* A line with the name, the owner, the number and the password of another.
LEMMA LikeIn ==
    ASSUME NEW l \in OwnLine, NEW m \in Line, m.name = l.name,
           l.account # None, m.account.by = l.account.by, m.account.uid = l.account.uid,
           m.account.pwd = l.account.pwd
    PROVE  m \in OwnLine
BY DEF OwnLine, IsOwn

LEMMA NothingIn == Nothing \in Account /\ Nothing.pwd = None
BY DEF Nothing, Account, File

LEMMA BlankIn == Blank \in OwnLine
<1>1. <<>> \in Seq(Name \cup {Torn})
  OBVIOUS
<1>2. Blank \in Line /\ Blank.account = None
  BY <1>1 DEF Blank, NewLine, Line
<1>3. QED
  BY <1>2, NobodysIn

LEMMA OthersIn ==
    ASSUME NEW l \in OwnLine
    PROVE  Others(l) \in OwnLine
<1>1. l \in Line /\ l.name \in Seq(Name \cup {Torn})
  BY DEF OwnLine, Line
<1>2. CASE l.account = None
  BY <1>2 DEF Others
<1>3. CASE l.account # None
  <2>1. Others(l) = [name |-> l.name, account |-> None, ended |-> FALSE]
    BY <1>3 DEF Others
  <2>2. Others(l) \in Line /\ Others(l).account = None
    BY <1>1, <2>1 DEF Line
  <2>3. QED
    BY <2>2, NobodysIn
<1>4. QED
  BY <1>2, <1>3

LEMMA EndedIn ==
    ASSUME NEW l \in OwnLine
    PROVE  [l EXCEPT !.ended = TRUE] \in OwnLine
<1> DEFINE m == [l EXCEPT !.ended = TRUE]
<1>1. m \in Line /\ m.name = l.name /\ m.account = l.account
  BY DEF OwnLine, Line
<1>2. QED
  BY <1>1 DEF OwnLine, IsOwn

LEMMA CompleteIn ==
    ASSUME NEW s \in Seq(OwnLine)
    PROVE  Complete(s) \in Seq(OwnLine)
<1>1. CASE s = <<>>
  BY <1>1 DEF Complete
<1>2. CASE s # <<>>
  <2> DEFINE new == [Last(s) EXCEPT !.ended = TRUE]
  <2>1. Front(s) \in Seq(OwnLine) /\ Last(s) \in OwnLine
    BY <1>2, FrontIn
  <2>2. new \in OwnLine
    BY <2>1, EndedIn
  <2>3. Complete(s) = Front(s) \o <<new>>
    BY <1>2 DEF Complete
  <2> HIDE DEF new
  <2>4. QED
    BY <2>1, <2>2, <2>3
<1>3. QED
  BY <1>1, <1>2

LEMMA WithoutIn ==
    ASSUME NEW s \in Seq(OwnLine), NEW u
    PROVE  Without(s, u) \in Seq(OwnLine)
<1> DEFINE K == {k \in DOMAIN s : ~(s[k].name = <<u>> /\ s[k].account # None)}
<1>1. K \in SUBSET DOMAIN s
  OBVIOUS
<1>2. Without(s, u) = Complete(Keep(s, K))
  BY DEF Without
<1> HIDE DEF K
<1>3. Keep(s, K) \in Seq(OwnLine)
  BY <1>1, KeepIs
<1>4. QED
  BY <1>2, <1>3, CompleteIn

LEMMA RoleIn ==
    ASSUME NEW l \in OwnLine, NEW role \in {0, 1}
    PROVE  [l EXCEPT !.account = [(IF l.account = None THEN Nothing ELSE l.account)
                                  EXCEPT !.role = role]] \in OwnLine
<1> DEFINE a == IF l.account = None THEN Nothing ELSE l.account
           b == [a EXCEPT !.role = role]
           m == [l EXCEPT !.account = b]
<1>1. l \in Line /\ a \in Account
  BY NothingIn DEF OwnLine, Line
<1> HIDE DEF a
<1>2. b \in Account /\ b.pwd = a.pwd /\ b.by = a.by /\ b.uid = a.uid
  BY <1>1 DEF Account
<1> HIDE DEF b
<1>3. m \in Line /\ m.name = l.name /\ m.account = b
  BY <1>1, <1>2 DEF Line
<1> HIDE DEF m
<1>4. m \in OwnLine
  <2>1. CASE l.account = None
    BY <1>2, <1>3, <2>1, NobodysIn, NothingIn DEF a
  <2>2. CASE l.account # None
    BY <1>2, <1>3, <2>2, LikeIn DEF a
  <2>3. QED
    BY <2>1, <2>2
<1>5. QED
  BY <1>4 DEF m, a, b

LEMMA WithRoleIn ==
    ASSUME NEW s \in Seq(OwnLine), NEW name, NEW role \in {0, 1}
    PROVE  WithRole(s, name, role) \in Seq(OwnLine)
<1> DEFINE new(k) == IF s[k].name # name THEN s[k]
                     ELSE [s[k] EXCEPT !.account =
                              [(IF s[k].account = None THEN Nothing ELSE s[k].account)
                               EXCEPT !.role = role]]
           t == [k \in DOMAIN s |-> new(k)]
<1>1. ASSUME NEW k \in DOMAIN s
      PROVE  new(k) \in OwnLine
  <2>1. s[k] \in OwnLine
    OBVIOUS
  <2>2. QED
    BY <2>1, RoleIn
<1>2. WithRole(s, name, role) = Complete(t)
  BY DEF WithRole
<1> HIDE DEF new
<1>3. t \in Seq(OwnLine)
  BY <1>1
<1> HIDE DEF t
<1>4. QED
  BY <1>2, <1>3, CompleteIn

\* Lines that stay what they are behind others, and when their beginning is lost.
Glues(L) == \A s \in Seq(L), l \in L : Glue(s, l) \in Seq(L)
Tears(L) == \A l \in L : [l EXCEPT !.name = <<Torn>>, !.account = None] \in L

LEMMA OwnTears == Glues(OwnLine) /\ Tears(OwnLine)
<1>1. Glues(OwnLine)
  BY OwnClosed, GlueIn DEF Glues
<1>2. ASSUME NEW l \in OwnLine
      PROVE  [l EXCEPT !.name = <<Torn>>, !.account = None] \in OwnLine
  <2> DEFINE torn == [l EXCEPT !.name = <<Torn>>, !.account = None]
  <2>1. <<Torn>> \in Seq(Name \cup {Torn})
    OBVIOUS
  <2>2. torn \in Line /\ torn.account = None
    BY <2>1 DEF OwnLine, Line
  <2> HIDE DEF torn
  <2>3. torn \in OwnLine
    BY <2>2, NobodysIn
  <2>4. QED
    BY <2>3 DEF torn
<1>3. QED
  BY <1>1, <1>2 DEF Tears

\* Writing over what is there.
LEMMA OverwrittenIn ==
    ASSUME NEW L, Glues(L), Tears(L), NEW f \in File, content[f] \in Seq(L),
           NEW lines \in Seq(L), NEW result \in Overwritten(f, lines)
    PROVE  result \in Seq(L)
<1> DEFINE was == content[f]
           torn(k) == [was[k] EXCEPT !.name = <<Torn>>, !.account = None]
<1>1. ASSUME NEW more \in Seq(L)
      PROVE  GlueAll(lines, more) \in Seq(L)
  <2> DEFINE V == Seq(L)
  <2>1. \A s \in V, l \in L : Glue(s, l) \in V
    BY DEF Glues
  <2> HIDE DEF V
  <2>2. lines \in V /\ more \in V
    BY <1>1 DEF V
  <2>3. GlueAll(lines, more) \in V
    BY <1>1, <2>1, <2>2, GlueAllIn
  <2>4. QED
    BY <2>3 DEF V
<1>2. ASSUME NEW k \in DOMAIN was
      PROVE  /\ SubSeq(was, k, Len(was)) \in Seq(L)
             /\ <<torn(k)>> \o SubSeq(was, k + 1, Len(was)) \in Seq(L)
  <2>1. was[k] \in L /\ k \in 1 .. Len(was) /\ Len(was) \in Nat
    OBVIOUS
  <2>2. torn(k) \in L
    BY <2>1 DEF Tears
  <2> HIDE DEF torn
  <2>3. SubSeq(was, k, Len(was)) \in Seq(L) /\ SubSeq(was, k + 1, Len(was)) \in Seq(L)
    BY <2>1
  <2> HIDE DEF was
  <2>4. QED
    BY <2>2, <2>3
<1>3. \/ result = lines
      \/ \E k \in DOMAIN was : result = GlueAll(lines, SubSeq(was, k, Len(was)))
      \/ \E k \in DOMAIN was :
             result = GlueAll(lines, <<torn(k)>> \o SubSeq(was, k + 1, Len(was)))
  BY DEF Overwritten
<1> HIDE DEF was, torn
<1>4. QED
  BY <1>1, <1>2, <1>3

LEMMA FewIn ==
    ASSUME NEW L, NEW x \in L, NEW y \in L
    PROVE  <<x>> \in Seq(L) /\ <<x>> \o <<>> \in Seq(L) /\ <<x>> \o <<y>> \in Seq(L)
OBVIOUS

LEMMA PieceAsWas ==
    ASSUME NEW l \in OwnLine, NEW u, NEW mail
    PROVE  Piece(l, u, None, mail) \in Seq(OwnLine)
<1> DEFINE a == Edited(l.account, None)
           m == NewLine(l.name, a)
<1>1. l \in Line /\ l.name \in Seq(Name \cup {Torn})
  BY DEF OwnLine, Line
<1>2. a = IF l.account = None THEN Nothing ELSE l.account
  BY DEF Edited
<1> HIDE DEF a
<1>3. a \in Account
  BY <1>1, <1>2, NothingIn DEF Line
<1>4. m \in Line /\ m.name = l.name /\ m.account = a
  BY <1>1, <1>3 DEF NewLine, Line
<1> HIDE DEF m
<1>5. m \in OwnLine
  <2>1. CASE l.account = None
    BY <1>2, <1>4, <2>1, NobodysIn, NothingIn
  <2>2. CASE l.account # None
    BY <1>2, <1>4, <2>2, LikeIn
  <2>3. QED
    BY <2>1, <2>2
<1>6. Piece(l, u, None, mail) \in {<<Others(l)>>, <<m>> \o <<>>, <<m>> \o <<Blank>>}
  BY DEF Piece, m, a
<1>7. <<Others(l)>> \in Seq(OwnLine)
  BY OthersIn, FewIn
<1>8. <<m>> \o <<>> \in Seq(OwnLine) /\ <<m>> \o <<Blank>> \in Seq(OwnLine)
  BY <1>5, BlankIn, FewIn
<1>9. QED
  BY <1>6, <1>7, <1>8, Zenon

\* A request whose old password may be the user's may set the new one.
LEMMA ChangeIsLegitimate ==
    ASSUME NEW r \in Req, query[r].op = "password", Legitimate(query[r].user, query[r].old)
    PROVE  Legitimate(query[r].user, query[r].new)
<1> DEFINE u == query[r].user
           old == query[r].old
<1>1. r \in ChangesOf(u)
  BY DEF ChangesOf
<1>2. CASE old \in Given(u)
  BY <1>1, <1>2 DEF Legitimate
<1>3. CASE \E q \in ChangesOf(u) :
               /\ query[q].new = old
               /\ query[q].old \in Given(u) \cup {query[p].new : p \in ChangesOf(u) \ {q}}
  <2>1. PICK q \in ChangesOf(u) :
               /\ query[q].new = old
               /\ query[q].old \in Given(u) \cup {query[p].new : p \in ChangesOf(u) \ {q}}
    BY <1>3
  <2>2. CASE q = r
    BY <1>1, <2>1, <2>2 DEF Legitimate
  <2>3. CASE q # r
    <3>1. old \in {query[p].new : p \in ChangesOf(u) \ {r}}
      BY <2>1, <2>3
    <3>2. QED
      BY <1>1, <3>1 DEF Legitimate
  <2>4. QED
    BY <2>2, <2>3
<1>4. QED
  BY <1>2, <1>3 DEF Legitimate

LEMMA PieceChanged ==
    ASSUME NEW r \in Req, query[r] \in PwdChange, query[r].op = "password", NEW l \in OwnLine,
           Named(l, query[r].user) => l.account # None /\ l.account.pwd = query[r].old
    PROVE  Piece(l, query[r].user, query[r].new, FALSE) \in Seq(OwnLine)
<1> DEFINE q == query[r]
           a == Edited(l.account, q.new)
           m == NewLine(l.name, a)
<1>1. /\ l \in Line /\ l.name \in Seq(Name \cup {Torn}) /\ IsOwn(l)
      /\ q.old \in Password /\ q.new \in Password /\ q.new # None /\ q.old # None
  BY AccountsAssumption DEF OwnLine, Line, PwdChange
<1>2. CASE ~Named(l, q.user)
  <2>1. Piece(l, q.user, q.new, FALSE) = <<Others(l)>>
    BY <1>2 DEF Piece
  <2>2. <<Others(l)>> \in Seq(OwnLine)
    BY OthersIn, FewIn
  <2>3. QED
    BY <2>1, <2>2, Zenon
<1>3. CASE Named(l, q.user)
  <2>1. /\ l.account # None /\ l.account.pwd = q.old /\ l.name = <<q.user>>
        /\ l.account \in Account
    BY <1>1, <1>3 DEF Named, Line
  <2>2. a = [l.account EXCEPT !.pwd = q.new]
    BY <1>1, <2>1 DEF Edited
  <2> HIDE DEF a
  <2>3. /\ a \in Account /\ a.pwd = q.new /\ a.by = l.account.by /\ a.uid = l.account.uid
    BY <1>1, <2>1, <2>2 DEF Account
  <2>4. m \in Line /\ m.name = l.name /\ m.account = a
    BY <1>1, <2>3 DEF NewLine, Line
  <2> HIDE DEF m
  <2>5. Last(l.name) = q.user
    BY <2>1 DEF Last
  <2>6. Legitimate(q.user, q.new)
    BY <1>1, <2>1, <2>5, ChangeIsLegitimate DEF IsOwn
  <2>7. IsOwn(m)
    BY <1>1, <2>1, <2>3, <2>4, <2>5, <2>6 DEF IsOwn
  <2>8. m \in OwnLine
    BY <2>4, <2>7 DEF OwnLine
  <2>9. Piece(l, q.user, q.new, FALSE) \in {<<m>> \o <<>>, <<m>> \o <<Blank>>}
    BY <1>3 DEF Piece, m, a
  <2>10. <<m>> \o <<>> \in Seq(OwnLine) /\ <<m>> \o <<Blank>> \in Seq(OwnLine)
    BY <2>8, BlankIn, FewIn
  <2>11. QED
    BY <2>9, <2>10, Zenon
<1>4. QED
  BY <1>2, <1>3

---------------------------------------------------------------------------
\* What steps are for the processes

Step(r) ==
    \/ Refuse(r)
    \/ CheckName(r) \/ ReadNumber(r) \/ EmptyNumber(r) \/ WriteNumber(r)
    \/ OpenUsers(r) \/ AppendUser(r)
    \/ OpenOld(r) \/ CopyProfile(r) \/ CopyPassword(r)
    \/ AllowDelete(r) \/ AllowAppoint(r) \/ OpenCopy(r) \/ Filter(r)
    \/ WriteCopy(r) \/ MoveCopy(r)

Places == {"idle", "free", "numbered", "emptied", "counted", "appending", "opened", "allowed",
           "filtering", "writing", "failing", "moving"} \cup Ended

\* Where a request goes from where it is, by what it is.
Flow(op, from, to) ==
    \/ from = "idle" /\ to = "refused"
    \/ /\ op = "register"
       /\ <<from, to>> \in {<<"idle", "free">>, <<"free", "numbered">>, <<"numbered", "emptied">>,
                            <<"emptied", "counted">>, <<"counted", "appending">>,
                            <<"appending", "done">>}
    \/ /\ op \in {"password", "profile"}
       /\ <<from, to>> \in {<<"idle", "opened">>, <<"opened", "writing">>,
                            <<"opened", "failing">>, <<"opened", "crashed">>,
                            <<"failing", "refused">>}
    \/ /\ op \in {"delete", "add", "remove"}
       /\ <<from, to>> \in {<<"idle", "allowed">>, <<"allowed", "filtering">>,
                            <<"filtering", "writing">>}
    \/ /\ op # "register"
       /\ <<from, to>> \in {<<"writing", "moving">>, <<"moving", "done">>}

\* What any step of a request does to its own state and to that of the others.
Moves(r) ==
    /\ query' = query /\ sessions' = sessions
    /\ pc' = [pc EXCEPT ![r] = pc'[r]]
    /\ Flow(query[r].op, pc[r], pc'[r])
    /\ uid' \in [Req -> Nat] /\ fd' \in [Req -> File]
    /\ lastId' \in Nat \cup {None} /\ users' \in File /\ copy' \in File \cup {None}
    /\ \A q \in Req \ {r} : uid'[q] = uid[q] /\ fd'[q] = fd[q] /\ text'[q] = text[q]
    /\ pc[r] # "free" => uid' = uid
    /\ pc[r] = "idle" => before' = [before EXCEPT ![r] = {q \in Req : pc[q] \in Ended}]
    /\ pc[r] # "idle" => before' = before

LEMMA QueryIs ==
    ASSUME TypeOK, NEW r \in Req
    PROVE  /\ query[r].op \in {"register", "password", "profile", "delete", "add", "remove"}
           /\ query[r].op = "register" => query[r] \in Registration
           /\ query[r].op = "password" => query[r] \in PwdChange
           /\ query[r].op = "profile" => query[r] \in Profile
           /\ query[r].op = "delete" => query[r] \in Deletion
           /\ query[r].op \in {"add", "remove"} => query[r] \in Appointment
<1>1. query[r] \in Registration \cup PwdChange \cup Profile \cup Deletion \cup Appointment
  BY AccountsAssumption DEF TypeOK
<1>2. QED
  BY <1>1 DEF Registration, PwdChange, Profile, Deletion, Appointment

LEMMA OpensCopyIs ==
    ASSUME TypeOK, NEW r \in Req, OpensCopy(r)
    PROVE  /\ copy' = IF copy = None THEN r ELSE copy
           /\ copy' \in File /\ copy' # None
           /\ content' = [content EXCEPT ![copy'] = <<>>]
           /\ fd' = [fd EXCEPT ![r] = copy']
           /\ fd' \in [Req -> File]
<1>1. r \in File /\ None \notin File
  BY AccountsAssumption DEF File
<1>2. copy' = IF copy = None THEN r ELSE copy
  BY DEF OpensCopy
<1>3. copy' \in File
  BY <1>1, <1>2 DEF TypeOK
<1>4. content' = [content EXCEPT ![copy'] = <<>>] /\ fd' = [fd EXCEPT ![r] = copy']
  BY <1>2 DEF OpensCopy
<1>5. QED
  BY <1>1, <1>2, <1>3, <1>4 DEF TypeOK

LEMMA Moving ==
    ASSUME TypeOK, Kinds, NEW r \in Req, Step(r)
    PROVE  Moves(r)
<1>1. /\ pc = [q \in Req |-> pc[q]] /\ uid \in [Req -> Nat] /\ fd \in [Req -> File]
      /\ lastId \in Nat \cup {None} /\ users \in File /\ copy \in File \cup {None}
      /\ text = [q \in Req |-> text[q]]
  BY DEF TypeOK
<1>2. /\ query[r].op \in {"register", "password", "profile", "delete", "add", "remove"}
      /\ pc[r] \in {"free", "numbered", "emptied", "counted", "appending"} =>
             query[r].op = "register"
      /\ pc[r] \in {"writing", "moving"} => query[r].op # "register"
      /\ pc[r] \in {"allowed", "filtering"} => query[r].op \in {"delete", "add", "remove"}
      /\ pc[r] \in {"opened", "failing", "crashed"} => query[r].op \in {"password", "profile"}
  BY QueryIs DEF Kinds, Registers
<1>3. CASE Refuse(r)
  BY <1>1, <1>3 DEF Refuse, Arrive, Go, local, Moves, Flow
<1>4. CASE CheckName(r)
  BY <1>1, <1>4 DEF CheckName, Arrive, Go, local, Moves, Flow
<1>5. CASE ReadNumber(r)
  <2> DEFINE n == (IF lastId = None THEN 10001 ELSE lastId) + 1
  <2>1. n \in Nat
    BY <1>1
  <2>2. uid' = [uid EXCEPT ![r] = n]
    BY <1>5 DEF ReadNumber
  <2> HIDE DEF n
  <2>3. uid' \in [Req -> Nat] /\ \A q \in Req \ {r} : uid'[q] = uid[q]
    BY <1>1, <2>1, <2>2
  <2>4. QED
    BY <1>1, <1>2, <1>5, <2>3 DEF ReadNumber, Go, Moves, Flow
<1>6. CASE EmptyNumber(r)
  BY <1>1, <1>2, <1>6 DEF EmptyNumber, Go, local, Moves, Flow
<1>7. CASE WriteNumber(r)
  BY <1>1, <1>2, <1>7 DEF WriteNumber, Go, local, Moves, Flow
<1>8. CASE OpenUsers(r)
  BY <1>1, <1>2, <1>8 DEF OpenUsers, Go, Moves, Flow
<1>9. CASE AppendUser(r)
  BY <1>1, <1>2, <1>9 DEF AppendUser, Go, local, Moves, Flow
<1>10. CASE OpenOld(r)
  BY <1>1, <1>2, <1>10 DEF OpenOld, Arrive, Go, Moves, Flow
<1>11. CASE CopyProfile(r)
  <2>1. OpensCopy(r)
    BY <1>11 DEF CopyProfile
  <2>2. /\ copy' \in File /\ fd' \in [Req -> File]
        /\ \A q \in Req \ {r} : fd'[q] = fd[q]
    BY <1>1, <2>1, OpensCopyIs
  <2>3. QED
    BY <1>1, <1>2, <1>11, <2>2 DEF CopyProfile, Go, Moves, Flow
<1>12. CASE CopyPassword(r)
  <2>1. OpensCopy(r)
    BY <1>12 DEF CopyPassword
  <2>2. /\ copy' \in File /\ fd' \in [Req -> File]
        /\ \A q \in Req \ {r} : fd'[q] = fd[q]
    BY <1>1, <2>1, OpensCopyIs
  <2>3. /\ pc[r] = "opened" /\ query[r].op = "password"
        /\ UNCHANGED <<users, lastId, sessions, query, uid, before>>
    BY <1>12 DEF CopyPassword
  <2>4. \E to \in {"writing", "failing", "crashed"} : pc' = [pc EXCEPT ![r] = to]
    <3>1. \E to \in {"writing", "failing", "crashed"} : Go(r, to)
      BY <1>12, Zenon DEF CopyPassword
    <3>2. QED
      BY <3>1 DEF Go
  <2>5. \A q \in Req \ {r} : text'[q] = text[q]
    <3>1. text' = text \/ \E new : text' = [text EXCEPT ![r] = new]
      BY <1>12, Zenon DEF CopyPassword
    <3>2. QED
      BY <1>1, <3>1
  <2>6. QED
    BY <1>1, <2>2, <2>3, <2>4, <2>5 DEF Moves, Flow
<1>13. CASE AllowDelete(r)
  BY <1>1, <1>2, <1>13 DEF AllowDelete, Arrive, Go, local, Moves, Flow
<1>14. CASE AllowAppoint(r)
  BY <1>1, <1>2, <1>14 DEF AllowAppoint, Arrive, Go, Moves, Flow
<1>15. CASE OpenCopy(r)
  <2>1. OpensCopy(r)
    BY <1>15 DEF OpenCopy
  <2>2. /\ copy' \in File /\ fd' \in [Req -> File]
        /\ \A q \in Req \ {r} : fd'[q] = fd[q]
    BY <1>1, <2>1, OpensCopyIs
  <2>3. QED
    BY <1>1, <1>2, <1>15, <2>2 DEF OpenCopy, Go, Moves, Flow
<1>16. CASE Filter(r)
  <2>1. \E new : text' = [text EXCEPT ![r] = new]
    BY <1>16 DEF Filter
  <2>2. \A q \in Req \ {r} : text'[q] = text[q]
    BY <1>1, <2>1
  <2>3. QED
    BY <1>1, <1>2, <1>16, <2>2 DEF Filter, Go, Moves, Flow
<1>17. CASE WriteCopy(r)
  BY <1>1, <1>2, <1>17 DEF WriteCopy, Go, local, Moves, Flow
<1>18. CASE MoveCopy(r)
  <2>1. users' \in File /\ copy' \in File \cup {None}
    BY <1>1, <1>18 DEF MoveCopy
  <2>2. QED
    BY <1>1, <1>2, <1>18, <2>1 DEF MoveCopy, Go, local, Moves, Flow
<1>19. QED
  BY <1>3, <1>4, <1>5, <1>6, <1>7, <1>8, <1>9, <1>10, <1>11, <1>12, <1>13, <1>14, <1>15,
     <1>16, <1>17, <1>18 DEF Step

LEMMA KindsKept ==
    ASSUME TypeOK, Kinds, Past, NEW r \in Req, Moves(r)
    PROVE  Kinds' /\ Past'
<1>1. /\ query' = query /\ pc = [q \in Req |-> pc[q]]
      /\ pc' = [pc EXCEPT ![r] = pc'[r]]
      /\ Flow(query[r].op, pc[r], pc'[r])
      /\ pc[r] = "idle" => before' = [before EXCEPT ![r] = {q \in Req : pc[q] \in Ended}]
      /\ pc[r] # "idle" => before' = before
      /\ before \in [Req -> SUBSET Req]
  BY DEF Moves, TypeOK
<1>2. pc[r] \notin Ended /\ pc'[r] # "idle" /\ \A q \in Req \ {r} : pc'[q] = pc[q]
  BY <1>1 DEF Flow, Ended
<1>3. Kinds'
  BY <1>1, <1>2 DEF Kinds, Flow, Registers
<1>4. ASSUME NEW q \in Req
      PROVE  /\ \A p \in before'[q] : pc'[p] \in Ended
             /\ pc'[q] = "idle" => before'[q] = {}
  <2>1. \A p \in before[q] : pc'[p] \in Ended
    BY <1>1, <1>2 DEF Past
  <2>2. CASE q = r /\ pc[r] = "idle"
    BY <1>1, <1>2, <2>2
  <2>3. CASE ~(q = r /\ pc[r] = "idle")
    <3>1. before'[q] = before[q]
      BY <1>1, <2>3
    <3>2. QED
      BY <1>2, <2>1, <3>1 DEF Past, Arrived
  <2>4. QED
    BY <2>2, <2>3
<1>5. Past'
  BY <1>4 DEF Past, Arrived
<1>6. QED
  BY <1>3, <1>5

---------------------------------------------------------------------------
\* Lines stay their owners'

\* A line stays its owner's, since requests that are done make no more steps.
LEMMA OwnStays ==
    ASSUME query' = query, \A q \in Req : pc[q] = "done" => pc'[q] = "done" /\ uid'[q] = uid[q]
    PROVE  OwnLine \subseteq OwnLine'
<1> SUFFICES ASSUME NEW l \in OwnLine PROVE l \in OwnLine'
  OBVIOUS
<1>1. \A u, p : Legitimate(u, p)' = Legitimate(u, p)
  BY DEF Legitimate, Given, ChangesOf, Registering, Registers
<1>2. l \in Line /\ IsOwn(l)
  BY DEF OwnLine
<1>3. CASE l.account = None \/ l.account.pwd = None
  BY <1>2, <1>3 DEF OwnLine, IsOwn
<1>4. CASE l.account # None /\ l.account.pwd # None
  <2> DEFINE a == l.account
             u == Last(l.name)
  <2>1. a.by \in File
    BY <1>2, <1>4 DEF Line, Account
  <2>2. /\ l.name # <<>> /\ Legitimate(u, a.pwd)
        /\ IF a.by = "users" THEN u = Su /\ a.uid = 0
           ELSE Registers(a.by) /\ pc[a.by] = "done" /\ query[a.by].name = u
                /\ a.uid = uid[a.by]
    BY <1>2, <1>4 DEF IsOwn
  <2>3. Legitimate(u, a.pwd)'
    BY <1>1, <2>2
  <2>4. IF a.by = "users" THEN u = Su /\ a.uid = 0
        ELSE Registers(a.by)' /\ pc'[a.by] = "done" /\ query'[a.by].name = u
             /\ a.uid = uid'[a.by]
    BY <2>1, <2>2 DEF File, Registers
  <2>5. IsOwn(l)'
    BY <2>2, <2>3, <2>4 DEF IsOwn
  <2>6. QED
    BY <1>2, <2>5 DEF OwnLine
<1>5. QED
  BY <1>3, <1>4

\* The text of a change of a password.
LEMMA PasswordText ==
    ASSUME TypeOK, LinesOwn, NEW r \in Req, CopyPassword(r)
    PROVE  text' \in [Req -> Seq(OwnLine)]
<1> DEFINE q == query[r]
           old == content[fd[r]]
           mine == {k \in DOMAIN old : Named(old[k], q.user)}
           wrong == {k \in mine : old[k].account = None \/ old[k].account.pwd # q.old}
           first == CHOOSE k \in wrong : \A i \in wrong : k <= i
<1>1. /\ old \in Seq(OwnLine) /\ text \in [Req -> Seq(OwnLine)]
      /\ query[r] \in PwdChange /\ query[r].op = "password"
  BY QueryIs DEF LinesOwn, TypeOK, CopyPassword
<1>2. \A l \in OwnLine : l \in Line
  BY DEF OwnLine
<1>3. ASSUME NEW s \in Seq(OwnLine),
             \A k \in DOMAIN s : Named(s[k], q.user) =>
                 s[k].account # None /\ s[k].account.pwd = q.old
      PROVE  Replaced(s, q.user, q.new, FALSE) \in Seq(OwnLine)
  <2>1. s \in Seq(Line)
    BY <1>2
  <2>2. \A k \in DOMAIN s : s[k] \in OwnLine
    OBVIOUS
  <2>3. \A k \in DOMAIN s : Piece(s[k], q.user, q.new, FALSE) \in Seq(OwnLine)
    BY <1>1, <1>3, <2>2, PieceChanged
  <2>4. QED
    BY <2>1, <2>3, OwnClosed, ReplacedIn
<1>4. CASE wrong = {}
  <2>1. text' = [text EXCEPT ![r] = Replaced(old, q.user, q.new, FALSE)]
    BY <1>4, Zenon DEF CopyPassword
  <2>2. \A k \in DOMAIN old : Named(old[k], q.user) =>
            old[k].account # None /\ old[k].account.pwd = q.old
    BY <1>4
  <2>3. Replaced(old, q.user, q.new, FALSE) \in Seq(OwnLine)
    BY <1>1, <1>3, <2>2
  <2>4. QED
    BY <1>1, <2>1, <2>3
<1>5. CASE wrong # {}
  <2> DEFINE s == SubSeq(old, 1, first - 1)
  <2>1. wrong \in SUBSET Nat
    <3>1. DOMAIN old \subseteq Nat
      BY <1>1
    <3>2. QED
      BY <3>1
  <2>2. first \in wrong /\ \A i \in wrong : first <= i
    <3> HIDE DEF wrong
    <3>1. \E k \in wrong : \A i \in wrong : k <= i
      BY <1>5, <2>1, LeastOf
    <3>2. QED
      BY <3>1, Zenon
  <2>3. first \in 1 .. Len(old) /\ Len(old) \in Nat
    <3>1. first \in DOMAIN old
      BY <2>2
    <3> HIDE DEF first, old
    <3>2. QED
      BY <1>1, <3>1
  <2>4. text' \in {text, [text EXCEPT ![r] = Replaced(s, q.user, q.new, FALSE)]}
    BY <1>5, Zenon DEF CopyPassword
  <2>5. s \in Seq(OwnLine) /\ Len(s) = first - 1 /\ \A k \in 1 .. first - 1 : s[k] = old[k]
    <3> HIDE DEF first, old
    <3>1. QED
      BY <1>1, <2>3
  <2>6. ASSUME NEW k \in DOMAIN s, Named(s[k], q.user)
        PROVE  s[k].account # None /\ s[k].account.pwd = q.old
    <3>1. k \in 1 .. first - 1
      <4> HIDE DEF s, first
      <4>1. QED
        BY <2>5, <2>6
    <3>2. k \in DOMAIN old /\ k < first /\ k \in Nat /\ s[k] = old[k]
      <4> HIDE DEF s, first, old
      <4>1. QED
        BY <1>1, <2>3, <2>5, <3>1
    <3>3. k \notin wrong
      <4>1. first \in Nat
        BY <2>1, <2>2
      <4> HIDE DEF first, wrong
      <4>2. QED
        BY <2>2, <3>2, <4>1
    <3>4. QED
      BY <2>6, <3>2, <3>3
  <2> HIDE DEF s
  <2>7. Replaced(s, q.user, q.new, FALSE) \in Seq(OwnLine)
    BY <1>3, <2>5, <2>6
  <2>8. QED
    BY <1>1, <2>4, <2>7
<1>6. QED
  BY <1>4, <1>5

\* All lines, as long as nobody registers.
LEMMA LinesStay ==
    ASSUME TypeOK, Kinds, LinesOwn, NEW r \in Req, Step(r), ~AppendUser(r)
    PROVE  content' \in [File -> Seq(OwnLine)] /\ text' \in [Req -> Seq(OwnLine)]
<1>1. /\ content \in [File -> Seq(OwnLine)] /\ text \in [Req -> Seq(OwnLine)]
      /\ users \in File /\ fd \in [Req -> File] /\ <<>> \in Seq(OwnLine)
  BY DEF LinesOwn, TypeOK
<1>2. CASE \/ Refuse(r) \/ CheckName(r) \/ ReadNumber(r) \/ EmptyNumber(r) \/ WriteNumber(r)
           \/ OpenUsers(r) \/ OpenOld(r) \/ AllowDelete(r) \/ MoveCopy(r)
  <2>1. content' = content /\ text' = text
    BY <1>2 DEF Refuse, CheckName, ReadNumber, EmptyNumber, WriteNumber, OpenUsers, OpenOld,
                AllowDelete, MoveCopy, local
  <2>2. QED
    BY <1>1, <2>1
<1>3. ASSUME OpensCopy(r)
      PROVE  content' \in [File -> Seq(OwnLine)]
  BY <1>1, <1>3, OpensCopyIs
<1>4. CASE CopyProfile(r)
  <2> DEFINE q == query[r]
             old == content[fd[r]]
             new == Replaced(old, q.user, None, q.mail)
  <2>1. old \in Seq(OwnLine) /\ OwnLine \subseteq Line
    BY <1>1 DEF OwnLine
  <2>2. old \in Seq(Line) /\ \A k \in DOMAIN old : old[k] \in OwnLine
    BY <2>1
  <2>3. \A k \in DOMAIN old : Piece(old[k], q.user, None, q.mail) \in Seq(OwnLine)
    BY <2>2, PieceAsWas
  <2> HIDE DEF old
  <2>4. new \in Seq(OwnLine)
    BY <2>2, <2>3, OwnClosed, ReplacedIn
  <2>5. text' = [text EXCEPT ![r] = new] /\ OpensCopy(r)
    BY <1>4 DEF CopyProfile, old
  <2> HIDE DEF new
  <2>6. QED
    BY <1>1, <1>3, <2>4, <2>5
<1>5. CASE CopyPassword(r)
  BY <1>3, <1>5, PasswordText DEF CopyPassword
<1>6. CASE AllowAppoint(r)
  <2> DEFINE lines == content[users]
             i == query[r].target
             target == NameOf(lines, i)
             K == {k \in DOMAIN lines : lines[k].account # None /\ lines[k].account.uid = i}
  <2>1. lines \in Seq(OwnLine)
    BY <1>1
  <2>2. K # {} /\ text' = [text EXCEPT ![r] = <<NewLine(target, None)>>] /\ content' = content
    BY <1>6 DEF AllowAppoint
  <2>3. DOMAIN lines = 1 .. Len(lines) /\ Len(lines) \in Nat
    <3> HIDE DEF lines
    <3>1. QED
      BY <2>1
  <2>4. PICK first \in K : \A k \in K : first <= k
    <3>1. K \in SUBSET Nat
      BY <2>3
    <3> HIDE DEF K
    <3>2. QED
      BY <2>2, <3>1, LeastOf
  <2> DEFINE First(k) == /\ lines[k].account # None /\ lines[k].account.uid = i
                         /\ \A h \in 1 .. k - 1 :
                               lines[h].account = None \/ lines[h].account.uid # i
  <2>5. \E k \in DOMAIN lines : First(k)
    <3>1. ASSUME NEW h \in 1 .. first - 1
          PROVE  lines[h].account = None \/ lines[h].account.uid # i
      <4>1. first \in 1 .. Len(lines)
        BY <2>3, <2>4
      <4>2. h \in DOMAIN lines /\ ~(first <= h)
        BY <2>3, <3>1, <4>1
      <4>3. QED
        BY <2>4, <4>2
    <3>2. First(first)
      BY <2>4, <3>1
    <3>3. QED
      BY <2>4, <3>2
  <2>6. target = lines[CHOOSE k \in DOMAIN lines : First(k)].name
    BY DEF NameOf
  <2>7. \E k \in DOMAIN lines : target = lines[k].name
    <3> HIDE DEF First, lines
    <3>1. (CHOOSE k \in DOMAIN lines : First(k)) \in DOMAIN lines
      BY <2>5, Zenon
    <3>2. QED
      BY <2>6, <3>1
  <2>8. target \in Seq(Name \cup {Torn})
    <3>1. \A k \in DOMAIN lines : lines[k] \in Line
      BY <2>1 DEF OwnLine
    <3> HIDE DEF target
    <3>2. QED
      BY <2>7, <3>1 DEF Line
  <2> HIDE DEF target
  <2>9. NewLine(target, None) \in Line /\ NewLine(target, None).account = None
    BY <2>8 DEF NewLine, Line
  <2>10. <<NewLine(target, None)>> \in Seq(OwnLine)
    BY <2>9, NobodysIn, FewIn
  <2>11. QED
    BY <1>1, <2>2, <2>10
<1>7. CASE OpenCopy(r)
  BY <1>1, <1>3, <1>7 DEF OpenCopy
<1>8. CASE Filter(r)
  <2> DEFINE lines == content[users]
             q == query[r]
  <2>1. lines \in Seq(OwnLine)
    BY <1>1
  <2>2. \E new \in Seq(OwnLine) : text' = [text EXCEPT ![r] = new]
    <3>1. CASE q.op = "delete"
      <4>1. Without(lines, q.target) \in Seq(OwnLine)
        BY <2>1, WithoutIn
      <4>2. text' = [text EXCEPT ![r] = Without(lines, q.target)]
        BY <1>8, <3>1 DEF Filter
      <4>3. QED
        BY <4>1, <4>2
    <3>2. CASE q.op = "add"
      <4>1. WithRole(lines, text[r][1].name, 1) \in Seq(OwnLine)
        BY <2>1, WithRoleIn
      <4>2. text' = [text EXCEPT ![r] = WithRole(lines, text[r][1].name, 1)]
        BY <1>1, <1>8, <3>2 DEF Filter
      <4>3. QED
        BY <4>1, <4>2
    <3>3. CASE q.op = "remove"
      <4>1. WithRole(lines, text[r][1].name, 0) \in Seq(OwnLine)
        BY <2>1, WithRoleIn
      <4>2. text' = [text EXCEPT ![r] = WithRole(lines, text[r][1].name, 0)]
        BY <1>1, <1>8, <3>3 DEF Filter
      <4>3. QED
        BY <4>1, <4>2
    <3>4. q.op \in {"delete", "add", "remove"}
      BY <1>8 DEF Filter, Kinds
    <3>5. QED
      BY <3>1, <3>2, <3>3, <3>4
  <2>3. content' = content
    BY <1>8 DEF Filter
  <2>4. QED
    BY <1>1, <2>2, <2>3
<1>9. CASE WriteCopy(r)
  <2>1. PICK lines \in Overwritten(fd[r], text[r]) : content' = [content EXCEPT ![fd[r]] = lines]
    BY <1>9 DEF WriteCopy
  <2>2. fd[r] \in File /\ content[fd[r]] \in Seq(OwnLine) /\ text[r] \in Seq(OwnLine)
    BY <1>1
  <2>3. lines \in Seq(OwnLine)
    BY <2>1, <2>2, OwnTears, OverwrittenIn
  <2>4. text' = text
    BY <1>9 DEF WriteCopy, local
  <2>5. QED
    BY <1>1, <2>1, <2>3, <2>4
<1>10. QED
  BY <1>2, <1>4, <1>5, <1>6, <1>7, <1>8, <1>9 DEF Step

\* The line of a registration is its own.
LEMMA RegisteredIn ==
    ASSUME TypeOK, Kinds, NEW r \in Req, AppendUser(r)
    PROVE  NewLine(<<query[r].name>>, [pwd |-> query[r].pwd, role |-> 0, uid |-> uid[r], by |-> r])
               \in OwnLine'
<1> DEFINE q == query[r]
           a == [pwd |-> q.pwd, role |-> 0, uid |-> uid[r], by |-> r]
           l == NewLine(<<q.name>>, a)
<1>1. /\ Registers(r) /\ q.name \in Name /\ q.pwd \in Password /\ r \in File
      /\ uid[r] \in Nat /\ r # "users"
  <2>1. Registers(r)
    BY DEF AppendUser, Kinds
  <2>2. q \in Registration
    BY <2>1, QueryIs DEF Registers
  <2>3. QED
    BY <2>1, <2>2, AccountsAssumption DEF Registration, TypeOK, File
<1>2. query' = query /\ uid' = uid /\ pc'[r] = "done"
  BY DEF AppendUser, Go, local, TypeOK
<1>3. a \in Account /\ a.pwd = q.pwd /\ a.by = r /\ a.uid = uid[r]
  BY <1>1 DEF Account
<1>4. <<q.name>> \in Seq(Name \cup {Torn}) /\ <<q.name>> # <<>> /\ Last(<<q.name>>) = q.name
  BY <1>1 DEF Last
<1> HIDE DEF a
<1>5. l \in Line /\ l.name = <<q.name>> /\ l.account = a
  BY <1>3, <1>4 DEF NewLine, Line
<1> HIDE DEF l
<1>6. Legitimate(q.name, q.pwd)
  BY <1>1 DEF Legitimate, Given, Registering
<1>7. /\ Registers(r)' /\ query'[r].name = q.name /\ a.uid = uid'[r]
  BY <1>1, <1>2, <1>3 DEF Registers
<1>8. ASSUME NEW line, line = l
      PROVE  IsOwn(line)'
  <2> DEFINE b == line.account
  <2>1. /\ line.name # <<>> /\ Last(line.name) = q.name
        /\ b.pwd = q.pwd /\ b.by = r /\ b.uid = uid[r]
    BY <1>3, <1>4, <1>5, <1>8
  <2>2. /\ Registers(r)' /\ pc'[r] = "done" /\ query'[r].name = Last(line.name)
        /\ b.uid = uid'[r] /\ r # "users"
    BY <1>1, <1>2, <1>7, <2>1
  <2>3. Legitimate(Last(line.name), b.pwd)
    BY <1>6, <2>1
  <2>4. Legitimate(Last(line.name), b.pwd)'
    BY <1>2, <2>3 DEF Legitimate, Given, ChangesOf, Registering, Registers
  <2>5. QED
    BY <2>1, <2>2, <2>4 DEF IsOwn
<1>9. l \in OwnLine'
  BY <1>5, <1>8 DEF OwnLine
<1>10. QED
  BY <1>9 DEF l, a

LEMMA SeqGrows ==
    ASSUME NEW S, NEW T, S \subseteq T
    PROVE  Seq(S) \subseteq Seq(T)
OBVIOUS

LEMMA OwnKept ==
    ASSUME TypeOK, Kinds, LinesOwn, NEW r \in Req, Step(r)
    PROVE  LinesOwn'
<1>1. Moves(r)
  BY Moving
<1>2. OwnLine \subseteq OwnLine'
  <2>1. query' = query
    BY <1>1 DEF Moves
  <2>2. ASSUME NEW q \in Req, pc[q] = "done"
        PROVE  pc'[q] = "done" /\ uid'[q] = uid[q]
    <3>1. q # r
      BY <1>1, <2>2 DEF Moves, Flow
    <3>2. QED
      BY <1>1, <2>2, <3>1 DEF Moves, TypeOK
  <2>3. QED
    BY <2>1, <2>2, OwnStays
<1>3. Seq(OwnLine) \subseteq Seq(OwnLine')
  BY <1>2, SeqGrows
<1>4. CASE ~AppendUser(r)
  BY <1>3, <1>4, LinesStay DEF LinesOwn
<1>5. CASE AppendUser(r)
  <2> DEFINE new == NewLine(<<query[r].name>>, [pwd |-> query[r].pwd, role |-> 0,
                                                uid |-> uid[r], by |-> r])
  <2>1. new \in OwnLine'
    BY <1>5, RegisteredIn
  <2>2. fd[r] \in File /\ content[fd[r]] \in Seq(OwnLine')
    BY <1>3 DEF LinesOwn, TypeOK
  <2>3. Closed(OwnLine')
    <3>1. Closed(OwnLine)'
      BY OwnClosed, PTL
    <3>2. QED
      BY <3>1 DEF Closed
  <2>4. content' = [content EXCEPT ![fd[r]] = Glue(content[fd[r]], new)] /\ text' = text
    BY <1>5 DEF AppendUser, local, LinesOwn
  <2> HIDE DEF new
  <2>5. Glue(content[fd[r]], new) \in Seq(OwnLine')
    BY <2>1, <2>2, <2>3, GlueIn
  <2>6. QED
    BY <1>3, <2>2, <2>4, <2>5 DEF LinesOwn
<1>6. QED
  BY <1>4, <1>5

LEMMA TypesAtInit == Init => TypeOK /\ Kinds /\ Past /\ LinesOwn
<1> SUFFICES ASSUME Init PROVE TypeOK /\ Kinds /\ Past /\ LinesOwn
  OBVIOUS
<1> DEFINE a == [pwd |-> SuPassword, role |-> 2, uid |-> 0, by |-> "users"]
           l == NewLine(<<Su>>, a)
<1>1. /\ Su \in Name /\ SuPassword \in Password /\ None \notin Req
      /\ query \in [Req -> Query] /\ "users" \in File
  BY AccountsAssumption DEF Init, File
<1>2. a \in Account /\ a.pwd = SuPassword /\ a.by = "users" /\ a.uid = 0
  BY <1>1 DEF Account
<1>3. <<Su>> \in Seq(Name \cup {Torn}) /\ <<Su>> # <<>> /\ Last(<<Su>>) = Su
  BY <1>1 DEF Last
<1> HIDE DEF a
<1>4. l \in Line /\ l.name = <<Su>> /\ l.account = a
  BY <1>2, <1>3 DEF NewLine, Line
<1> HIDE DEF l
<1>5. Legitimate(Su, SuPassword)
  BY DEF Legitimate, Given
<1>6. l \in OwnLine
  BY <1>2, <1>3, <1>4, <1>5 DEF OwnLine, IsOwn
<1>7. <<l>> \in Seq(OwnLine) /\ <<>> \in Seq(OwnLine)
  BY <1>6
<1>8. content = [f \in File |-> IF f = "users" THEN <<l>> ELSE <<>>]
  BY DEF Init, l, a
<1>9. LinesOwn
  BY <1>7, <1>8 DEF LinesOwn, Init
<1>10. OwnLine \subseteq Line
  BY DEF OwnLine
<1>11. content \in [File -> Seq(Line)] /\ text \in [Req -> Seq(Line)]
  BY <1>9, <1>10, SeqGrows DEF LinesOwn
<1>12. TypeOK
  BY <1>1, <1>11 DEF TypeOK, Init
<1>13. Kinds /\ Past
  BY DEF Kinds, Past, Init, Arrived
<1>14. QED
  BY <1>9, <1>12, <1>13

LEMMA LogsKeep ==
    ASSUME NEW u \in Name, Login(u) \/ Logout(u)
    PROVE  /\ UNCHANGED <<content, users, copy, lastId, query, pc, local, before>>
           /\ sessions' \in {sessions \cup {u}, sessions \ {u}}
BY DEF Login, Logout

LEMMA TypesKept ==
    ASSUME TypeOK, Kinds, Past, LinesOwn, [Next]_vars
    PROVE  TypeOK' /\ Kinds' /\ Past' /\ LinesOwn'
<1>0. OwnLine \subseteq Line
  BY DEF OwnLine
<1>1. ASSUME UNCHANGED <<content, users, copy, lastId, query, pc, local, before>>,
             sessions' \subseteq Name
      PROVE  TypeOK' /\ Kinds' /\ Past' /\ LinesOwn'
  <2>1. OwnLine \subseteq OwnLine'
    BY <1>1, OwnStays DEF local
  <2>2. Seq(OwnLine) \subseteq Seq(OwnLine')
    BY <2>1, SeqGrows
  <2>3. LinesOwn'
    BY <1>1, <2>2 DEF LinesOwn, local
  <2>4. QED
    BY <1>1, <2>3 DEF TypeOK, Kinds, Past, Registers, Arrived, local
<1>2. CASE UNCHANGED vars
  BY <1>1, <1>2 DEF vars, TypeOK
<1>3. ASSUME NEW u \in Name, Login(u) \/ Logout(u)
      PROVE  TypeOK' /\ Kinds' /\ Past' /\ LinesOwn'
  <2>1. sessions' \subseteq Name
    BY <1>3, LogsKeep DEF TypeOK
  <2>2. QED
    BY <1>1, <1>3, <2>1, LogsKeep
<1>4. ASSUME NEW r \in Req, Step(r)
      PROVE  TypeOK' /\ Kinds' /\ Past' /\ LinesOwn'
  <2>1. Moves(r) /\ LinesOwn'
    BY <1>4, Moving, OwnKept
  <2>2. Kinds' /\ Past'
    BY <2>1, KindsKept
  <2>3. OwnLine' \subseteq Line
    BY DEF OwnLine
  <2>4. content' \in [File -> Seq(Line)] /\ text' \in [Req -> Seq(Line)]
    BY <2>1, <2>3, SeqGrows DEF LinesOwn
  <2>5. pc' \in [Req -> Places]
    <3>1. pc'[r] \in Places
      BY <2>1 DEF Moves, Flow, Places, Ended
    <3>2. QED
      BY <2>1, <3>1 DEF Moves, TypeOK, Places
  <2>6. before' \in [Req -> SUBSET Req]
    <3>1. before \in [Req -> SUBSET Req]
      BY DEF TypeOK
    <3>2. CASE pc[r] = "idle"
      <4> DEFINE ended == {q \in Req : pc[q] \in Ended}
      <4>1. ended \in SUBSET Req
        OBVIOUS
      <4>2. before' = [before EXCEPT ![r] = ended]
        BY <2>1, <3>2 DEF Moves
      <4> HIDE DEF ended
      <4>3. QED
        BY <3>1, <4>1, <4>2
    <3>3. CASE pc[r] # "idle"
      BY <2>1, <3>1, <3>3 DEF Moves
    <3>4. QED
      BY <3>2, <3>3
  <2>7. TypeOK'
    BY <2>1, <2>4, <2>5, <2>6 DEF TypeOK, Moves, Places
  <2>8. QED
    BY <2>1, <2>2, <2>7
<1>5. QED
  BY <1>2, <1>3, <1>4 DEF Next, Step

---------------------------------------------------------------------------
\* Requests that do not overlap

\* Whoever is apart from others that have arrived came when they had ended.
LEMMA Alone ==
    ASSUME Past, NEW r \in Req, NEW S \in SUBSET Req, ApartFrom(r, S), pc[r] \notin Ended,
           NEW q \in S, q # r, Arrived(q)
    PROVE  q \in before[r] /\ pc[q] \in Ended
<1>1. q \in before[r] \/ r \in before[q]
  BY DEF ApartFrom, Apart
<1>2. QED
  BY <1>1 DEF Past

\* Who has overlapped stays so.
LEMMA StaysApart ==
    ASSUME TypeOK, Past, NEW r \in Req, Moves(r)
    PROVE  /\ Registering' = Registering /\ Rewriting' = Rewriting
           /\ \A q \in Req : Arrived(q) => Arrived(q)' /\ before'[q] = before[q]
           /\ \A q \in Req : Arrived(q) /\ ApartFrom(q, Registering)' => ApartFrom(q, Registering)
           /\ \A q \in Req : Arrived(q) /\ ApartFrom(q, Rewriting)' => ApartFrom(q, Rewriting)
           /\ AllApart(Registering)' => AllApart(Registering)
           /\ AllApart(Rewriting)' => AllApart(Rewriting)
           /\ Scripted' => Scripted
<1>1. query' = query
  BY DEF Moves
<1>2. Registering' = Registering /\ Rewriting' = Rewriting
  BY <1>1 DEF Registering, Rewriting, Registers
<1>3. Registering \subseteq Req /\ Rewriting \subseteq Req
  BY DEF Registering, Rewriting
<1>4. ASSUME NEW q \in Req, Arrived(q)
      PROVE  Arrived(q)' /\ before'[q] = before[q]
  <2>1. CASE q = r
    BY <1>4, <2>1 DEF Moves, Flow, Arrived
  <2>2. CASE q # r
    BY <1>4, <2>2 DEF Moves, Arrived, TypeOK
  <2>3. QED
    BY <2>1, <2>2
<1>5. \A p, q \in Req : Arrived(p) /\ Arrived(q) /\ Apart(p, q)' => Apart(p, q)
  BY <1>4 DEF Apart
<1>6. \A q \in Req : Arrived(q) /\ ApartFrom(q, Registering)' => ApartFrom(q, Registering)
  BY <1>2, <1>3, <1>4, <1>5 DEF ApartFrom
<1>7. \A q \in Req : Arrived(q) /\ ApartFrom(q, Rewriting)' => ApartFrom(q, Rewriting)
  BY <1>2, <1>3, <1>4, <1>5 DEF ApartFrom
<1>8. AllApart(Registering)' => AllApart(Registering)
  BY <1>2, <1>3, <1>4, <1>6 DEF AllApart
<1>9. AllApart(Rewriting)' => AllApart(Rewriting)
  BY <1>2, <1>3, <1>4, <1>7 DEF AllApart
<1>10. Scripted' => Scripted
  BY <1>1, <1>4 DEF Scripted
<1>11. QED
  BY <1>2, <1>4, <1>6, <1>7, <1>8, <1>9, <1>10

---------------------------------------------------------------------------
\* Numbers

\* What a step does to last_id and to the number of its request.
LEMMA Numbering ==
    ASSUME TypeOK, Kinds, NEW r \in Req, Step(r)
    PROVE  /\ pc[r] \notin {"numbered", "emptied"} => lastId' = lastId
           /\ pc[r] = "emptied" => lastId' = uid[r]
           /\ pc[r] = "free" => uid'[r] = (IF lastId = None THEN 10001 ELSE lastId) + 1
<1>1. CASE ReadNumber(r) \/ EmptyNumber(r) \/ WriteNumber(r)
  BY <1>1 DEF ReadNumber, EmptyNumber, WriteNumber, TypeOK
<1>2. CASE Refuse(r) \/ CheckName(r) \/ OpenOld(r) \/ AllowDelete(r) \/ AllowAppoint(r)
  BY <1>2 DEF Refuse, CheckName, OpenOld, AllowDelete, AllowAppoint, Arrive
<1>3. CASE OpenUsers(r) \/ AppendUser(r) \/ CopyProfile(r) \/ CopyPassword(r)
  BY <1>3 DEF OpenUsers, AppendUser, CopyProfile, CopyPassword
<1>4. CASE OpenCopy(r) \/ Filter(r) \/ WriteCopy(r) \/ MoveCopy(r)
  BY <1>4 DEF OpenCopy, Filter, WriteCopy, MoveCopy
<1>5. QED
  BY <1>1, <1>2, <1>3, <1>4 DEF Step

LEMMA NumbersKept ==
    ASSUME TypeOK, Kinds, Past, NumbersGrow, NEW r \in Req, Step(r)
    PROVE  NumbersGrow'
<1> SUFFICES ASSUME AllApart(Registering)', NEW q \in Registering
             PROVE  /\ pc'[q] \in {"numbered", "emptied", "counted", "appending", "done"} =>
                           \A p \in Registering \cap before'[q] :
                               pc'[p] = "done" => uid'[p] < uid'[q]
                    /\ pc'[q] \in {"counted", "appending", "done"} =>
                           \/ lastId' # None /\ uid'[q] <= lastId'
                           \/ \E p \in Registering : pc'[p] = "emptied"
  BY Moving, StaysApart DEF NumbersGrow
<1>1. Moves(r) /\ AllApart(Registering) /\ Registering \subseteq Req /\ None \notin Nat
  BY Moving, StaysApart, AccountsAssumption DEF Registering
<1>2. \A p \in Req \ {r} : pc'[p] = pc[p] /\ uid'[p] = uid[p] /\ before'[p] = before[p]
  BY <1>1 DEF Moves, TypeOK
<1>3. pc[r] \notin Ended /\ Flow(query[r].op, pc[r], pc'[r])
  BY <1>1 DEF Moves, Flow, Ended
<1>4. \A p \in Req : uid[p] \in Nat /\ lastId \in Nat \cup {None}
  BY DEF TypeOK
<1>5. r \in Registering /\ Arrived(r) =>
          \A p \in Registering \ {r} : Arrived(p) => p \in before[r] /\ pc[p] \in Ended
  BY <1>1, <1>3, Alone DEF AllApart
<1>6. ASSUME pc'[q] \in {"numbered", "emptied", "counted", "appending", "done"},
             NEW p \in Registering \cap before'[q], pc'[p] = "done"
      PROVE  uid'[p] < uid'[q]
  <2>1. q = r => Arrived(r) /\ before'[q] = before[q]
    BY <1>1, <1>3, <1>6 DEF Flow, Arrived, Moves
  <2>2. p \in before[q] /\ p # r /\ pc[p] = "done"
    BY <1>1, <1>2, <1>3, <1>6, <2>1 DEF Past
  <2>3. CASE q = r /\ pc[r] = "free"
    <3>1. \A e \in Registering : pc[e] # "emptied"
      BY <1>5, <2>1, <2>3 DEF Ended, Arrived
    <3>2. lastId # None /\ uid[p] <= lastId
      BY <1>1, <2>2, <3>1 DEF NumbersGrow
    <3>3. uid'[r] = lastId + 1
      BY <2>3, <3>2, Numbering
    <3>4. QED
      BY <1>1, <1>2, <1>4, <2>2, <2>3, <3>2, <3>3
  <2>4. CASE q = r /\ pc[r] # "free"
    <3>1. pc[q] \in {"numbered", "emptied", "counted", "appending", "done"}
      BY <1>3, <1>6, <2>4 DEF Flow, Registering, Registers
    <3>2. uid' = uid
      BY <1>1, <2>4 DEF Moves
    <3>3. QED
      BY <1>1, <2>2, <3>1, <3>2 DEF NumbersGrow
  <2>5. CASE q # r
    BY <1>1, <1>2, <1>6, <2>2, <2>5 DEF NumbersGrow
  <2>6. QED
    BY <2>3, <2>4, <2>5
<1>7. ASSUME pc'[q] \in {"counted", "appending", "done"}
      PROVE  \/ lastId' # None /\ uid'[q] <= lastId'
             \/ \E p \in Registering : pc'[p] = "emptied"
  <2>1. CASE pc[r] = "numbered"
    BY <1>3, <2>1 DEF Flow, Kinds, Registering
  <2>2. CASE pc[r] = "emptied"
    <3>1. r \in Registering /\ Arrived(r)
      BY <2>2 DEF Kinds, Registering, Arrived
    <3>2. lastId' = uid[r] /\ uid' = uid
      BY <1>1, <2>2, Numbering DEF Moves
    <3>3. CASE q = r
      BY <1>1, <1>4, <3>2, <3>3
    <3>4. CASE q # r
      <4>1. pc[q] = "done" /\ q \in before[r]
        BY <1>1, <1>2, <1>5, <1>7, <3>1, <3>4 DEF Ended, Arrived
      <4>2. uid[q] < uid[r]
        BY <1>1, <2>2, <3>1, <4>1 DEF NumbersGrow
      <4>3. QED
        BY <1>1, <1>4, <3>2, <4>2
    <3>5. QED
      BY <3>3, <3>4
  <2>3. CASE pc[r] \notin {"numbered", "emptied"}
    <3>1. lastId' = lastId
      BY <2>3, Numbering
    <3>2. pc[q] \in {"counted", "appending", "done"} /\ uid'[q] = uid[q]
      <4>1. CASE q = r
        BY <1>1, <1>3, <1>7, <2>3, <4>1 DEF Flow, Moves, Registering, Registers
      <4>2. CASE q # r
        BY <1>1, <1>2, <1>7, <4>2
      <4>3. QED
        BY <4>1, <4>2
    <3>3. \A p \in Registering : pc[p] = "emptied" => pc'[p] = "emptied"
      BY <1>1, <1>2, <2>3
    <3>4. QED
      BY <1>1, <3>1, <3>2, <3>3 DEF NumbersGrow
  <2>4. QED
    BY <2>1, <2>2, <2>3
<1>8. QED
  BY <1>6, <1>7

LEMMA NumbersFollow == TypeOK /\ Past /\ NumbersGrow => NumbersAreNew
<1> SUFFICES ASSUME TypeOK, Past, NumbersGrow, AllApart(Registering),
                    NEW q \in Registering, NEW r \in Registering,
                    q # r, pc[q] = "done", pc[r] = "done"
             PROVE  uid[q] # uid[r]
  BY DEF NumbersAreNew
<1>1. q \in Req /\ r \in Req /\ uid[q] \in Nat /\ uid[r] \in Nat
  BY DEF Registering, TypeOK
<1>2. q \in before[r] \/ r \in before[q]
  BY <1>1 DEF AllApart, ApartFrom, Apart, Arrived
<1>3. uid[q] < uid[r] \/ uid[r] < uid[q]
  BY <1>2 DEF NumbersGrow
<1>4. QED
  BY <1>1, <1>3

---------------------------------------------------------------------------
\* Which file is which

\* What a step does to the names of files.
LEMMA Naming ==
    ASSUME TypeOK, Kinds, NEW r \in Req, Step(r)
    PROVE  \/ /\ UNCHANGED <<users, copy, fd>>
              /\ pc'[r] \notin {"idle", "opened", "appending"}
              /\ pc'[r] = "allowed" => pc[r] = "idle"
           \/ /\ UNCHANGED <<users, copy>>
              /\ fd' = [fd EXCEPT ![r] = users]
              /\ pc'[r] \in {"opened", "appending"}
              /\ pc'[r] = "opened" => pc[r] = "idle"
           \/ /\ OpensCopy(r)
              /\ users' = users
              /\ pc[r] \in {"opened", "allowed"}
              /\ pc'[r] \notin {"idle", "opened", "allowed", "appending"}
           \/ MoveCopy(r)
<1>1. pc \in [Req -> Places]
  BY DEF TypeOK, Places
<1>2. CASE Refuse(r) \/ CheckName(r) \/ ReadNumber(r) \/ EmptyNumber(r) \/ WriteNumber(r)
  BY <1>1, <1>2 DEF Refuse, CheckName, ReadNumber, EmptyNumber, WriteNumber, Arrive, Go, local
<1>3. CASE AppendUser(r) \/ AllowDelete(r) \/ AllowAppoint(r) \/ Filter(r) \/ WriteCopy(r)
  BY <1>1, <1>3 DEF AppendUser, AllowDelete, AllowAppoint, Filter, WriteCopy, Arrive, Go, local
<1>4. CASE OpenUsers(r) \/ OpenOld(r)
  BY <1>1, <1>4 DEF OpenUsers, OpenOld, Arrive, Go
<1>5. CASE CopyProfile(r) \/ OpenCopy(r)
  BY <1>1, <1>5 DEF CopyProfile, OpenCopy, Go
<1>6. CASE CopyPassword(r)
  <2>1. OpensCopy(r) /\ users' = users /\ pc[r] = "opened"
    BY <1>6 DEF CopyPassword
  <2>2. pc'[r] \in {"writing", "failing", "crashed"}
    BY <1>1, <1>6 DEF CopyPassword, Go
  <2>3. QED
    BY <2>1, <2>2
<1>7. CASE MoveCopy(r)
  BY <1>7
<1>8. QED
  BY <1>2, <1>3, <1>4, <1>5, <1>6, <1>7 DEF Step

LEMMA NewKept ==
    ASSUME TypeOK, Kinds, FilesNew, NEW r \in Req, Step(r)
    PROVE  FilesNew'
<1>1. Moves(r) /\ None \notin File /\ users \in File /\ copy \in File \cup {None} /\ r \in File
      /\ r # "users"
  BY Moving, AccountsAssumption DEF TypeOK, File
<1>2. \A q \in Req \ {r} : pc'[q] = pc[q] /\ fd'[q] = fd[q]
  BY <1>1 DEF Moves, TypeOK
<1>3. fd \in [Req -> File] /\ fd' \in [Req -> File]
  BY <1>1 DEF Moves, TypeOK
<1>4. CASE /\ UNCHANGED <<users, copy, fd>>
           /\ pc'[r] \notin {"idle", "opened", "appending"}
           /\ pc'[r] = "allowed" => pc[r] = "idle"
  BY <1>2, <1>4 DEF FilesNew
<1>5. CASE /\ UNCHANGED <<users, copy>>
           /\ fd' = [fd EXCEPT ![r] = users]
           /\ pc'[r] \in {"opened", "appending"}
           /\ pc'[r] = "opened" => pc[r] = "idle"
  <2>1. fd'[r] = users
    BY <1>3, <1>5
  <2>2. QED
    BY <1>2, <1>5, <2>1 DEF FilesNew
<1>6. CASE /\ OpensCopy(r)
           /\ users' = users
           /\ pc[r] \in {"opened", "allowed"}
           /\ pc'[r] \notin {"idle", "opened", "allowed", "appending"}
  <2>1. copy' = IF copy = None THEN r ELSE copy
    BY <1>6, OpensCopyIs
  <2>2. fd'[r] = copy'
    BY <1>3, <1>6, OpensCopyIs
  <2>3. copy' # users
    BY <1>6, <2>1 DEF FilesNew
  <2>4. ASSUME NEW q \in Req, q # r, pc[q] = "appending"
        PROVE  fd[q] # copy'
    BY <1>6, <2>1, <2>4 DEF FilesNew
  <2>5. ASSUME NEW q \in Req, q # r, pc[q] \in {"idle", "opened", "allowed"}
        PROVE  users # q /\ copy' # q /\ \A p \in Req : fd'[p] # q
    BY <1>2, <2>1, <2>2, <2>5 DEF FilesNew
  <2>6. QED
    BY <1>2, <1>6, <2>3, <2>4, <2>5 DEF FilesNew
<1>7. CASE MoveCopy(r)
  <2>1. /\ fd' = fd /\ pc'[r] = "done"
        /\ \/ users' = users /\ copy' = copy
           \/ users' = copy /\ copy' = None /\ copy # None
    BY <1>7 DEF MoveCopy, Go, local, TypeOK
  <2>2. copy' # users'
    BY <1>1, <2>1 DEF FilesNew
  <2>3. ASSUME NEW q \in Req
        PROVE  /\ pc'[q] = "appending" => fd'[q] # copy'
               /\ pc'[q] \in {"idle", "opened", "allowed"} =>
                      users' # q /\ copy' # q /\ \A p \in Req : fd'[p] # q
    <3>1. fd[q] \in File /\ q \in File
      BY <1>3 DEF File
    <3>2. QED
      BY <1>1, <1>2, <2>1, <3>1 DEF FilesNew
  <2>4. QED
    BY <2>2, <2>3 DEF FilesNew
<1>8. QED
  BY <1>4, <1>5, <1>6, <1>7, Naming

---------------------------------------------------------------------------
\* While no program of C replaces users.txt

Registered(r) == NewLine(<<query[r].name>>, [pwd |-> query[r].pwd, role |-> 0, uid |-> uid[r],
                                             by |-> r])

LEMMA RegisteredIs ==
    ASSUME TypeOK, Kinds, NEW r \in Req, AppendUser(r)
    PROVE  /\ Registered(r) \in Line /\ Registered(r).ended
           /\ Registered(r).name = <<query[r].name>> /\ query[r].name \in Name
           /\ Registered(r).account # None
           /\ Registered(r).account.by = r
           /\ Registered(r).account.uid = uid[r]
           /\ Registered(r).account.pwd = query[r].pwd
<1> DEFINE q == query[r]
           a == [pwd |-> q.pwd, role |-> 0, uid |-> uid[r], by |-> r]
<1>1. /\ q.name \in Name /\ q.pwd \in Password /\ r \in File /\ uid[r] \in Nat
  <2>1. q \in Registration
    BY QueryIs DEF AppendUser, Kinds, Registers
  <2>2. QED
    BY <2>1 DEF Registration, TypeOK, File
<1>2. /\ a \in Account /\ a.pwd = q.pwd /\ a.by = r /\ a.uid = uid[r]
  BY <1>1 DEF Account
<1>3. a # None
  BY <1>2, NoAccount
<1>4. <<q.name>> \in Seq(Name \cup {Torn})
  BY <1>1
<1>5. Registered(r) = NewLine(<<q.name>>, a)
  BY DEF Registered
<1> HIDE DEF a
<1>6. QED
  BY <1>1, <1>2, <1>3, <1>4, <1>5 DEF NewLine, Line

LEMMA AppendIs ==
    ASSUME NEW r \in Req, AppendUser(r)
    PROVE  content' = [content EXCEPT ![fd[r]] = Glue(content[fd[r]], Registered(r))]
BY DEF AppendUser, Registered

Elsewhere(r) ==
    /\ UNCHANGED <<content, users, copy, fd>>
    /\ pc[r] \in {"idle", "free", "numbered", "emptied"}
    /\ pc'[r] \in {"refused", "free", "numbered", "emptied", "counted", "allowed"}

\* The steps while no program of C replaces users.txt.
LEMMA Scripting ==
    ASSUME TypeOK, Kinds, NEW r \in Req, Step(r), Scripted'
    PROVE  \/ Elsewhere(r)
           \/ OpenUsers(r) \/ AppendUser(r)
           \/ OpenCopy(r) \/ Filter(r)
           \/ (WriteCopy(r) /\ pc[r] = "writing")
           \/ MoveCopy(r)
<1>1. pc \in [Req -> Places]
  BY DEF TypeOK, Places
<1>2. CASE Refuse(r) \/ CheckName(r) \/ ReadNumber(r) \/ EmptyNumber(r) \/ WriteNumber(r)
  BY <1>1, <1>2 DEF Refuse, CheckName, ReadNumber, EmptyNumber, WriteNumber, Arrive, Go, local,
                    Elsewhere
<1>3. CASE AllowDelete(r) \/ AllowAppoint(r)
  BY <1>1, <1>3 DEF AllowDelete, AllowAppoint, Arrive, Go, local, Elsewhere
<1>4. query' = query /\ (pc'[r] # "idle" => query[r].op \notin {"password", "profile"})
  BY Moving DEF Moves, Scripted, Arrived
<1>5. ~(OpenOld(r) \/ CopyProfile(r) \/ CopyPassword(r))
  <2>1. pc'[r] # "idle"
    BY Moving DEF Moves, Flow
  <2>2. QED
    BY <1>4, <2>1 DEF OpenOld, CopyProfile, CopyPassword
<1>6. CASE WriteCopy(r)
  <2>1. pc'[r] # "idle"
    BY Moving DEF Moves, Flow
  <2>2. pc[r] # "failing"
    BY <1>4, <2>1 DEF Kinds
  <2>3. QED
    BY <1>6, <2>2 DEF WriteCopy
<1>7. QED
  BY <1>2, <1>3, <1>5, <1>6 DEF Step

LEMMA CopyKept ==
    ASSUME TypeOK, Kinds, Past, FilesNew, CopyAtWork, NEW r \in Req, Step(r)
    PROVE  CopyAtWork'
<1> SUFFICES ASSUME Scripted', NEW w \in Rewriting, ApartFrom(w, Rewriting)',
                    pc'[w] \in {"filtering", "writing", "moving"}
             PROVE  /\ copy' = fd'[w]
                    /\ pc'[w] \in {"filtering", "writing"} => content'[fd'[w]] = <<>>
                    /\ pc'[w] = "moving" => content'[fd'[w]] = text'[w]
  BY Moving, StaysApart DEF CopyAtWork
<1>1. Moves(r) /\ w \in Req /\ Rewriting \subseteq Req
  BY Moving DEF Rewriting
<1>2. w # r => pc'[w] = pc[w] /\ fd'[w] = fd[w] /\ text'[w] = text[w]
  BY <1>1 DEF Moves, TypeOK
<1>3. pc[r] \notin Ended /\ Flow(query[r].op, pc[r], pc'[r])
  BY <1>1 DEF Moves, Flow, Ended
<1>4. Arrived(w)
  BY <1>2, <1>3 DEF Flow, Arrived
<1>5. Scripted /\ ApartFrom(w, Rewriting)
  BY <1>1, <1>4, StaysApart
<1>6. /\ pc[w] \in {"filtering", "writing", "moving"} => copy = fd[w]
      /\ pc[w] \in {"filtering", "writing"} => content[fd[w]] = <<>>
      /\ pc[w] = "moving" => content[fd[w]] = text[w]
  BY <1>5 DEF CopyAtWork
<1>7. CASE w = r
  <2>1. CASE OpenCopy(r)
    <3>1. OpensCopy(r) /\ pc'[r] = "filtering"
      BY <2>1 DEF OpenCopy, Go, TypeOK
    <3>2. /\ copy' \in File
          /\ content' = [content EXCEPT ![copy'] = <<>>]
          /\ fd' = [fd EXCEPT ![r] = copy']
      BY <3>1, OpensCopyIs
    <3>3. fd'[r] = copy' /\ content'[copy'] = <<>>
      BY <3>2 DEF TypeOK
    <3>4. QED
      BY <1>7, <3>1, <3>3
  <2>2. CASE Filter(r)
    BY <1>6, <1>7, <2>2 DEF Filter, Go, TypeOK
  <2>3. CASE WriteCopy(r) /\ pc[r] = "writing"
    <3>1. pc'[r] = "moving" /\ copy' = copy /\ fd' = fd /\ text' = text
      BY <2>3 DEF WriteCopy, Go, TypeOK, local
    <3>2. content[fd[r]] = <<>>
      BY <1>6, <1>7, <2>3
    <3>3. Overwritten(fd[r], text[r]) = {text[r]}
      <4>1. DOMAIN content[fd[r]] = {}
        BY <3>2
      <4>2. QED
        BY <4>1, Zenon DEF Overwritten
    <3>4. content' = [content EXCEPT ![fd[r]] = text[r]]
      BY <2>3, <3>3 DEF WriteCopy
    <3>5. fd[r] \in File
      BY DEF TypeOK
    <3>6. content'[fd[r]] = text[r]
      BY <3>4, <3>5 DEF TypeOK
    <3>7. QED
      BY <1>6, <1>7, <2>3, <3>1, <3>6
  <2>4. CASE Elsewhere(r) \/ MoveCopy(r)
    BY <1>7, <2>4 DEF Elsewhere, MoveCopy, Go, TypeOK
  <2>5. ~(OpenUsers(r) \/ AppendUser(r))
    BY <1>7 DEF OpenUsers, AppendUser, Kinds, Rewriting, Registering
  <2>6. QED
    BY <2>1, <2>2, <2>3, <2>4, <2>5, Scripting
<1>8. CASE w # r
  <2>1. pc[w] \in {"filtering", "writing", "moving"}
    BY <1>2, <1>8
  <2>2. r \in Rewriting => pc[r] = "idle"
    BY <1>1, <1>3, <1>5, <1>8, <2>1, Alone DEF Arrived, Ended
  <2>3. ~(OpenCopy(r) \/ Filter(r) \/ WriteCopy(r) \/ MoveCopy(r))
    <3>1. ASSUME pc[r] \in {"allowed", "filtering", "writing", "failing", "moving"}
          PROVE  r \in Rewriting
      BY <3>1 DEF Kinds, Rewriting, Registering, Registers
    <3>2. QED
      BY <2>2, <3>1 DEF OpenCopy, Filter, WriteCopy, MoveCopy
  <2>4. CASE Elsewhere(r)
    BY <1>2, <1>6, <1>8, <2>1, <2>4 DEF Elsewhere
  <2>5. CASE OpenUsers(r)
    BY <1>2, <1>6, <1>8, <2>1, <2>5 DEF OpenUsers
  <2>6. CASE AppendUser(r)
    <3>1. fd[r] # fd[w] /\ copy = fd[w]
      BY <1>6, <2>1, <2>6 DEF FilesNew, AppendUser
    <3>2. copy' = copy /\ fd' = fd
      BY <2>6 DEF AppendUser, local
    <3>3. fd[w] \in File /\ content'[fd[w]] = content[fd[w]]
      <4>1. content' = [content EXCEPT ![fd[r]] = Glue(content[fd[r]], Registered(r))]
        BY <2>6, AppendIs
      <4>2. QED
        BY <1>1, <3>1, <4>1 DEF TypeOK
    <3>4. QED
      BY <1>2, <1>6, <1>8, <2>1, <3>1, <3>2, <3>3
  <2>7. QED
    BY <2>3, <2>4, <2>5, <2>6, Scripting
<1>9. QED
  BY <1>7, <1>8

\* Lines that have ended: a line is put behind them as it is.
LEMMA GlueWhole ==
    ASSUME NEW L, \A l \in L : l.ended, NEW s \in Seq(L), NEW line
    PROVE  Glue(s, line) = Append(s, line)
<1>1. s # <<>> => Last(s).ended
  BY FrontIn
<1>2. QED
  BY <1>1, Zenon DEF Glue

LEMMA CompleteWhole ==
    ASSUME NEW L, L \subseteq Line, \A l \in L : l.ended, NEW s \in Seq(L)
    PROVE  Complete(s) = s
<1>1. CASE s = <<>>
  BY <1>1 DEF Complete
<1>2. CASE s # <<>>
  <2>1. Last(s) \in L
    BY <1>2, FrontIn
  <2>2. [Last(s) EXCEPT !.ended = TRUE] = Last(s)
    BY <2>1 DEF Line
  <2>3. Complete(s) = Front(s) \o <<Last(s)>>
    BY <1>2, <2>2, Zenon DEF Complete
  <2>4. Front(s) \o <<Last(s)>> = s
    BY <1>2 DEF Front, Last
  <2>5. QED
    BY <2>3, <2>4
<1>3. QED
  BY <1>1, <1>2

\* The lines that are not to be deleted.
OthersOf(lines, u) == {k \in DOMAIN lines : ~(lines[k].name = <<u>> /\ lines[k].account # None)}

LEMMA WithoutWhole ==
    ASSUME NEW L, L \subseteq Line, \A l \in L : l.ended, NEW s \in Seq(L), NEW u
    PROVE  /\ Without(s, u) = Keep(s, OthersOf(s, u))
           /\ Without(s, u) \in Seq(L)
<1>1. Without(s, u) = Complete(Keep(s, OthersOf(s, u)))
  BY DEF Without, OthersOf
<1>2. OthersOf(s, u) \in SUBSET DOMAIN s
  BY DEF OthersOf
<1>3. Keep(s, OthersOf(s, u)) \in Seq(L)
  BY <1>2, KeepIs
<1>4. Complete(Keep(s, OthersOf(s, u))) = Keep(s, OthersOf(s, u))
  BY <1>3, CompleteWhole
<1>5. QED
  BY <1>1, <1>3, <1>4

\* A line with a role.
WithRoleLine(l, role) ==
    [l EXCEPT !.account = [(IF l.account = None THEN Nothing ELSE l.account) EXCEPT !.role = role]]

LEMMA RoleIs ==
    ASSUME NEW l \in Line, NEW role \in {0, 1}
    PROVE  LET m == WithRoleLine(l, role)
           IN /\ m \in Line /\ m.name = l.name /\ m.ended = l.ended /\ m.account # None
              /\ l.account # None => /\ m.account.by = l.account.by
                                     /\ m.account.uid = l.account.uid
                                     /\ m.account.pwd = l.account.pwd
<1> DEFINE a == IF l.account = None THEN Nothing ELSE l.account
           b == [a EXCEPT !.role = role]
           m == [l EXCEPT !.account = b]
<1>1. a \in Account
  BY NothingIn DEF Line
<1>2. l.account # None => a = l.account
  OBVIOUS
<1>3. WithRoleLine(l, role) = m
  BY DEF WithRoleLine
<1> HIDE DEF a
<1>4. b \in Account /\ b.pwd = a.pwd /\ b.by = a.by /\ b.uid = a.uid
  BY <1>1 DEF Account
<1>5. b # None
  BY <1>4, NoAccount
<1> HIDE DEF b
<1>6. m \in Line /\ m.name = l.name /\ m.account = b /\ m.ended = l.ended
  BY <1>4 DEF Line
<1> HIDE DEF m
<1>7. QED
  BY <1>2, <1>3, <1>4, <1>5, <1>6

LEMMA WithRoleWhole ==
    ASSUME NEW L, L \subseteq Line, \A l \in L : l.ended, NEW s \in Seq(L),
           NEW name, NEW role \in {0, 1}, \A l \in L : l.name = name => WithRoleLine(l, role) \in L
    PROVE  /\ WithRole(s, name, role) \in Seq(L)
           /\ DOMAIN WithRole(s, name, role) = DOMAIN s
           /\ \A k \in DOMAIN s :
                  WithRole(s, name, role)[k] =
                      IF s[k].name # name THEN s[k] ELSE WithRoleLine(s[k], role)
<1> DEFINE new(k) == IF s[k].name # name THEN s[k] ELSE WithRoleLine(s[k], role)
           t == [k \in DOMAIN s |-> new(k)]
<1>1. ASSUME NEW k \in DOMAIN s
      PROVE  new(k) \in L
  <2>1. s[k] \in L
    OBVIOUS
  <2>2. QED
    BY <2>1
<1>2. WithRole(s, name, role) = Complete(t)
  BY DEF WithRole, WithRoleLine
<1> HIDE DEF new
<1>3. t \in Seq(L)
  BY <1>1
<1>4. DOMAIN t = DOMAIN s /\ \A k \in DOMAIN s : t[k] = new(k)
  OBVIOUS
<1> HIDE DEF t
<1>5. Complete(t) = t
  BY <1>3, CompleteWhole
<1>6. QED
  BY <1>2, <1>3, <1>4, <1>5 DEF new

\* What the scripts make of lines, as long as roles do not matter.
Scriptable(L) ==
    /\ L \subseteq WholeLine
    /\ \A l \in L, role \in {0, 1} : WithRoleLine(l, role) \in L
    /\ Tears(L)

LEMMA ScriptableIs ==
    ASSUME NEW L, Scriptable(L)
    PROVE  /\ L \subseteq Line /\ \A l \in L : l.ended
           /\ Glues(L) /\ Tears(L)
<1>1. L \subseteq Line /\ \A l \in L : l.ended
  BY DEF Scriptable, WholeLine
<1>2. ASSUME NEW s \in Seq(L), NEW l \in L
      PROVE  Glue(s, l) \in Seq(L)
  <2>1. Glue(s, l) = Append(s, l)
    BY <1>1, GlueWhole
  <2>2. QED
    BY <2>1
<1>3. QED
  BY <1>1, <1>2 DEF Glues, Scriptable

LEMMA WholeTears ==
    ASSUME NEW l \in Line, l.ended
    PROVE  LET torn == [l EXCEPT !.name = <<Torn>>, !.account = None]
           IN torn \in WholeLine /\ torn.account = None
<1> DEFINE torn == [l EXCEPT !.name = <<Torn>>, !.account = None]
<1>1. <<Torn>> \in Seq(Name \cup {Torn})
  OBVIOUS
<1>2. torn \in Line /\ torn.account = None /\ torn.name = <<Torn>> /\ torn.ended
  BY <1>1 DEF Line
<1> HIDE DEF torn
<1>3. torn \in WholeLine /\ torn.account = None
  BY <1>2 DEF WholeLine
<1>4. QED
  BY <1>3 DEF torn

LEMMA WholeRole ==
    ASSUME NEW l \in WholeLine, NEW role \in {0, 1}
    PROVE  WithRoleLine(l, role) \in WholeLine
<1>1. l \in Line /\ l.ended
  BY DEF WholeLine
<1>2. QED
  BY <1>1, RoleIs DEF WholeLine

LEMMA WholeScriptable == Scriptable(WholeLine)
<1>1. Tears(WholeLine)
  <2>1. \A l \in WholeLine : l \in Line /\ l.ended
    BY DEF WholeLine
  <2>2. QED
    BY <2>1, WholeTears DEF Tears
<1>2. QED
  BY <1>1, WholeRole DEF Scriptable

\* What a script makes of users.txt.
LEMMA Filtering ==
    ASSUME TypeOK, Kinds, NEW r \in Req, Filter(r)
    PROVE  /\ UNCHANGED <<content, users, copy, fd>>
           /\ pc'[r] = "writing"
           /\ \/ /\ query[r].op = "delete"
                 /\ text'[r] = Without(content[users], query[r].target)
              \/ /\ query[r].op # "delete"
                 /\ \E name, role : role \in {0, 1}
                                    /\ text'[r] = WithRole(content[users], name, role)
<1>1. query[r].op \in {"delete", "add", "remove"}
  BY DEF Filter, Kinds
<1>2. UNCHANGED <<content, users, copy, fd>> /\ pc'[r] = "writing"
  BY DEF Filter, Go, TypeOK
<1> DEFINE name == text[r][1].name
<1>3. text \in [Req -> Seq(Line)]
  BY DEF TypeOK
<1>4. \/ query[r].op = "delete" /\ text'[r] = Without(content[users], query[r].target)
      \/ query[r].op # "delete" /\ text'[r] = WithRole(content[users], name, 1)
      \/ query[r].op # "delete" /\ text'[r] = WithRole(content[users], name, 0)
  <2>1. CASE query[r].op = "delete"
    <3>1. text' = [text EXCEPT ![r] = Without(content[users], query[r].target)]
      BY <2>1 DEF Filter
    <3>2. QED
      BY <1>3, <2>1, <3>1
  <2>2. CASE query[r].op = "add"
    <3>1. text' = [text EXCEPT ![r] = WithRole(content[users], name, 1)]
      BY <1>3, <2>2 DEF Filter
    <3>2. QED
      BY <1>3, <2>2, <3>1
  <2>3. CASE query[r].op = "remove"
    <3>1. text' = [text EXCEPT ![r] = WithRole(content[users], name, 0)]
      BY <1>3, <2>3 DEF Filter
    <3>2. QED
      BY <1>3, <2>3, <3>1
  <2>4. QED
    BY <1>1, <2>1, <2>2, <2>3
<1> HIDE DEF name
<1>5. QED
  BY <1>2, <1>4

LEMMA FilteredIn ==
    ASSUME TypeOK, Kinds, NEW r \in Req, Filter(r),
           NEW L, Scriptable(L), content[users] \in Seq(L)
    PROVE  text'[r] \in Seq(L)
<1>1. L \subseteq Line /\ \A l \in L : l.ended
  BY ScriptableIs
<1>2. CASE text'[r] = Without(content[users], query[r].target)
  BY <1>1, <1>2, WithoutWhole
<1>3. ASSUME NEW name, NEW role \in {0, 1}, text'[r] = WithRole(content[users], name, role)
      PROVE  text'[r] \in Seq(L)
  <2>1. \A l \in L : l.name = name => WithRoleLine(l, role) \in L
    BY DEF Scriptable
  <2>2. WithRole(content[users], name, role) \in Seq(L)
    BY <1>1, <2>1, WithRoleWhole
  <2>3. QED
    BY <1>3, <2>2
<1>4. QED
  BY <1>2, <1>3, Filtering

\* What a step does to texts that are to be written.
LEMMA Texts ==
    ASSUME TypeOK, Kinds, NEW r \in Req, Step(r), Scripted'
    PROVE  /\ \A q \in Req \ {r} : pc'[q] = pc[q] /\ text'[q] = text[q] /\ fd'[q] = fd[q]
           /\ pc'[r] \in {"writing", "moving"} =>
                  \/ Filter(r) /\ pc'[r] = "writing"
                  \/ WriteCopy(r) /\ pc[r] = "writing" /\ pc'[r] = "moving" /\ text'[r] = text[r]
<1>1. \A q \in Req \ {r} : pc'[q] = pc[q] /\ text'[q] = text[q] /\ fd'[q] = fd[q]
  BY Moving DEF Moves, TypeOK
<1>2. pc \in [Req -> Places]
  BY DEF TypeOK, Places
<1>3. ASSUME Elsewhere(r) \/ OpenUsers(r) \/ AppendUser(r) \/ OpenCopy(r) \/ MoveCopy(r)
      PROVE  pc'[r] \notin {"writing", "moving"}
  BY <1>2, <1>3 DEF Elsewhere, OpenUsers, AppendUser, OpenCopy, MoveCopy, Go
<1>4. CASE Filter(r)
  BY <1>1, <1>2, <1>4 DEF Filter, Go
<1>5. CASE WriteCopy(r) /\ pc[r] = "writing"
  BY <1>1, <1>2, <1>5 DEF WriteCopy, Go, local
<1>6. QED
  BY <1>1, <1>3, <1>4, <1>5, Scripting

\* What a step does to the contents of files.
LEMMA Contents ==
    ASSUME TypeOK, Kinds, NEW r \in Req, Step(r), Scripted'
    PROVE  \/ content' = content
           \/ AppendUser(r)
           \/ OpenCopy(r) /\ content' = [content EXCEPT ![copy'] = <<>>] /\ copy' \in File
           \/ /\ WriteCopy(r) /\ pc[r] = "writing"
              /\ \E lines \in Overwritten(fd[r], text[r]) :
                     content' = [content EXCEPT ![fd[r]] = lines]
<1>1. ASSUME Elsewhere(r) \/ OpenUsers(r) \/ Filter(r) \/ MoveCopy(r)
      PROVE  content' = content
  BY <1>1 DEF Elsewhere, OpenUsers, Filter, MoveCopy
<1>2. CASE OpenCopy(r)
  BY <1>2, OpensCopyIs DEF OpenCopy
<1>3. CASE WriteCopy(r) /\ pc[r] = "writing"
  BY <1>3 DEF WriteCopy
<1>4. QED
  BY <1>1, <1>2, <1>3, Scripting

LEMMA WholeKept ==
    ASSUME TypeOK, Kinds, Past, LinesWhole, NEW r \in Req, Step(r)
    PROVE  LinesWhole'
<1> SUFFICES ASSUME Scripted'
             PROVE  /\ content' \in [File -> Seq(WholeLine)]
                    /\ \A q \in Req : pc'[q] \in {"writing", "moving"} =>
                                          text'[q] \in Seq(WholeLine)
  BY DEF LinesWhole
<1>1. /\ content \in [File -> Seq(WholeLine)]
      /\ \A q \in Req : pc[q] \in {"writing", "moving"} => text[q] \in Seq(WholeLine)
  BY Moving, StaysApart DEF LinesWhole
<1>2. users \in File /\ fd[r] \in File /\ Glues(WholeLine) /\ Tears(WholeLine)
  BY WholeScriptable, ScriptableIs DEF TypeOK
<1>3. content' \in [File -> Seq(WholeLine)]
  <2>1. CASE AppendUser(r)
    <3>1. Registered(r) \in WholeLine
      BY <2>1, RegisteredIs DEF WholeLine
    <3>2. Glue(content[fd[r]], Registered(r)) \in Seq(WholeLine)
      BY <1>1, <1>2, <3>1 DEF Glues
    <3>3. QED
      BY <1>1, <1>2, <2>1, <3>2, AppendIs
  <2>2. CASE content' = [content EXCEPT ![copy'] = <<>>] /\ copy' \in File
    <3>1. <<>> \in Seq(WholeLine)
      OBVIOUS
    <3>2. QED
      BY <1>1, <2>2, <3>1
  <2>3. ASSUME pc[r] = "writing", NEW lines \in Overwritten(fd[r], text[r]),
               content' = [content EXCEPT ![fd[r]] = lines]
        PROVE  content' \in [File -> Seq(WholeLine)]
    <3>1. content[fd[r]] \in Seq(WholeLine) /\ text[r] \in Seq(WholeLine)
      BY <1>1, <1>2, <2>3
    <3>2. lines \in Seq(WholeLine)
      BY <1>2, <3>1, OverwrittenIn
    <3>3. QED
      BY <1>1, <1>2, <2>3, <3>2
  <2>4. QED
    BY <1>1, <2>1, <2>2, <2>3, Contents
<1>4. ASSUME NEW q \in Req, pc'[q] \in {"writing", "moving"}
      PROVE  text'[q] \in Seq(WholeLine)
  <2>1. Filter(r) => text'[r] \in Seq(WholeLine)
    BY <1>1, <1>2, FilteredIn, WholeScriptable
  <2>2. QED
    BY <1>1, <1>4, <2>1, Texts
<1>5. QED
  BY <1>3, <1>4

\* What a step does to users.txt while no two requests replace it.
LEMMA UsersFile ==
    ASSUME TypeOK, Kinds, FilesNew, CopyAtWork, LinesWhole, NEW r \in Req, Step(r),
           Scripted, Scripted', Arrived(r) /\ r \in Rewriting => ApartFrom(r, Rewriting)
    PROVE  \/ content'[users'] = content[users] /\ ~(AppendUser(r) /\ fd[r] = users)
           \/ /\ AppendUser(r) /\ fd[r] = users
              /\ content'[users'] = Append(content[users], Registered(r))
           \/ MoveCopy(r) /\ content'[users'] = text[r]
<1>1. /\ users \in File /\ copy # users /\ content \in [File -> Seq(WholeLine)] /\ fd[r] \in File
      /\ \A l \in WholeLine : l.ended
  BY DEF TypeOK, FilesNew, LinesWhole, WholeLine
<1>2. pc[r] \in {"writing", "moving"} => /\ copy = fd[r]
                                         /\ pc[r] = "moving" => content[fd[r]] = text[r]
  <2>1. pc[r] \in {"writing", "moving"} => Arrived(r) /\ r \in Rewriting
    BY DEF Arrived, Kinds, Rewriting, Registering
  <2>2. QED
    BY <2>1 DEF CopyAtWork
<1>3. CASE Elsewhere(r) \/ OpenUsers(r) \/ Filter(r)
  <2>1. content'[users'] = content[users]
    BY <1>3 DEF Elsewhere, OpenUsers, Filter
  <2>2. ~AppendUser(r)
    BY <1>3 DEF Elsewhere, OpenUsers, Filter, AppendUser
  <2>3. QED
    BY <2>1, <2>2
<1>4. CASE AppendUser(r)
  <2>1. Glue(content[fd[r]], Registered(r)) = Append(content[fd[r]], Registered(r))
    BY <1>1, GlueWhole
  <2>2. users' = users
    BY <1>4 DEF AppendUser
  <2>3. content' = [content EXCEPT ![fd[r]] = Append(content[fd[r]], Registered(r))]
    BY <1>4, <2>1, AppendIs
  <2> DEFINE new == Append(content[fd[r]], Registered(r))
  <2> HIDE DEF new
  <2>4. content' = [content EXCEPT ![fd[r]] = new]
    BY <2>3 DEF new
  <2>5. content'[users] = IF users = fd[r] THEN new ELSE content[users]
    BY <1>1, <2>4
  <2>6. QED
    BY <1>4, <2>2, <2>5 DEF new
<1>5. CASE OpenCopy(r)
  <2>1. OpensCopy(r) /\ users' = users /\ ~AppendUser(r)
    BY <1>5 DEF OpenCopy, AppendUser
  <2>2. copy' # users'
    BY NewKept DEF FilesNew
  <2>3. content' = [content EXCEPT ![copy'] = <<>>]
    BY <2>1, OpensCopyIs
  <2>4. QED
    BY <1>1, <2>1, <2>2, <2>3
<1>6. CASE WriteCopy(r) /\ pc[r] = "writing"
  <2>1. PICK lines : content' = [content EXCEPT ![fd[r]] = lines]
    BY <1>6 DEF WriteCopy
  <2>2. fd[r] # users
    BY <1>1, <1>2, <1>6
  <2>3. users' = users /\ ~AppendUser(r)
    BY <1>6 DEF WriteCopy, AppendUser
  <2>4. QED
    BY <1>1, <2>1, <2>2, <2>3
<1>7. CASE MoveCopy(r)
  <2>1. pc[r] = "moving" /\ content' = content
    BY <1>7 DEF MoveCopy
  <2>2. copy = fd[r] /\ content[fd[r]] = text[r] /\ copy # None
    BY <1>1, <1>2, <2>1, AccountsAssumption DEF File
  <2>3. users' = copy
    BY <1>7, <2>2 DEF MoveCopy
  <2>4. QED
    BY <1>7, <2>1, <2>2, <2>3
<1>8. QED
  BY <1>3, <1>4, <1>5, <1>6, <1>7, Scripting

---------------------------------------------------------------------------
\* Names

LEMMA DistinctAppend ==
    ASSUME NEW s \in Seq(Line), Distinct(s), NEW line, line.account # None,
           line.name \notin NamesOf(s)
    PROVE  Distinct(Append(s, line))
<1> DEFINE t == Append(s, line)
           n == Len(s)
<1>1. n \in Nat /\ DOMAIN t = 1 .. n + 1 /\ DOMAIN s = 1 .. n
  OBVIOUS
<1>2. t[n + 1] = line /\ \A k \in 1 .. n : t[k] = s[k]
  OBVIOUS
<1> HIDE DEF t, n
<1>3. \A k \in 1 .. n + 1 : k \in 1 .. n \/ k = n + 1
  BY <1>1
<1>4. \A k \in 1 .. n : s[k].account # None /\ s[k].name # line.name
  BY <1>1 DEF Distinct, NamesOf
<1>5. \A k \in 1 .. n + 1 : t[k].account # None
  BY <1>2, <1>3, <1>4
<1>6. \A i, j \in 1 .. n + 1 : i # j => t[i].name # t[j].name
  BY <1>1, <1>2, <1>3, <1>4 DEF Distinct
<1>7. QED
  BY <1>1, <1>5, <1>6 DEF Distinct, t

LEMMA DistinctKept ==
    ASSUME NEW s \in Seq(Line), Distinct(s), NEW K \in SUBSET DOMAIN s
    PROVE  Distinct(Keep(s, K)) /\ NamesOf(Keep(s, K)) \subseteq NamesOf(s)
<1>1. \A i \in DOMAIN Keep(s, K) : \E k \in K : Rank(K, k) = i /\ Keep(s, K)[i] = s[k]
  BY KeepIs
<1>2. QED
  BY <1>1 DEF Distinct, NamesOf

LEMMA DistinctFiltered ==
    ASSUME TypeOK, Kinds, NEW r \in Req, Filter(r), content[users] \in Seq(WholeLine),
           Distinct(content[users])
    PROVE  Distinct(text'[r]) /\ NamesOf(text'[r]) \subseteq NamesOf(content[users])
<1> DEFINE s == content[users]
<1>1. WholeLine \subseteq Line /\ (\A l \in WholeLine : l.ended) /\ s \in Seq(Line)
  BY WholeScriptable, ScriptableIs, SeqGrows
<1>2. CASE text'[r] = Without(s, query[r].target)
  <2>1. Without(s, query[r].target) = Keep(s, OthersOf(s, query[r].target))
    BY <1>1, WithoutWhole
  <2>2. OthersOf(s, query[r].target) \in SUBSET DOMAIN s
    BY DEF OthersOf
  <2>3. QED
    BY <1>1, <1>2, <2>1, <2>2, DistinctKept
<1>3. ASSUME NEW name, NEW role \in {0, 1}, text'[r] = WithRole(s, name, role)
      PROVE  Distinct(text'[r]) /\ NamesOf(text'[r]) \subseteq NamesOf(s)
  <2> DEFINE t == WithRole(s, name, role)
  <2>1. \A l \in WholeLine : l.name = name => WithRoleLine(l, role) \in WholeLine
    BY WholeRole
  <2>2. /\ DOMAIN t = DOMAIN s
        /\ \A k \in DOMAIN s : t[k] = IF s[k].name # name THEN s[k] ELSE WithRoleLine(s[k], role)
    BY <1>1, <2>1, WithRoleWhole
  <2>3. \A k \in DOMAIN s : s[k] \in Line
    BY <1>1
  <2> HIDE DEF s, t
  <2>4. \A k \in DOMAIN s : t[k].name = s[k].name /\ t[k].account # None
    <3>1. \A k \in DOMAIN s : /\ WithRoleLine(s[k], role).name = s[k].name
                              /\ WithRoleLine(s[k], role).account # None
      BY <2>3, RoleIs
    <3>2. QED
      BY <2>2, <3>1 DEF Distinct, s
  <2>5. Distinct(t) /\ NamesOf(t) \subseteq NamesOf(s)
    BY <2>2, <2>4 DEF Distinct, NamesOf, s
  <2>6. QED
    BY <1>3, <2>5 DEF t
<1>4. QED
  BY <1>2, <1>3, Filtering

\* Who comes to register found no account with the name.
LEMMA Comes ==
    ASSUME TypeOK, Kinds, NEW r \in Req, Step(r), pc'[r] = "free"
    PROVE  pc[r] = "idle" /\ ~HasLine(content[users], query[r].name)
<1>1. pc[r] = "idle"
  BY Moving DEF Moves, Flow
<1>2. pc \in [Req -> Places]
  BY DEF TypeOK, Places
<1>3. ~(Refuse(r) \/ OpenOld(r) \/ AllowDelete(r) \/ AllowAppoint(r))
  BY <1>2 DEF Refuse, OpenOld, AllowDelete, AllowAppoint, Arrive, Go
<1>4. CheckName(r)
  BY <1>1, <1>3 DEF Step, ReadNumber, EmptyNumber, WriteNumber, OpenUsers, AppendUser, CopyProfile,
                    CopyPassword, OpenCopy, Filter, WriteCopy, MoveCopy
<1>5. QED
  BY <1>1, <1>4 DEF CheckName

LEMMA NamesKept ==
    ASSUME TypeOK, Kinds, Past, FilesNew, CopyAtWork, LinesWhole, NamesApart, NEW r \in Req, Step(r)
    PROVE  NamesApart'
<1> DEFINE Coming == {"free", "numbered", "emptied", "counted", "appending"}
<1> SUFFICES ASSUME Scripted', AllApart(Registering)', AllApart(Rewriting)'
             PROVE  /\ Distinct(content'[users'])
                    /\ \A w \in Rewriting : pc'[w] \in {"writing", "moving"} =>
                           /\ Distinct(text'[w])
                           /\ NamesOf(text'[w]) \subseteq NamesOf(content'[users'])
                    /\ \A q \in Registering : pc'[q] \in Coming =>
                           <<query[q].name>> \notin NamesOf(content'[users'])
  <2>1. query' = query
    BY Moving DEF Moves
  <2>2. QED
    BY <2>1, Moving, StaysApart DEF NamesApart
<1>1. Moves(r) /\ Registering \subseteq Req /\ Rewriting \subseteq Req
  BY Moving DEF Registering, Rewriting
<1>2. Scripted /\ AllApart(Registering) /\ AllApart(Rewriting)
  BY <1>1, StaysApart
<1>3. /\ Distinct(content[users])
      /\ \A w \in Rewriting : pc[w] \in {"writing", "moving"} =>
             Distinct(text[w]) /\ NamesOf(text[w]) \subseteq NamesOf(content[users])
      /\ \A q \in Registering : pc[q] \in Coming =>
             <<query[q].name>> \notin NamesOf(content[users])
  BY <1>2 DEF NamesApart
<1>4. content[users] \in Seq(WholeLine) /\ content[users] \in Seq(Line)
  BY <1>2 DEF LinesWhole, TypeOK
<1>5. pc[r] \notin Ended /\ Flow(query[r].op, pc[r], pc'[r])
  BY <1>1 DEF Moves, Flow, Ended
<1>6. Arrived(r) /\ r \in Rewriting =>
          /\ ApartFrom(r, Rewriting)
          /\ \A w \in Rewriting \ {r} : pc[w] \in {"idle"} \cup Ended
  BY <1>1, <1>2, <1>5, Alone DEF AllApart, Arrived
<1>7. Arrived(r) /\ r \in Registering =>
          \A q \in Registering \ {r} : pc[q] \in {"idle"} \cup Ended
  BY <1>1, <1>2, <1>5, Alone DEF AllApart, Arrived
<1>8. CASE content'[users'] = content[users] /\ ~(AppendUser(r) /\ fd[r] = users)
  <2>1. ASSUME NEW w \in Rewriting, pc'[w] \in {"writing", "moving"}
        PROVE  Distinct(text'[w]) /\ NamesOf(text'[w]) \subseteq NamesOf(content'[users'])
    <3>1. CASE w # r
      BY <1>1, <1>2, <1>3, <1>8, <2>1, <3>1, Texts
    <3>2. CASE w = r /\ Filter(r)
      BY <1>3, <1>4, <1>8, <3>2, DistinctFiltered
    <3>3. CASE w = r /\ pc[r] = "writing" /\ text'[r] = text[r]
      BY <1>3, <1>8, <3>3, <2>1
    <3>4. QED
      BY <1>1, <1>2, <2>1, <3>1, <3>2, <3>3, Texts
  <2>2. ASSUME NEW q \in Registering, pc'[q] \in Coming
        PROVE  <<query[q].name>> \notin NamesOf(content'[users'])
    <3>1. CASE pc[q] \in Coming
      BY <1>3, <1>8, <3>1
    <3>2. CASE pc[q] \notin Coming
      <4>1. q = r
        BY <1>1, <2>2, <3>2, Texts
      <4>2. pc'[r] = "free"
        BY <1>5, <2>2, <3>2, <4>1 DEF Flow, Registering, Registers
      <4>3. ~HasLine(content[users], query[r].name)
        BY <4>2, Comes
      <4>4. <<query[r].name>> \notin NamesOf(content[users])
        BY <1>3, <4>3 DEF HasLine, Distinct, NamesOf
      <4>5. QED
        BY <1>8, <4>1, <4>4
    <3>3. QED
      BY <3>1, <3>2
  <2>3. QED
    BY <1>3, <1>8, <2>1, <2>2
<1>9. CASE /\ AppendUser(r) /\ fd[r] = users
           /\ content'[users'] = Append(content[users], Registered(r))
  <2> DEFINE s == content[users]
             new == Registered(r)
  <2>1. /\ pc[r] = "appending" /\ r \in Registering /\ pc'[r] = "done" /\ text' = text
    BY <1>9 DEF AppendUser, Kinds, Registering, Go, TypeOK, local
  <2>2. <<query[r].name>> \notin NamesOf(s)
    BY <1>3, <2>1
  <2>3. new.name = <<query[r].name>> /\ new.account # None
    BY <1>9, RegisteredIs
  <2>4. Distinct(Append(s, new))
    BY <1>3, <1>4, <2>2, <2>3, DistinctAppend
  <2>5. NamesOf(s) \subseteq NamesOf(Append(s, new))
    <3> HIDE DEF new
    <3>1. \A k \in DOMAIN s : k \in DOMAIN Append(s, new) /\ Append(s, new)[k] = s[k]
      BY <1>4
    <3>2. QED
      BY <3>1 DEF NamesOf
  <2>6. ASSUME NEW w \in Rewriting, pc'[w] \in {"writing", "moving"}
        PROVE  Distinct(text'[w]) /\ NamesOf(text'[w]) \subseteq NamesOf(content'[users'])
    <3>1. pc[w] \in {"writing", "moving"}
      BY <1>1, <2>1, <2>6, Texts
    <3>2. QED
      BY <1>3, <1>9, <2>1, <2>5, <3>1
  <2>7. \A q \in Registering : pc'[q] \notin Coming
    BY <1>1, <1>7, <2>1, Texts DEF Arrived, Ended
  <2>8. QED
    BY <1>9, <2>4, <2>6, <2>7
<1>10. CASE MoveCopy(r) /\ content'[users'] = text[r]
  <2>1. /\ pc[r] = "moving" /\ r \in Rewriting /\ pc'[r] = "done"
    BY <1>10 DEF MoveCopy, Kinds, Rewriting, Registering, Go, TypeOK
  <2>2. \A w \in Rewriting : pc'[w] \notin {"writing", "moving"}
    BY <1>1, <1>6, <2>1, Texts DEF Arrived, Ended
  <2>3. Distinct(text[r]) /\ NamesOf(text[r]) \subseteq NamesOf(content[users])
    BY <1>3, <2>1
  <2>4. ASSUME NEW q \in Registering, pc'[q] \in Coming
        PROVE  <<query[q].name>> \notin NamesOf(content[users])
    <3>1. pc[q] \in Coming
      BY <1>1, <2>1, <2>4, Texts
    <3>2. QED
      BY <1>3, <3>1
  <2>5. QED
    BY <1>10, <2>2, <2>3, <2>4
<1>11. QED
  BY <1>2, <1>6, <1>8, <1>9, <1>10, UsersFile

LEMMA NamesFollow == NamesApart => NamesUnique
BY DEF NamesApart, NamesUnique, Distinct, Listed

---------------------------------------------------------------------------
\* Registrations that stay

LEMMA HasAppended ==
    ASSUME NEW s \in Seq(Line), NEW line, NEW u, NEW n, NEW pwd,
           \/ Has(s, u, n, pwd)
           \/ /\ line.name = <<u>> /\ line.account # None
              /\ line.account.uid = n /\ line.account.pwd = pwd
    PROVE  Has(Append(s, line), u, n, pwd)
<1> DEFINE t == Append(s, line)
<1>1. /\ Len(s) + 1 \in DOMAIN t /\ t[Len(s) + 1] = line
      /\ \A k \in DOMAIN s : k \in DOMAIN t /\ t[k] = s[k]
  OBVIOUS
<1> HIDE DEF t
<1>2. Has(t, u, n, pwd)
  BY <1>1 DEF Has
<1>3. QED
  BY <1>2 DEF t

LEMMA HasFiltered ==
    ASSUME TypeOK, Kinds, NEW r \in Req, Filter(r), content[users] \in Seq(WholeLine),
           NEW u, NEW n, NEW pwd, Has(content[users], u, n, pwd),
           query[r].op = "delete" => query[r].target # u
    PROVE  Has(text'[r], u, n, pwd)
<1> DEFINE s == content[users]
<1>1. WholeLine \subseteq Line /\ (\A l \in WholeLine : l.ended) /\ s \in Seq(Line)
  BY WholeScriptable, ScriptableIs, SeqGrows
<1>2. PICK k \in DOMAIN s : /\ s[k].name = <<u>> /\ s[k].account # None
                            /\ s[k].account.uid = n /\ s[k].account.pwd = pwd
  BY DEF Has
<1>3. CASE query[r].op = "delete" /\ text'[r] = Without(s, query[r].target)
  <2> DEFINE K == OthersOf(s, query[r].target)
             t == Keep(s, K)
  <2>1. text'[r] = t
    BY <1>1, <1>3, WithoutWhole
  <2>2. query[r].target # u
    BY <1>3
  <2>3. K \in SUBSET DOMAIN s /\ k \in K
    BY <1>2, <2>2 DEF OthersOf
  <2> HIDE DEF K
  <2>4. Rank(K, k) \in DOMAIN t /\ t[Rank(K, k)] = s[k]
    BY <1>1, <2>3, KeepIs
  <2> HIDE DEF t
  <2>5. QED
    BY <1>2, <2>1, <2>4 DEF Has
<1>4. ASSUME NEW name, NEW role \in {0, 1}, text'[r] = WithRole(s, name, role)
      PROVE  Has(text'[r], u, n, pwd)
  <2> DEFINE t == WithRole(s, name, role)
  <2>1. \A l \in WholeLine : l.name = name => WithRoleLine(l, role) \in WholeLine
    BY WholeRole
  <2>2. /\ k \in DOMAIN t
        /\ t[k] = IF s[k].name # name THEN s[k] ELSE WithRoleLine(s[k], role)
    BY <1>1, <2>1, WithRoleWhole
  <2>3. s[k] \in Line
    BY <1>1
  <2>4. LET m == WithRoleLine(s[k], role)
        IN /\ m.name = s[k].name /\ m.account # None
           /\ m.account.uid = s[k].account.uid /\ m.account.pwd = s[k].account.pwd
    BY <1>2, <2>3, RoleIs
  <2> HIDE DEF t, s
  <2>5. Has(t, u, n, pwd)
    BY <1>2, <2>2, <2>4 DEF Has
  <2>6. QED
    BY <1>4, <2>5 DEF t
<1>5. QED
  BY <1>3, <1>4, Filtering

LEMMA RegistrationsKept ==
    ASSUME TypeOK, Kinds, Past, FilesNew, CopyAtWork, LinesWhole, Kept, NEW r \in Req, Step(r)
    PROVE  Kept'
<1> SUFFICES ASSUME NEW q \in Registering, Untouched(q)', pc'[q] \in {"appending", "done"}
             PROVE  LET has(lines) == Has(lines, query[q].name, uid'[q], query[q].pwd)
                    IN /\ pc'[q] = "appending" => fd'[q] = users'
                       /\ pc'[q] = "done" =>
                              /\ has(content'[users'])
                              /\ \A w \in Rewriting : pc'[w] \in {"writing", "moving"} =>
                                                          has(text'[w])
  <2>1. query' = query
    BY Moving DEF Moves
  <2>2. QED
    BY <2>1, Moving, StaysApart DEF Kept
<1> DEFINE has(lines) == Has(lines, query[q].name, uid[q], query[q].pwd)
<1>1. /\ Moves(r) /\ Registering \subseteq Req /\ Rewriting \subseteq Req /\ query' = query
      /\ q \in Req /\ q \notin Rewriting
  BY Moving DEF Registering, Rewriting, Moves
<1>2. pc[r] \notin Ended /\ Flow(query[r].op, pc[r], pc'[r])
  BY <1>1 DEF Moves, Flow, Ended
<1>3. \A p \in Req \ {r} : pc'[p] = pc[p] /\ fd'[p] = fd[p] /\ text'[p] = text[p]
                           /\ uid'[p] = uid[p]
  BY <1>1 DEF Moves, TypeOK
<1>4. Arrived(q) /\ uid'[q] = uid[q] /\ (pc[q] = "done" => q # r)
  <2>1. CASE q = r
    BY <1>1, <1>2, <2>1 DEF Flow, Arrived, Moves, Ended
  <2>2. CASE q # r
    BY <1>1, <1>3, <2>2 DEF Arrived
  <2>3. QED
    BY <2>1, <2>2
<1>5. Untouched(q)
  <2>1. Scripted /\ AllApart(Rewriting) /\ ApartFrom(q, Rewriting)
    BY <1>1, <1>4, StaysApart DEF Untouched
  <2>2. ASSUME NEW p \in Rewriting, query[p].op = "delete", query[p].target = query[q].name,
               Arrived(p)
        PROVE  p \in before[q]
    <3>1. Arrived(p)' /\ before'[q] = before[q] /\ Rewriting' = Rewriting
      BY <1>1, <1>4, <2>2, StaysApart
    <3>2. QED
      BY <1>1, <2>2, <3>1 DEF Untouched
  <2>3. QED
    BY <2>1, <2>2 DEF Untouched
<1>6. /\ Scripted' /\ Scripted /\ content[users] \in Seq(WholeLine) /\ content[users] \in Seq(Line)
      /\ Arrived(r) /\ r \in Rewriting => ApartFrom(r, Rewriting)
  BY <1>5 DEF Untouched, LinesWhole, TypeOK, AllApart
<1>7. /\ pc[q] = "appending" => fd[q] = users
      /\ pc[q] = "done" =>
             /\ has(content[users])
             /\ \A w \in Rewriting : pc[w] \in {"writing", "moving"} => has(text[w])
  BY <1>5 DEF Kept
<1>8. pc[q] \notin Ended => \A w \in Rewriting : Arrived(w) => pc[w] \in Ended
  BY <1>1, <1>5, Alone DEF Untouched
<1>9. ASSUME pc'[q] = "appending"
      PROVE  fd'[q] = users'
  <2>1. CASE q = r
    <3>1. OpenUsers(r)
      BY <1>6, <1>9, <2>1, Scripting
         DEF Elsewhere, AppendUser, OpenCopy, Filter, WriteCopy, MoveCopy, Go, TypeOK
    <3>2. QED
      BY <2>1, <3>1 DEF OpenUsers, TypeOK
  <2>2. CASE q # r
    <3>1. pc[q] = "appending" /\ fd'[q] = fd[q]
      BY <1>1, <1>3, <1>9, <2>2
    <3>2. ~MoveCopy(r)
      BY <1>1, <1>2, <1>8, <3>1 DEF MoveCopy, Kinds, Rewriting, Registering, Arrived, Ended
    <3>3. users' = users
      BY <1>6, <3>2, Scripting DEF Elsewhere, OpenUsers, AppendUser, OpenCopy, Filter, WriteCopy
    <3>4. QED
      BY <1>7, <3>1, <3>3
  <2>3. QED
    BY <2>1, <2>2
<1>10. ASSUME pc'[q] = "done", pc[q] # "done"
       PROVE  q = r /\ AppendUser(r) /\ fd[r] = users
  <2>1. q = r /\ pc[r] = "appending"
    BY <1>1, <1>2, <1>3, <1>10 DEF Flow, Registering, Registers
  <2>2. AppendUser(r)
    BY <1>6, <2>1, Scripting DEF Elsewhere, OpenUsers, OpenCopy, Filter, WriteCopy, MoveCopy
  <2>3. QED
    BY <1>7, <2>1, <2>2
<1>11. ASSUME pc'[q] = "done"
       PROVE  has(content'[users'])
  <2>1. CASE content'[users'] = content[users] /\ ~(AppendUser(r) /\ fd[r] = users)
    BY <1>7, <1>10, <1>11, <2>1
  <2>2. CASE /\ AppendUser(r) /\ fd[r] = users
             /\ content'[users'] = Append(content[users], Registered(r))
    <3>1. CASE q = r
      BY <1>6, <2>2, <3>1, RegisteredIs, HasAppended
    <3>2. CASE q # r
      BY <1>6, <1>7, <1>10, <1>11, <2>2, <3>2, HasAppended
    <3>3. QED
      BY <3>1, <3>2
  <2>3. CASE MoveCopy(r) /\ content'[users'] = text[r]
    <3>1. pc[r] = "moving" /\ r \in Rewriting
      BY <2>3 DEF MoveCopy, Kinds, Rewriting, Registering
    <3>2. pc[q] = "done"
      BY <1>1, <1>10, <1>11, <3>1
    <3>3. QED
      BY <1>7, <2>3, <3>1, <3>2
  <2>4. QED
    BY <1>6, <2>1, <2>2, <2>3, UsersFile
<1>12. ASSUME pc'[q] = "done", NEW w \in Rewriting, pc'[w] \in {"writing", "moving"}
       PROVE  has(text'[w])
  <2>1. CASE w # r
    <3>1. pc[w] \in {"writing", "moving"} /\ text'[w] = text[w]
      BY <1>1, <1>3, <1>12, <2>1
    <3>2. pc[q] \in Ended
      BY <1>8, <3>1 DEF Arrived, Ended
    <3>3. pc[q] = "done"
      BY <1>2, <1>10, <1>12, <3>2 DEF Ended
    <3>4. QED
      BY <1>7, <3>1, <3>3
  <2>2. CASE w = r
    <3>1. pc[q] = "done"
      BY <1>1, <1>10, <1>12, <2>2
    <3>2. CASE Filter(r)
      <4>1. Arrived(r) /\ r \notin before[q]
        BY <1>1, <1>2, <3>2 DEF Filter, Arrived, Past
      <4>2. query[r].op = "delete" => query[r].target # query[q].name
        BY <1>5, <2>2, <4>1 DEF Untouched
      <4>3. QED
        BY <1>6, <1>7, <2>2, <3>1, <3>2, <4>2, HasFiltered
    <3>3. CASE pc[r] = "writing" /\ text'[r] = text[r]
      BY <1>7, <2>2, <3>1, <3>3
    <3>4. QED
      BY <1>6, <1>12, <2>2, <3>2, <3>3, Texts
  <2>3. QED
    BY <2>1, <2>2
<1> HIDE DEF has
<1>13. QED
  BY <1>4, <1>9, <1>11, <1>12 DEF has

LEMMA RegistrationsFollow == Kept => RegistrationStays
BY DEF Kept, RegistrationStays, Untouched, Has, Listed

---------------------------------------------------------------------------
\* Accounts that stay deleted

LEMMA CleanScriptable ==
    ASSUME TypeOK, NEW d \in Req, query[d].op = "delete"
    PROVE  Scriptable(CleanLine(d))
<1>1. <<Torn>> # <<query[d].target>>
  <2>1. query[d].target \in Name
    BY QueryIs DEF Deletion
  <2>2. QED
    BY <2>1, AccountsAssumption
<1>2. CleanLine(d) \subseteq WholeLine
  BY DEF CleanLine
<1>3. ASSUME NEW l \in CleanLine(d), NEW role \in {0, 1}
      PROVE  WithRoleLine(l, role) \in CleanLine(d)
  <2> DEFINE m == WithRoleLine(l, role)
  <2>1. m \in WholeLine
    BY <1>2, <1>3, WholeRole
  <2>2. l \in Line /\ (l.account = None => l.name = <<Torn>>)
    BY <1>2, <1>3 DEF WholeLine
  <2>3. m.name = l.name /\ (l.account # None => m.account.by = l.account.by)
    BY <1>3, <2>2, RoleIs
  <2> HIDE DEF m
  <2>4. m \in CleanLine(d)
    BY <1>1, <1>3, <2>1, <2>2, <2>3 DEF CleanLine
  <2>5. QED
    BY <2>4 DEF m
<1>4. ASSUME NEW l \in CleanLine(d)
      PROVE  [l EXCEPT !.name = <<Torn>>, !.account = None] \in CleanLine(d)
  <2> DEFINE torn == [l EXCEPT !.name = <<Torn>>, !.account = None]
  <2>1. l \in Line /\ l.ended
    BY <1>2, <1>4 DEF WholeLine
  <2>2. torn \in WholeLine /\ torn.account = None
    BY <2>1, WholeTears
  <2> HIDE DEF torn
  <2>3. torn \in CleanLine(d)
    BY <2>2 DEF CleanLine
  <2>4. QED
    BY <2>3 DEF torn
<1>5. QED
  BY <1>2, <1>3, <1>4 DEF Scriptable, Tears

LEMMA Deleting ==
    ASSUME TypeOK, Kinds, NEW r \in Req, Filter(r), query[r].op = "delete",
           content[users] \in Seq(WholeLine)
    PROVE  text'[r] \in Seq(CleanLine(r))
<1> DEFINE s == content[users]
           K == OthersOf(s, query[r].target)
           t == Keep(s, K)
<1>1. WholeLine \subseteq Line /\ (\A l \in WholeLine : l.ended)
  BY WholeScriptable, ScriptableIs
<1>2. text'[r] = t
  BY <1>1, Filtering, WithoutWhole
<1>3. K \in SUBSET DOMAIN s
  BY DEF OthersOf
<1>4. /\ t \in Seq(WholeLine)
      /\ \A i \in DOMAIN t : \E k \in K : t[i] = s[k]
  BY <1>3, KeepIs
<1>5. \A k \in K : s[k] \in CleanLine(r)
  BY DEF OthersOf, CleanLine
<1> HIDE DEF t, K, s
<1>6. \A i \in DOMAIN t : t[i] \in CleanLine(r)
  BY <1>4, <1>5
<1>7. t \in Seq(CleanLine(r))
  BY <1>4, <1>6
<1>8. QED
  BY <1>2, <1>7

LEMMA RegisteredClean ==
    ASSUME TypeOK, Kinds, Past, NEW r \in Req, AppendUser(r), NEW d \in Req
    PROVE  Registered(r) \in CleanLine(d)
<1>1. r \notin before[d]
  BY DEF AppendUser, Past, Ended
<1>2. r # "users"
  BY AccountsAssumption
<1>3. QED
  BY <1>1, <1>2, RegisteredIs DEF CleanLine, WholeLine

LEMMA CleanedKept ==
    ASSUME TypeOK, Kinds, Past, FilesNew, CopyAtWork, LinesWhole, Cleaned, NEW r \in Req, Step(r)
    PROVE  Cleaned'
<1> SUFFICES ASSUME Scripted', NEW d \in Req, query[d].op = "delete", ApartFrom(d, Rewriting)',
                    pc'[d] \in {"writing", "moving", "done"}
             PROVE  LET L == CleanLine(d)'
                    IN /\ pc'[d] \in {"writing", "moving"} => text'[d] \in Seq(L)
                       /\ pc'[d] = "done" =>
                              /\ content'[users'] \in Seq(L)
                              /\ copy' # None => content'[copy'] \in Seq(L)
                              /\ \A w \in Rewriting :
                                     /\ pc'[w] \in {"filtering", "writing"} =>
                                            content'[fd'[w]] \in Seq(L)
                                     /\ pc'[w] \in {"writing", "moving"} => text'[w] \in Seq(L)
  <2>1. query' = query
    BY Moving DEF Moves
  <2>2. QED
    BY <2>1, Moving, StaysApart DEF Cleaned
<1> DEFINE L == CleanLine(d)
<1>1. /\ Moves(r) /\ Rewriting \subseteq Req /\ d \in Rewriting /\ query' = query
  BY Moving DEF Rewriting, Registering, Registers, Moves
<1>2. pc[r] \notin Ended /\ Flow(query[r].op, pc[r], pc'[r])
  BY <1>1 DEF Moves, Flow, Ended
<1>3. \A p \in Req \ {r} : pc'[p] = pc[p] /\ fd'[p] = fd[p] /\ text'[p] = text[p]
  BY <1>1 DEF Moves, TypeOK
<1>4. Arrived(d)
  BY <1>2, <1>3 DEF Flow, Arrived
<1>5. Scripted /\ ApartFrom(d, Rewriting) /\ CleanLine(d)' = L
  <2>1. Scripted /\ ApartFrom(d, Rewriting) /\ before'[d] = before[d]
    BY <1>1, <1>4, StaysApart
  <2>2. QED
    BY <1>1, <2>1 DEF CleanLine
<1>6. /\ pc[d] \in {"writing", "moving"} => text[d] \in Seq(L)
      /\ pc[d] = "done" =>
             /\ content[users] \in Seq(L)
             /\ copy # None => content[copy] \in Seq(L)
             /\ \A w \in Rewriting :
                    /\ pc[w] \in {"filtering", "writing"} => content[fd[w]] \in Seq(L)
                    /\ pc[w] \in {"writing", "moving"} => text[w] \in Seq(L)
  BY <1>5 DEF Cleaned
<1>7. /\ Scriptable(L) /\ Glues(L) /\ Tears(L) /\ <<>> \in Seq(L)
  BY CleanScriptable, ScriptableIs
<1>8. users \in File /\ copy \in File \cup {None} /\ (\A p \in Req : fd[p] \in File)
      /\ None \notin File /\ content \in [File -> Seq(WholeLine)]
  BY <1>5, AccountsAssumption DEF TypeOK, File, LinesWhole
<1>9. \A w \in Req : pc[w] \in {"allowed", "filtering", "writing", "failing", "moving"} =>
                         w \in Rewriting
  BY DEF Kinds, Rewriting, Registering, Registers
<1>10. AppendUser(r) => Registered(r) \in L
  BY RegisteredClean
<1> HIDE DEF L
<1>11. ASSUME pc'[d] \in {"writing", "moving"}
       PROVE  text'[d] \in Seq(L)
  <2>1. CASE d # r
    BY <1>3, <1>6, <1>11, <2>1
  <2>2. CASE d = r /\ Filter(r)
    BY <1>8, <2>2, Deleting DEF L
  <2>3. CASE d = r /\ pc[r] = "writing" /\ text'[r] = text[r]
    BY <1>6, <2>3
  <2>4. QED
    BY <1>11, <2>1, <2>2, <2>3, Texts
<1>12. ASSUME pc[d] = "done"
       PROVE  /\ content'[users'] \in Seq(L)
              /\ copy' # None => content'[copy'] \in Seq(L)
              /\ \A w \in Rewriting :
                     /\ pc'[w] \in {"filtering", "writing"} => content'[fd'[w]] \in Seq(L)
                     /\ pc'[w] \in {"writing", "moving"} => text'[w] \in Seq(L)
  <2>1. ASSUME NEW f \in File, content[f] \in Seq(L)
        PROVE  content'[f] \in Seq(L)
    <3>1. CASE AppendUser(r)
      <4>1. content' = [content EXCEPT ![fd[r]] = Glue(content[fd[r]], Registered(r))]
        BY <3>1, AppendIs
      <4>2. content[f] \in Seq(L) => Glue(content[f], Registered(r)) \in Seq(L)
        BY <1>7, <1>10, <3>1 DEF Glues
      <4>3. QED
        BY <1>8, <2>1, <4>1, <4>2
    <3>2. CASE content' = [content EXCEPT ![copy'] = <<>>] /\ copy' \in File
      BY <1>7, <1>8, <2>1, <3>2
    <3>3. ASSUME pc[r] = "writing", NEW lines \in Overwritten(fd[r], text[r]),
                 content' = [content EXCEPT ![fd[r]] = lines]
          PROVE  content'[f] \in Seq(L)
      <4>1. content[fd[r]] \in Seq(L) /\ text[r] \in Seq(L)
        BY <1>6, <1>9, <1>12, <3>3
      <4>2. lines \in Seq(L)
        BY <1>7, <1>8, <3>3, <4>1, OverwrittenIn
      <4>3. QED
        BY <1>8, <2>1, <3>3, <4>2
    <3>4. QED
      BY <2>1, <3>1, <3>2, <3>3, Contents
  <2>2. CASE OpenCopy(r)
    <3>1. /\ users' = users /\ copy' \in File /\ fd' = [fd EXCEPT ![r] = copy']
          /\ content' = [content EXCEPT ![copy'] = <<>>] /\ pc'[r] = "filtering"
      BY <2>2, OpensCopyIs DEF OpenCopy, Go, TypeOK
    <3>2. content'[copy'] \in Seq(L)
      BY <1>7, <1>8, <3>1
    <3>3. content'[users'] \in Seq(L)
      BY <1>6, <1>8, <1>12, <2>1, <3>1
    <3>4. ASSUME NEW w \in Rewriting
          PROVE  /\ pc'[w] \in {"filtering", "writing"} => content'[fd'[w]] \in Seq(L)
                 /\ pc'[w] \in {"writing", "moving"} => text'[w] \in Seq(L)
      <4>1. CASE w = r
        <5>1. fd'[r] = copy'
          BY <3>1 DEF TypeOK
        <5>2. QED
          BY <3>1, <3>2, <4>1, <5>1
      <4>2. CASE w # r
        BY <1>1, <1>3, <1>6, <1>8, <1>12, <2>1, <4>2
      <4>3. QED
        BY <4>1, <4>2
    <3>5. QED
      BY <3>2, <3>3, <3>4
  <2>3. CASE ~OpenCopy(r)
    <3>1. /\ \/ users' = users /\ copy' = copy
             \/ users' = copy /\ copy' = None /\ copy # None
          /\ OpenUsers(r) \/ fd' = fd
          /\ pc'[r] = "filtering" => FALSE
      <4>1. CASE Elsewhere(r)
        BY <4>1 DEF Elsewhere
      <4>2. CASE OpenUsers(r) \/ AppendUser(r) \/ Filter(r) \/ WriteCopy(r)
        BY <4>2 DEF OpenUsers, AppendUser, Filter, WriteCopy, Go, TypeOK, local
      <4>3. CASE MoveCopy(r)
        BY <4>3 DEF MoveCopy, Go, TypeOK, local
      <4>4. QED
        BY <2>3, <4>1, <4>2, <4>3, Scripting
    <3>2. content[users'] \in Seq(L) /\ (copy' # None => content[copy'] \in Seq(L))
          /\ users' \in File /\ copy' \in File \cup {None}
      BY <1>6, <1>8, <1>12, <3>1
    <3>3. content'[users'] \in Seq(L) /\ (copy' # None => content'[copy'] \in Seq(L))
      BY <2>1, <3>2
    <3>4. ASSUME NEW w \in Rewriting, pc'[w] \in {"filtering", "writing"}
          PROVE  content'[fd'[w]] \in Seq(L)
      <4>1. pc[w] \in {"filtering", "writing"} /\ fd'[w] = fd[w]
        <5>1. CASE w = r
          <6>1. pc'[r] = "writing" /\ pc[r] = "filtering"
            BY <1>1, <1>2, <1>5, <3>1, <3>4, <5>1, <1>4 DEF Flow, Scripted, Arrived
          <6>2. ~OpenUsers(r)
            BY <6>1 DEF OpenUsers
          <6>3. QED
            BY <3>1, <5>1, <6>1, <6>2
        <5>2. CASE w # r
          BY <1>1, <1>3, <3>4, <5>2
        <5>3. QED
          BY <5>1, <5>2
      <4>2. QED
        BY <1>1, <1>6, <1>8, <1>12, <2>1, <4>1
    <3>5. ASSUME NEW w \in Rewriting, pc'[w] \in {"writing", "moving"}
          PROVE  text'[w] \in Seq(L)
      <4>1. CASE w # r
        BY <1>1, <1>3, <1>6, <1>12, <3>5, <4>1
      <4>2. CASE w = r /\ Filter(r)
        BY <1>6, <1>7, <1>12, <4>2, FilteredIn
      <4>3. CASE w = r /\ pc[r] = "writing" /\ text'[r] = text[r]
        BY <1>6, <1>12, <3>5, <4>3
      <4>4. QED
        BY <1>1, <3>5, <4>1, <4>2, <4>3, Texts
    <3>6. QED
      BY <3>3, <3>4, <3>5
  <2>4. QED
    BY <2>2, <2>3
<1>13. ASSUME pc'[d] = "done", pc[d] # "done"
       PROVE  /\ content'[users'] \in Seq(L)
              /\ copy' = None
              /\ \A w \in Rewriting : pc'[w] \notin {"filtering", "writing", "moving"}
  <2>1. d = r
    BY <1>3, <1>13
  <2>2. pc[r] = "moving"
    BY <1>2, <1>13, <2>1 DEF Flow
  <2>3. MoveCopy(r)
    BY <2>2, Scripting DEF Elsewhere, OpenUsers, AppendUser, OpenCopy, Filter, WriteCopy
  <2>4. copy = fd[r] /\ content[fd[r]] = text[r]
    BY <1>1, <1>5, <2>1, <2>2 DEF CopyAtWork
  <2>5. copy # None
    BY <1>8, <2>4
  <2>6. users' = copy /\ copy' = None /\ content' = content
    BY <2>3, <2>5 DEF MoveCopy
  <2>7. \A w \in Rewriting : pc'[w] \notin {"filtering", "writing", "moving"}
    BY <1>1, <1>2, <1>3, <1>5, <1>13, <2>1, Alone DEF Arrived, Ended
  <2>8. QED
    BY <1>6, <2>1, <2>2, <2>4, <2>6, <2>7
<1>14. QED
  BY <1>5, <1>11, <1>12, <1>13

LEMMA CleanedFollows == TypeOK /\ Cleaned => DeletedStays
<1> SUFFICES ASSUME TypeOK, Cleaned, NEW r \in Req, query[r].op = "delete", pc[r] = "done",
                    ApartFrom(r, Rewriting), Scripted, NEW k \in Listed,
                    content[users][k].name = <<query[r].target>>
             PROVE  content[users][k].account.by \notin before[r] \cup {"users"}
  BY DEF DeletedStays
<1>1. content[users] \in Seq(CleanLine(r)) /\ k \in DOMAIN content[users]
      /\ content[users][k].account # None
  BY DEF Cleaned, Listed
<1>2. content[users][k] \in CleanLine(r)
  BY <1>1
<1>3. QED
  BY <1>1, <1>2 DEF CleanLine

---------------------------------------------------------------------------
\* The inductive invariant

Rest == NumbersGrow /\ FilesNew /\ CopyAtWork /\ LinesWhole /\ NamesApart /\ Kept /\ Cleaned

LEMMA RestAtInit == Init => Rest
<1> SUFFICES ASSUME Init PROVE Rest
  OBVIOUS
<1> DEFINE a == [pwd |-> SuPassword, role |-> 2, uid |-> 0, by |-> "users"]
           l == NewLine(<<Su>>, a)
<1>1. /\ pc = [r \in Req |-> "idle"] /\ users = "users" /\ copy = None
      /\ fd = [r \in Req |-> "users"]
      /\ content = [f \in File |-> IF f = "users" THEN <<l>> ELSE <<>>]
  BY DEF Init
<1>2. Su \in Name /\ SuPassword \in Password /\ "users" \in File /\ None # "users"
      /\ "users" \notin Req /\ None \notin Req
  BY AccountsAssumption DEF File
<1>3. a \in Account /\ a # None
  BY <1>2, NoAccount DEF Account
<1> HIDE DEF a
<1>4. l \in WholeLine /\ l.account # None
  <2>1. <<Su>> \in Seq(Name \cup {Torn})
    BY <1>2
  <2>2. QED
    BY <1>3, <2>1 DEF NewLine, Line, WholeLine
<1> HIDE DEF l
<1>5. content[users] = <<l>>
  BY <1>1, <1>2
<1>6. NumbersGrow
  BY <1>1 DEF NumbersGrow, Registering
<1>7. FilesNew
  BY <1>1, <1>2 DEF FilesNew
<1>8. CopyAtWork
  BY <1>1 DEF CopyAtWork, Rewriting
<1>9. LinesWhole
  <2>1. <<l>> \in Seq(WholeLine) /\ <<>> \in Seq(WholeLine)
    BY <1>4
  <2>2. QED
    BY <1>1, <2>1 DEF LinesWhole
<1>10. NamesApart
  <2>1. Distinct(<<l>>)
    BY <1>4 DEF Distinct
  <2>2. QED
    BY <1>1, <1>5, <2>1 DEF NamesApart, Rewriting, Registering
<1>11. Kept
  BY <1>1 DEF Kept, Registering
<1>12. Cleaned
  BY <1>1 DEF Cleaned
<1>13. QED
  BY <1>6, <1>7, <1>8, <1>9, <1>10, <1>11, <1>12 DEF Rest

\* Only the sessions change.
LEMMA RestStays ==
    ASSUME Rest, UNCHANGED <<content, users, copy, lastId, query, pc, local, before>>
    PROVE  Rest'
<1>1. UNCHANGED <<uid, fd, text>>
  BY DEF local
<1>2. /\ Registering' = Registering /\ Rewriting' = Rewriting /\ Scripted' = Scripted
      /\ (\A r \in Req : ApartFrom(r, Rewriting)' = ApartFrom(r, Rewriting))
      /\ AllApart(Registering)' = AllApart(Registering)
      /\ AllApart(Rewriting)' = AllApart(Rewriting)
  BY DEF Registering, Rewriting, Registers, Scripted, Arrived, Apart, ApartFrom, AllApart
<1>3. Registering \subseteq Req /\ Rewriting \subseteq Req
  BY DEF Registering, Rewriting
<1>4. NumbersGrow'
  BY <1>1, <1>2 DEF Rest, NumbersGrow
<1>5. FilesNew'
  BY <1>1 DEF Rest, FilesNew
<1>6. CopyAtWork'
  BY <1>1, <1>2, <1>3 DEF Rest, CopyAtWork
<1>7. LinesWhole'
  BY <1>1, <1>2 DEF Rest, LinesWhole
<1>8. NamesApart'
  BY <1>1, <1>2 DEF Rest, NamesApart
<1>9. Kept'
  <2>1. \A r \in Req : Untouched(r)' => Untouched(r)
    BY <1>2 DEF Untouched, Arrived
  <2>2. QED
    BY <1>1, <1>2, <1>3, <2>1 DEF Rest, Kept
<1>10. Cleaned'
  <2>1. \A r \in Req : CleanLine(r)' = CleanLine(r)
    BY DEF CleanLine
  <2>2. QED
    BY <1>1, <1>2, <2>1 DEF Rest, Cleaned
<1>11. QED
  BY <1>4, <1>5, <1>6, <1>7, <1>8, <1>9, <1>10 DEF Rest

LEMMA RestKept ==
    ASSUME TypeOK, Kinds, Past, Rest, [Next]_vars
    PROVE  Rest'
<1>1. CASE UNCHANGED vars
  BY <1>1, RestStays DEF vars
<1>2. ASSUME NEW u \in Name, Login(u) \/ Logout(u)
      PROVE  Rest'
  BY <1>2, LogsKeep, RestStays
<1>3. ASSUME NEW r \in Req, Step(r)
      PROVE  Rest'
  BY <1>3, NumbersKept, NewKept, CopyKept, WholeKept, NamesKept, RegistrationsKept, CleanedKept
     DEF Rest
<1>4. QED
  BY <1>1, <1>2, <1>3 DEF Next, Step

(***************************************************************************)
(* Every state satisfies the inductive invariant: what holds however       *)
(* requests overlap, whose every line is and which file is which, and what *)
(* holds while some of them do not, of numbers, of names, of the accounts  *)
(* that were registered and of those that were deleted.                    *)
(***************************************************************************)
THEOREM AccountsInvariance == Spec => []IInv
<1>1. Init => IInv
  BY TypesAtInit, RestAtInit DEF IInv, Rest
<1>2. IInv /\ [Next]_vars => IInv'
  BY TypesKept, RestKept DEF IInv, Rest
<1>3. QED
  BY <1>1, <1>2, PTL DEF Spec

LEMMA OwnFollows == IInv => OwnLines
<1> SUFFICES ASSUME IInv, NEW k \in Listed, NEW u \in Name,
                    content[users][k].name = <<u>>, content[users][k].account.pwd # None
             PROVE  LET a == content[users][k].account
                    IN /\ IF a.by = "users" THEN u = Su /\ a.uid = 0
                          ELSE query[a.by].name = u /\ a.uid = uid[a.by]
                       /\ Legitimate(u, a.pwd)
  BY DEF OwnLines
<1> DEFINE line == content[users][k]
<1>1. content[users] \in Seq(OwnLine)
  BY DEF IInv, LinesOwn, TypeOK
<1>2. k \in DOMAIN content[users] /\ line.account # None
  BY DEF Listed
<1>3. line \in OwnLine
  BY <1>1, <1>2
<1>4. IsOwn(line)
  BY <1>3 DEF OwnLine
<1>5. Last(line.name) = u
  BY DEF Last
<1> HIDE DEF line
<1>6. QED
  BY <1>2, <1>4, <1>5 DEF IsOwn, line

(***************************************************************************)
(* A line that is found under one name is the line of an account           *)
(* registered under that name, with its number and a legitimate password,  *)
(* for any number of users and requests, however they overlap.             *)
(***************************************************************************)
THEOREM OwnTheorem == Spec => []OwnLines
BY AccountsInvariance, OwnFollows, PTL

(***************************************************************************)
(* As long as no two registrations overlap, no two accounts ever get the   *)
(* same number, and if those who replace users.txt do not overlap either,  *)
(* no two lines of it have the same name, for any number of users and      *)
(* requests.                                                               *)
(***************************************************************************)
THEOREM DistinctTheorem == Spec => []AccountsDistinct
<1>1. IInv => AccountsDistinct
  BY NumbersFollow, NamesFollow DEF IInv, AccountsDistinct
<1>2. QED
  BY <1>1, AccountsInvariance, PTL

(***************************************************************************)
(* A confirmed registration stays until the account is deleted, and a      *)
(* deleted account stays away, unless others were replacing users.txt at   *)
(* the time, for any number of users and requests.                         *)
(***************************************************************************)
THEOREM LastTheorem == Spec => []AccountsLast
<1>1. IInv => AccountsLast
  BY RegistrationsFollow, CleanedFollows DEF IInv, AccountsLast
<1>2. QED
  BY <1>1, AccountsInvariance, PTL
===============================================================================
