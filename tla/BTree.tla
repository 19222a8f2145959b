-------------------------------- MODULE BTree ---------------------------------
(***************************************************************************)
(* The tree in which httpd sorts the entries of a directory (HTBTree.c):   *)
(* a binary tree in which every node knows its father and the depths of    *)
(* what is below it on either side, and which is balanced by rotations     *)
(* after each insertion.  The two sides are treated alike, so that one     *)
(* definition with a side as parameter stands for both halves of the code. *)
(***************************************************************************)
EXTENDS Integers, Sequences, SequencesExt, FiniteSets

Side == {"left", "right"}
Opposite(d) == IF d = "left" THEN "right" ELSE "left"

\* An entry is its key and how many with that key have come before it.
Nil == <<>>
Before(e, f) == e[1] < f[1]

\* HTBTree_new
NewTree == [top |-> Nil, node |-> <<>>]

Leaf(father) ==
    [up |-> father, child |-> [d \in Side |-> Nil], depth |-> [d \in Side |-> 0]]

\* Mutant: the depth of one side only.
HeightLeft(n) == 1 + n.depth["left"]

Height(n) ==
    1 + IF n.depth["left"] > n.depth["right"] THEN n.depth["left"] ELSE n.depth["right"]

SideOf(node, father, n) == IF node[father].child["left"] = n THEN "left" ELSE "right"

\* A loop: at most as many steps as there are nodes.
Times(node) == [i \in 1 .. Cardinality(DOMAIN node) |-> i]

\* The node the new entry comes below, and on which side.
Place(node, top, e) ==
    LET place[n \in DOMAIN node] ==
            LET d == IF Before(e, n) THEN "left" ELSE "right"
            IN IF node[n].child[d] = Nil THEN <<n, d>> ELSE place[node[n].child[d]]
    IN place[top]

\* The depths above n, as far up as they change; below its father is now what is as
\* deep as "deep" says.
Deepen(node, father, n, deep) ==
    LET Up(s, i) ==
            LET new == [s.node EXCEPT ![s.father].depth[SideOf(s.node, s.father, s.n)] = s.deep]
            IN IF s.father = Nil THEN s
               ELSE [node |-> new, n |-> s.father, deep |-> Height(new[s.father]),
                     father |-> IF new # s.node THEN new[s.father].up ELSE Nil]
    IN FoldLeft(Up, [node |-> node, father |-> father, n |-> n, deep |-> deep], Times(node)).node

\* When n comes below its child on side d, how deep the two are there ...
Depths(node, n, d) ==
    LET o == Opposite(d)
        a == node[n].child[d]
        below == [node EXCEPT ![n].depth[d] = node[a].depth[o]]
    IN [below EXCEPT ![a].depth[o] = Height(below[n])]

\* ... and a takes the place of n below the father of n, if there is one.
Replace(node, father, n, a) ==
    LET above == Deepen(node, father, n, Height(node[a]))
    IN IF father = Nil THEN node
       ELSE [above EXCEPT ![father].child[SideOf(above, father, n)] = a]

\* Mutant: what hung between the two nodes keeps its old father.
RotateLosing(node, n, d) ==
    LET o  == Opposite(d)
        a  == node[n].child[d]
        up == node[n].up
    IN [Replace(Depths(node, n, d), up, n, a) EXCEPT
           ![n].child[d] = node[a].child[o], ![n].up = a, ![a].child[o] = n, ![a].up = up]

\* n has become too deep on side d: its child there takes its place.
Rotate(node, n, d) ==
    LET o  == Opposite(d)
        a  == node[n].child[d]
        c  == node[a].child[o]
        up == node[n].up
        turned == [Replace(Depths(node, n, d), up, n, a) EXCEPT
                      ![n].child[d] = c, ![n].up = a, ![a].child[o] = n, ![a].up = up]
    IN IF c = Nil THEN turned ELSE [turned EXCEPT ![c].up = n]

\* The case in which a rotation would only turn the two nodes below n over.
Bent(node, n, d) ==
    LET a == node[n].child[d]
        c == node[a].child[Opposite(d)]
    IN /\ node[n].child[Opposite(d)] = Nil
       /\ node[a].child[d] = Nil
       /\ \A s \in Side : node[c].child[s] = Nil

Corrections == 7

\* Up from n to the top, with at most so many rotations: the nodes then.
Balance(node, n) ==
    LET Turn(s, i) ==
            LET left  == s.node[s.n].depth["left"]
                right == s.node[s.n].depth["right"]
                d     == IF left > right THEN "left" ELSE "right"
            IN IF s.n = Nil \/ s.corrections >= Corrections THEN s
               ELSE IF left - right \in -1 .. 1 THEN [s EXCEPT !.n = s.node[s.n].up]
               ELSE [s EXCEPT !.node = Rotate(s.node, s.n, d),
                              !.corrections = IF Bent(s.node, s.n, d) THEN Corrections ELSE @ + 1]
    IN FoldLeft(Turn, [node |-> node, n |-> n, corrections |-> 0],
                [i \in 1 .. Cardinality(DOMAIN node) + 2 * Corrections |-> i]).node

Topmost(node) == CHOOSE n \in DOMAIN node : node[n].up = Nil

\* HTBTree_add
AddTo(tree, e) ==
    IF tree.top = Nil
    THEN [top |-> e, node |-> [x \in {e} |-> Leaf(Nil)]]
    ELSE LET place == Place(tree.node, tree.top, e)
             f     == place[1]
             put   == [x \in DOMAIN tree.node \cup {e} |->
                          IF x = e THEN Leaf(f)
                          ELSE IF x = f THEN [tree.node[f] EXCEPT !.child[place[2]] = e]
                          ELSE tree.node[x]]
             node  == Balance(Deepen(put, f, e, 1), f)
         IN [top |-> Topmost(node), node |-> node]

\* HTBTree_next
NextOf(tree, n) ==
    LET leftmost[m \in DOMAIN tree.node] ==
            LET left == tree.node[m].child["left"]
            IN IF left = Nil THEN m ELSE leftmost[left]
        above[m \in DOMAIN tree.node] ==
            LET up == tree.node[m].up
            IN IF up # Nil /\ tree.node[up].child["right"] = m THEN above[up] ELSE up
    IN IF n = Nil THEN IF tree.top = Nil THEN Nil ELSE leftmost[tree.top]
       ELSE LET right == tree.node[n].child["right"]
            IN IF right # Nil THEN leftmost[right] ELSE above[n]

\* HTDirOutList: all that HTBTree_next comes to.
Listed(tree) ==
    FoldLeft(LAMBDA list, i :
                 LET next == NextOf(tree, IF list = <<>> THEN Nil ELSE Last(list))
                 IN IF next = Nil \/ (list # <<>> /\ Last(list) = Nil) THEN list
                    ELSE Append(list, next),
             <<>>, Times(tree.node))

-----------------------------------------------------------------------------
\* How deep the tree really is from n on.
Depth(tree, n) ==
    LET deep[m \in DOMAIN tree.node] ==
            LET Of(d) == IF tree.node[m].child[d] = Nil THEN 0 ELSE deep[tree.node[m].child[d]]
            IN 1 + IF Of("left") > Of("right") THEN Of("left") ELSE Of("right")
    IN IF n = Nil THEN 0 ELSE deep[n]
=============================================================================
