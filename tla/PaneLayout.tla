------------------------------ MODULE PaneLayout ------------------------------
(***************************************************************************)
(* The tree of panes of one tray and the operations on it: a translation   *)
(* of src/src/parent/pane (layout, percentages, selection, rotation,       *)
(* resizing, moving and swapping) to operators on a layout value.          *)
(*                                                                         *)
(* A leaf node and its pane are one value: the code creates the leaf       *)
(* together with the pane and never gives either a new partner.  A split   *)
(* node is a member of Split.  The code numbers nodes with a counter it    *)
(* never turns back; here a new split is any member of Split that no node  *)
(* is, which is a fresh identity up to renaming.                           *)
(***************************************************************************)
EXTENDS Integers, Sequences, FiniteSets, SequencesExt

CONSTANTS
  Pane,    \* the identities panes can have
  Split,   \* the identities splits can have
  NoNode,  \* the absent node
  Full     \* what the shares of a split add up to (100 in the code)

ASSUME SplitAssumption == Split \cap Pane = {}
ASSUME NoNodeAssumption == NoNode \notin Pane \cup Split
ASSUME FullAssumption == Full \in Nat \ {0} /\ Full % 2 = 0

Axis == {"LR", "TB"}
AxisOf(direction) == IF direction \in {"LEFT", "RIGHT"} THEN "LR" ELSE "TB"
Across(axis) == IF axis = "LR" THEN "TB" ELSE "LR"

\* The sequence s itself: \o <<>> only makes TLC tabulate it.
Table(s) == s \o <<>>

Kid(node, share) == [node |-> node, share |-> share]
Weights(kids) == [i \in DOMAIN kids |-> kids[i].share]
KidNodes(kids) == [i \in DOMAIN kids |-> kids[i].node]
Total(weights) ==
  LET sum[i \in 0..Len(weights)] == IF i = 0 THEN 0 ELSE sum[i - 1] + weights[i]
  IN  sum[Len(weights)]
\* The kids that stand for one of the nodes, in their order.
Among(kids, nodes) ==
  FlattenSeq([i \in DOMAIN kids |-> IF kids[i].node \in nodes THEN <<kids[i]>> ELSE <<>>])

-----------------------------------------------------------------------------
(* Percentages *)

\* Largest-remainder rounding; the earlier of two equal remainders wins.
RoundUp(base, left, spare) ==
  [i \in DOMAIN base |->
     base[i] + IF Cardinality({j \in DOMAIN base : left[j] > left[i] \/ (left[j] = left[i] /\ j < i)})
                    < spare THEN 1 ELSE 0]
Apportion(weights, sum, total) ==
  LET base == [i \in DOMAIN weights |-> (weights[i] * total) \div sum]
  IN  RoundUp(base, [i \in DOMAIN weights |-> (weights[i] * total) % sum], total - Total(base))

\* distribute_exact_total: weights that are all zero count as equal.
Distribute(weights, total) ==
  IF Total(weights) = 0 THEN Apportion([i \in DOMAIN weights |-> 1], Len(weights), total)
  ELSE Apportion(weights, Total(weights), total)

EqualShares(n) ==
  [i \in 1..n |-> (Full \div n) + (IF i <= Full % n THEN 1 ELSE 0)]

WithShares(kids, shares) == Table([i \in DOMAIN kids |-> Kid(kids[i].node, shares[i])])
ScaledTo(kids, total) == WithShares(kids, Distribute(Weights(kids), total))
\* Mutant of Normalized: the shares of the children that stay are left alone.
Normalized_Not(kids) == kids
Normalized(kids) == ScaledTo(kids, Full)

\* A share cut in two: the earlier half gets the odd point.
EarlierHalf(share) == (share + 1) \div 2
LaterHalf(share) == share \div 2

-----------------------------------------------------------------------------
(* Layouts *)

Keep(f, S) == [x \in DOMAIN f \cap S |-> f[x]]
Set(f, x, v) == [y \in DOMAIN f \cup {x} |-> IF y = x THEN v ELSE f[y]]
Replace(s, i, n, new) == SubSeq(s, 1, i - 1) \o new \o SubSeq(s, i + n, Len(s))

Single(pane) ==
  [root |-> pane, axis |-> <<>>, kids |-> <<>>, up |-> [n \in {pane} |-> NoNode]]

Nodes(l) == DOMAIN l.up
IsLeaf(l, n) == n \notin DOMAIN l.axis
ChildIndex(l, s, n) == CHOOSE i \in DOMAIN l.kids[s] : l.kids[s][i].node = n
FreshSplit(l) == CHOOSE s \in Split : s \notin Nodes(l)

Above(l, n) ==
  LET above[m \in Nodes(l)] ==
        IF l.up[m] = NoNode THEN {} ELSE {l.up[m]} \cup above[l.up[m]]
  IN  above[n]
Below(l, n) == {m \in Nodes(l) : m = n \/ n \in Above(l, m)}
Apart(l, m, n) == m # n /\ m \notin Above(l, n) /\ n \notin Above(l, m)

\* The leaves from left to right and from top to bottom.
LeavesFrom(l, n) ==
  LET leaves[m \in Nodes(l)] ==
        IF IsLeaf(l, m) THEN <<m>>
        ELSE FlattenSeq([i \in DOMAIN l.kids[m] |-> leaves[l.kids[m][i].node]])
  IN  leaves[n]
Leaves(l) == LeavesFrom(l, l.root)

Erase(l, S) ==
  [l EXCEPT !.axis = Keep(@, Nodes(l) \ S), !.kids = Keep(@, Nodes(l) \ S),
            !.up = Keep(@, Nodes(l) \ S)]

\* The kids become the children of split s.
Adopt(l, s, kids) ==
  LET nodes == ToSet(KidNodes(kids)) IN
  [l EXCEPT !.kids = Set(@, s, kids),
            !.up = [n \in Nodes(l) \cup nodes |-> IF n \in nodes THEN s ELSE l.up[n]]]

\* Node new takes the place of node old below old's parent, share included.
TakePlace(l, old, new) ==
  LET p == l.up[old]
      placed == [l EXCEPT !.up = Set(@, new, p)]
  IN  IF p = NoNode THEN [placed EXCEPT !.root = new]
      ELSE [placed EXCEPT !.kids[p][ChildIndex(l, p, old)].node = new]

NewSplit(l, s, axis, kids) == [Adopt(l, s, kids) EXCEPT !.axis = Set(@, s, axis)]

\* split_leaf
SplitLeaf(l, target, axis, pane, insertion) ==
  LET p == l.up[target]
      beside == p # NoNode /\ l.axis[p] = axis
      Pair(whole) ==
        LET first == EarlierHalf(whole) second == LaterHalf(whole) IN
        IF insertion = "BEFORE" THEN <<Kid(pane, first), Kid(target, second)>>
        ELSE <<Kid(target, first), Kid(pane, second)>>
  IN  IF beside
      THEN LET i == ChildIndex(l, p, target)
           IN  Adopt(l, p, Replace(l.kids[p], i, 1, Pair(l.kids[p][i].share)))
      ELSE LET s == FreshSplit(l) IN NewSplit(TakePlace(l, target, s), s, axis, Pair(Full))

\* dissolve_unary_split: the only child replaces its split; a child with the
\* grandparent's axis gives its own children to the grandparent.
Dissolve(l, s) ==
  LET c == l.kids[s][1].node
      g == l.up[s]
      i == ChildIndex(l, g, s)
      promotes == g # NoNode /\ ~IsLeaf(l, c) /\ l.axis[c] = l.axis[g]
  IN  IF promotes
      THEN Erase(Adopt(l, g, Replace(l.kids[g], i, 1, ScaledTo(l.kids[c], l.kids[g][i].share))),
                 {c, s})
      ELSE Erase(TakePlace(l, s, c), {s})

DissolveIfUnary(l, s) == IF Len(l.kids[s]) = 1 THEN Dissolve(l, s) ELSE l

\* remove_leaf: the pane that gets the focus, and the layout that is left.
NextFocus(l, leaf) ==
  LET leaves == Leaves(l)
      i == CHOOSE k \in DOMAIN leaves : leaves[k] = leaf
  IN  IF i < Len(leaves) THEN leaves[i + 1] ELSE leaves[i - 1]
RemoveLeaf(l, leaf) ==
  LET p == l.up[leaf]
      kept == Normalized(RemoveAt(l.kids[p], ChildIndex(l, p, leaf)))
  IN  DissolveIfUnary(Erase(Adopt(l, p, kept), {leaf}), p)

\* flatten_matching_split_children
\* Mutant of SameAxisKids: every child split counts.
SameAxisKids_AnyAxis(l, s) == {n \in ToSet(KidNodes(l.kids[s])) : ~IsLeaf(l, n)}
SameAxisKids(l, s) ==
  {n \in ToSet(KidNodes(l.kids[s])) : ~IsLeaf(l, n) /\ l.axis[n] = l.axis[s]}
\* Mutant of Flatten: the grandchildren are appended.
Flatten_AtTheEnd(l, s) ==
  LET same == SameAxisKids(l, s)
      Expand(kid) == IF kid.node \in same THEN ScaledTo(l.kids[kid.node], kid.share) ELSE <<>>
      grown == FlattenSeq([i \in DOMAIN l.kids[s] |-> Expand(l.kids[s][i])])
  IN  Erase(Adopt(l, s, Among(l.kids[s], ToSet(KidNodes(l.kids[s])) \ same) \o grown), same)
Flatten(l, s) ==
  LET same == SameAxisKids(l, s)
      Expand(kid) == IF kid.node \in same THEN ScaledTo(l.kids[kid.node], kid.share) ELSE <<kid>>
      kids == FlattenSeq([i \in DOMAIN l.kids[s] |-> Expand(l.kids[s][i])])
  IN  Erase(Adopt(l, s, kids), same)

=============================================================================
