----------------------------- MODULE PaneGeometry -----------------------------
(***************************************************************************)
(* Where the panes of a layout lie on the terminal, and which pane lies    *)
(* next to which (pane_geometry.cc, pane_navigation.cc).                   *)
(***************************************************************************)
EXTENDS PaneLayout, FiniteSetsExt

CONSTANT None  \* no pane, no selection, no move, no direction

Region(row, col, rows, cols) == [row |-> row, col |-> col, rows |-> rows, cols |-> cols]
Whole(sz) == Region(0, 0, sz.rows, sz.cols)
Visible(region) == region.rows > 0 /\ region.cols > 0

-----------------------------------------------------------------------------
(* Geometry *)

Extent(axis, region) == IF axis = "LR" THEN region.cols ELSE region.rows

\* The separators between n children: none when they do not fit.
\* Mutant of SeparatorCount: they are drawn whether they fit or not.
SeparatorCount_Always(n, extent) == n - 1
SeparatorCount(n, extent) == IF extent >= n - 1 THEN n - 1 ELSE 0

\* The part of region r that starts at the offset along the axis.
Part(axis, r, offset, extent) ==
  IF axis = "LR" THEN Region(r.row, r.col + offset, r.rows, extent)
  ELSE Region(r.row + offset, r.col, extent, r.cols)

ChildRegion(axis, r, extents, separators, i) ==
  Part(axis, r, Total(SubSeq(extents, 1, i - 1)) + (IF separators = 0 THEN 0 ELSE i - 1),
       extents[i])

\* calculate_pane_geometry
RegionBelow(l, p, r, n) ==
  LET separators == SeparatorCount(Len(l.kids[p]), Extent(l.axis[p], r))
  IN  ChildRegion(l.axis[p], r,
                  Distribute(Weights(l.kids[p]), Extent(l.axis[p], r) - separators),
                  separators, ChildIndex(l, p, n))
Regions(l, sz) ==
  LET region[n \in Nodes(l)] ==
        IF l.up[n] = NoNode THEN Whole(sz) ELSE RegionBelow(l, l.up[n], region[l.up[n]], n)
  IN  region

\* A separator follows its left or upper child, whose region is before.
SeparatorAfter(axis, r, before) ==
  IF axis = "LR" THEN Region(r.row, before.col + before.cols, r.rows, 1)
  ELSE Region(before.row + before.rows, r.col, 1, r.cols)
Separators(l, regions) ==
  UNION {{SeparatorAfter(l.axis[s], regions[s], regions[l.kids[s][i].node]) :
            i \in 1..SeparatorCount(Len(l.kids[s]), Extent(l.axis[s], regions[s]))} :
           s \in DOMAIN l.axis}

-----------------------------------------------------------------------------
(* Navigation *)

\* An interval [begin, end] of a region along an axis.
Interval(axis, r) == IF axis = "LR" THEN <<r.col, r.col + r.cols>> ELSE <<r.row, r.row + r.rows>>

Gap(a, b) == IF b[1] > a[2] THEN b[1] - a[2] ELSE IF a[1] > b[2] THEN a[1] - b[2] ELSE 0
CenterDistance(a, b) ==
  IF a[1] + a[2] >= b[1] + b[2] THEN a[1] + a[2] - b[1] - b[2] ELSE b[1] + b[2] - a[1] - a[2]

LiesToward(from, to, direction) ==
  IF direction \in {"LEFT", "UP"} THEN to[2] <= from[1] ELSE to[1] >= from[2]

\* score_candidate: the gap along the direction, the gap across it, and how far
\* the centres are apart across it.
ScoreOn(axis, from, to) ==
  <<Gap(Interval(axis, from), Interval(axis, to)),
    Gap(Interval(Across(axis), from), Interval(Across(axis), to)),
    CenterDistance(Interval(Across(axis), from), Interval(Across(axis), to))>>

Closer(s, t) ==
  \E i \in 1..3 : s[i] < t[i] /\ \A j \in 1..(i - 1) : s[j] = t[j]

\* The first of the candidates among the leaves with the best score.
First(leaves, candidates, score) ==
  IF candidates = {} THEN None
  ELSE leaves[CHOOSE i \in DOMAIN leaves :
         /\ leaves[i] \in candidates
         /\ \A j \in DOMAIN leaves :
              leaves[j] \in candidates =>
                /\ ~Closer(score[leaves[j]], score[leaves[i]])
                /\ j < i => score[leaves[j]] # score[leaves[i]]]

\* find_immediate_directional_pane: the closest visible leaf that lies that way,
\* the first in layout order among equals; None when there is none.
ClosestOf(leaves, regions, from, direction) ==
  LET axis == AxisOf(direction)
      LiesThere(n) ==
        /\ n # from /\ Visible(regions[n])
        /\ LiesToward(Interval(axis, regions[from]), Interval(axis, regions[n]), direction)
  IN  First(leaves, {n \in ToSet(leaves) : LiesThere(n)},
            [n \in ToSet(leaves) |-> ScoreOn(axis, regions[from], regions[n])])
Neighbour(l, sz, from, direction) == ClosestOf(Leaves(l), Regions(l, sz), from, direction)

\* find_directional_pane with an eligibility test: walks on from an ineligible leaf.
Walk(l, sz, from, direction, eligible) ==
  LET walk[k \in Nat] ==
        IF k = 0 THEN from
        ELSE IF walk[k - 1] = None \/ (k > 1 /\ walk[k - 1] \in eligible) THEN walk[k - 1]
        ELSE Neighbour(l, sz, walk[k - 1], direction)
  IN  walk[Len(Leaves(l))]
IfEligible(n, eligible) == IF n \in eligible THEN n ELSE None
EligibleNeighbour(l, sz, from, direction, eligible) ==
  IfEligible(Walk(l, sz, from, direction, eligible), eligible)

=============================================================================
