------------------------------ MODULE PaneEditing -----------------------------
(***************************************************************************)
(* Selections of sibling nodes and what the user can do to them: rotate,   *)
(* resize, equalize, move beside a target and swap with a target.          *)
(***************************************************************************)
EXTENDS PaneLayout, FiniteSetsExt

CONSTANT Step  \* the points one grow or shrink asks for (5 in the code)

ASSUME StepAssumption == Step \in 1..Full

-----------------------------------------------------------------------------
(* Selections *)

SelectionOf(l, anchor, active, nodes) ==
  [parent |-> l.up[anchor], anchor |-> anchor, active |-> active, nodes |-> nodes]

SingleSelection(l, n) == SelectionOf(l, n, n, <<n>>)

RangeSelection(l, anchor, active) ==
  LET p == l.up[anchor]
      a == ChildIndex(l, p, anchor)
      b == ChildIndex(l, p, active)
      first == IF a <= b THEN a ELSE b
      last == IF a <= b THEN b ELSE a
  IN  SelectionOf(l, anchor, active, SubSeq(KidNodes(l.kids[p]), first, last))

\* step: the active end moves to the neighbouring sibling, if there is one.
SteppedSelection(l, sel, toNext) ==
  LET kids == l.kids[sel.parent]
      i == ChildIndex(l, sel.parent, sel.active) + (IF toNext THEN 1 ELSE -1)
  IN  IF i \in DOMAIN kids THEN RangeSelection(l, sel.anchor, kids[i].node) ELSE sel

PromotedSelection(l, sel) ==
  IF l.up[sel.active] = NoNode THEN sel ELSE SingleSelection(l, l.up[sel.active])

DescendedSelection(l, sel) ==
  IF Len(sel.nodes) # 1 \/ IsLeaf(l, sel.nodes[1]) THEN sel
  ELSE SingleSelection(l, l.kids[sel.nodes[1]][1].node)

WholeLevel(l, sel) == Len(sel.nodes) = Len(l.kids[sel.parent])
IsContiguous(l, sel) ==
  /\ sel.parent \in DOMAIN l.kids
  /\ \E i, j \in DOMAIN l.kids[sel.parent] :
       sel.nodes = SubSeq(KidNodes(l.kids[sel.parent]), i, j)

-----------------------------------------------------------------------------
(* Rotation *)

ToggleAxes(l, S) ==
  [l EXCEPT !.axis = [s \in DOMAIN l.axis |-> IF s \in S THEN Across(l.axis[s]) ELSE l.axis[s]]]

\* rotate_split: every axis below s turns; s joins a parent it now agrees with.
RotateSplit(l, s) ==
  LET turned == ToggleAxes(l, Below(l, s))
      p == l.up[s]
  IN  IF p # NoNode /\ turned.axis[p] = turned.axis[s] THEN Flatten(turned, p) ELSE turned

\* rotate_sibling_range: the range becomes a group on the other axis.
RotateRange(l, sel) ==
  LET p == sel.parent
      g == FreshSplit(l)
      i == ChildIndex(l, p, sel.nodes[1])
      range == SubSeq(l.kids[p], i, i + Len(sel.nodes) - 1)
      group == Kid(g, Total(Weights(range)))
      turned == ToggleAxes(l, UNION {Below(l, n) : n \in ToSet(sel.nodes)})
      grouped == Adopt(turned, p, Replace(l.kids[p], i, Len(range), <<group>>))
  IN  [layout |-> NewSplit(grouped, g, Across(l.axis[p]), Normalized(range)), group |-> g]

SelectNodes(l, nodes, anchorFirst) ==
  IF Len(nodes) = 1 THEN SingleSelection(l, nodes[1])
  ELSE IF anchorFirst THEN RangeSelection(l, nodes[1], nodes[Len(nodes)])
       ELSE RangeSelection(l, nodes[Len(nodes)], nodes[1])

Rotated(l, sel) == [changed |-> TRUE, layout |-> l, selection |-> sel]

\* Mutant of RotateRangeLevel: the selection does not follow into the new group.
RotateRangeLevel_StaleSelection(l, sel) ==
  IF WholeLevel(l, sel)
  THEN LET turned == RotateSplit(l, sel.parent)
       IN  Rotated(turned, SelectNodes(turned, sel.nodes, sel.anchor = sel.nodes[1]))
  ELSE Rotated(RotateRange(l, sel).layout, sel)
RotateRangeLevel(l, sel) ==
  IF WholeLevel(l, sel)
  THEN LET turned == RotateSplit(l, sel.parent)
       IN  Rotated(turned, SelectNodes(turned, sel.nodes, sel.anchor = sel.nodes[1]))
  ELSE LET turned == RotateRange(l, sel)
       IN  Rotated(turned.layout, SingleSelection(turned.layout, turned.group))

RotateGroup(l, s) ==
  LET turned == RotateSplit(l, s)
  IN  Rotated(turned, IF l.up[s] = NoNode THEN SingleSelection(turned, s)
                      ELSE SelectNodes(turned, KidNodes(l.kids[s]), TRUE))

RotateLeafLevel(l, sel) ==
  LET turned == RotateSplit(l, sel.parent)
  IN  Rotated(turned, SelectNodes(turned, KidNodes(l.kids[sel.parent]), TRUE))

\* rotate_pane_selection_level
RotateLevel(l, sel) ==
  IF Len(sel.nodes) > 1 THEN RotateRangeLevel(l, sel)
  ELSE IF ~IsLeaf(l, sel.nodes[1]) THEN RotateGroup(l, sel.nodes[1])
  ELSE IF sel.parent # NoNode THEN RotateLeafLevel(l, sel)
  ELSE [changed |-> FALSE, layout |-> l, selection |-> sel]

-----------------------------------------------------------------------------
(* Resizing: each of these is the new layout, or l itself when nothing changes *)

SetShares(l, s, shares) ==
  [l EXCEPT !.kids[s] = WithShares(l.kids[s], Distribute(shares, Full))]

SelectedKids(l, sel) == Among(l.kids[sel.parent], ToSet(sel.nodes))
OtherKids(l, sel) ==
  Among(l.kids[sel.parent], ToSet(KidNodes(l.kids[sel.parent])) \ ToSet(sel.nodes))
SelectedTotal(l, sel) == Total(Weights(SelectedKids(l, sel)))

\* partition_selection, assign_at: the selection is a range, so the shares of
\* the others close around those of the selected children.
Assigned(l, sel, selectedShares, otherShares) ==
  Replace(otherShares, ChildIndex(l, sel.parent, sel.nodes[1]), 0, selectedShares)

Clamp(x) == IF x < 0 THEN 0 ELSE IF x > Full THEN Full ELSE x

\* resize_pane_selection
Resize(l, sel, delta) ==
  IF sel.parent = NoNode THEN l
  ELSE LET total == SelectedTotal(l, sel)
           resized == Clamp(total + delta)
       IN  IF WholeLevel(l, sel) \/ resized = total THEN l
           ELSE SetShares(l, sel.parent,
                  Assigned(l, sel, Distribute(Weights(SelectedKids(l, sel)), resized),
                           Distribute(Weights(OtherKids(l, sel)), Full - resized)))

\* equalize_split, equalize_pane_selection, equalize_pane_selection_level
EqualizeSplit(l, s) ==
  LET equal == EqualShares(Len(l.kids[s]))
  IN  IF equal = Weights(l.kids[s]) THEN l ELSE SetShares(l, s, equal)
EqualizeSelection(l, sel) ==
  IF Len(sel.nodes) = 1 /\ ~IsLeaf(l, sel.nodes[1]) THEN EqualizeSplit(l, sel.nodes[1])
  ELSE IF sel.parent = NoNode THEN l
  ELSE SetShares(l, sel.parent,
         Assigned(l, sel, Distribute([i \in DOMAIN sel.nodes |-> 1], SelectedTotal(l, sel)),
                  Weights(OtherKids(l, sel))))
EqualizeLevel(l, sel) ==
  IF sel.parent = NoNode THEN l ELSE EqualizeSplit(l, sel.parent)

-----------------------------------------------------------------------------
(* Moving and swapping *)

DropInsertion(direction) == IF direction \in {"LEFT", "UP"} THEN "BEFORE" ELSE "AFTER"

\* reorder_at_same_level
\* Mutant of Reorder: always before the target.
Reorder_Before(l, sel, target, insertion) ==
  LET rest == OtherKids(l, sel)
      t == CHOOSE i \in DOMAIN rest : rest[i].node = target
  IN  Adopt(l, sel.parent, Replace(rest, t, 0, SelectedKids(l, sel)))
Reorder(l, sel, target, insertion) ==
  LET p == sel.parent
      rest == OtherKids(l, sel)
      t == CHOOSE i \in DOMAIN rest : rest[i].node = target
      at == IF insertion = "AFTER" THEN t + 1 ELSE t
  IN  Adopt(l, p, Replace(rest, at, 0, SelectedKids(l, sel)))

\* extract: the node that moves, the split it left, and the layout without it.
Orphan(l, n) == [l EXCEPT !.up[n] = NoNode]
Extract(l, sel) ==
  LET p == sel.parent
      g == l.up[p]
      moved == SelectedKids(l, sel)
      rest == Normalized(OtherKids(l, sel))
      group == FreshSplit(l)
      shrunk == [l EXCEPT !.kids[p] = rest]
  IN  IF WholeLevel(l, sel)
      THEN [node |-> p, left |-> g,
            layout |-> Orphan([l EXCEPT !.kids[g] =
                                 Normalized(RemoveAt(l.kids[g], ChildIndex(l, g, p)))], p)]
      ELSE IF Len(moved) = 1
      THEN [node |-> sel.nodes[1], left |-> p, layout |-> Orphan(shrunk, sel.nodes[1])]
      ELSE [node |-> group, left |-> p,
            layout |-> [NewSplit(shrunk, group, l.axis[p], Normalized(moved))
                          EXCEPT !.up = Set(@, group, NoNode)]]

\* flatten_source_for_axis: the children the source brings along the axis.
SourceDissolves(l, n, axis) == ~IsLeaf(l, n) /\ l.axis[n] = axis
SourceKids(l, n, axis, share) ==
  IF SourceDissolves(l, n, axis) THEN ScaledTo(l.kids[n], share) ELSE <<Kid(n, share)>>
WithoutSource(l, n, axis) == IF SourceDissolves(l, n, axis) THEN Erase(l, {n}) ELSE l

\* insert_into_matching_split
InsertBeside(l, source, target, axis, insertion) ==
  LET p == l.up[target]
      i == ChildIndex(l, p, target)
      whole == l.kids[p][i].share
      first == EarlierHalf(whole)
      second == LaterHalf(whole)
      new == IF insertion = "BEFORE"
             THEN SourceKids(l, source, axis, first) \o <<Kid(target, second)>>
             ELSE <<Kid(target, first)>> \o SourceKids(l, source, axis, second)
  IN  Adopt(WithoutSource(l, source, axis), p, Replace(l.kids[p], i, 1, new))

\* wrap_target
WrapTarget(l, source, target, axis, insertion) ==
  LET w == FreshSplit(l)
      half == Full \div 2
      moved == SourceKids(l, source, axis, half)
      kids == IF insertion = "BEFORE" THEN moved \o <<Kid(target, half)>>
              ELSE <<Kid(target, half)>> \o moved
  IN  NewSplit(TakePlace(WithoutSource(l, source, axis), target, w), w, axis, kids)

InsertAtTarget(l, source, target, axis, insertion) ==
  IF l.up[target] # NoNode /\ l.axis[l.up[target]] = axis
  THEN InsertBeside(l, source, target, axis, insertion)
  ELSE WrapTarget(l, source, target, axis, insertion)

\* PaneLayoutMover::move.  A reorder that leaves the order as it was is no change.
StaysOnLevel(l, sel, target, direction) ==
  l.up[target] = sel.parent /\ l.axis[sel.parent] = AxisOf(direction)
Move(l, sel, target, direction) ==
  LET axis == AxisOf(direction)
      insertion == DropInsertion(direction)
      taken == Extract(l, sel)
  IN  IF StaysOnLevel(l, sel, target, direction) THEN Reorder(l, sel, target, insertion)
      ELSE DissolveIfUnary(InsertAtTarget(taken.layout, taken.node, target, axis, insertion),
                           taken.left)
MoveChanges(l, sel, target, direction) ==
  ~StaysOnLevel(l, sel, target, direction) \/ Move(l, sel, target, direction) # l

\* PaneLayoutMover::exchange_nodes.  Flattening the source's parent can erase
\* the target's parent, which the code then looks up: nodes.at() throws.
Exchanged(l, a, b) ==
  LET p == l.up[a] q == l.up[b]
      i == ChildIndex(l, p, a) j == ChildIndex(l, q, b)
      slots == [l EXCEPT !.kids[p][i].node = b]
  IN  [slots EXCEPT !.kids[q][j].node = a, !.up[a] = q, !.up[b] = p]
SwapThrows(l, a, b) == l.up[b] \in SameAxisKids(Exchanged(l, a, b), l.up[a])
Swap(l, a, b) ==
  LET once == Flatten(Exchanged(l, a, b), l.up[a])
  IN  IF l.up[a] = l.up[b] THEN once ELSE Flatten(once, l.up[b])

=============================================================================
