------------------------------ MODULE TrayPanes ------------------------------
(***************************************************************************)
(* The panes of one tray (src/src/parent/tray/tray.cc) under the pane      *)
(* commands, exits of their programs and resizes of the terminal: layout,  *)
(* focus, the maximized view, the selection and the two-stage move.        *)
(***************************************************************************)
EXTENDS PaneEditing, PaneGeometry

CONSTANT Sizes  \* the sizes the terminal takes, records [rows, cols]

\* sanitized_terminal_size (workspace_parent.cc:101) lets no empty size through.
ASSUME SizesAssumption == Sizes \subseteq [rows : Nat \ {0}, cols : Nat \ {0}]

Direction == {"LEFT", "RIGHT", "UP", "DOWN"}

VARIABLES
  layout,     \* the pane tree
  ptySize,    \* the live panes and the size each one's PTY was last given
  focused,    \* the focused pane
  maximized,  \* the focused pane covers the tray
  selection,  \* None or a selection of siblings
  session,    \* None or the move in progress
  size,       \* the terminal's size
  phase       \* "running", "exited" when every program ended, "failed" when an
              \* exception left the parent
vars == <<layout, ptySize, focused, maximized, selection, session, size, phase>>

panes == DOMAIN ptySize

Session == [source : [parent : Split \cup {NoNode}, anchor : Pane \cup Split,
                      active : Pane \cup Split, nodes : Seq(Pane \cup Split)],
            target : Pane \cup Split \cup {None}, stage : {"TARGET", "DROP"},
            operation : {"MOVE", "SWAP"}, drop : Direction \cup {None}]

-----------------------------------------------------------------------------
(* The operations of Tray *)

SelectionOrFocused == IF selection # None THEN selection ELSE SingleSelection(layout, focused)

AtLeastOne(n) == IF n < 1 THEN 1 ELSE n
\* Mutant of PtyOf: a region that was squeezed out leaves a PTY without rows.
PtyOf_Exact(region) == [rows |-> region.rows, cols |-> region.cols]
PtyOf(region) == [rows |-> AtLeastOne(region.rows), cols |-> AtLeastOne(region.cols)]

\* resize_panes: what it gives the PTYs of the live panes.
PtySizes(l, live, foc, max, sz) ==
  LET r == Regions(l, sz) IN
  [p \in live |-> IF max /\ p = foc THEN PtyOf(sz) ELSE PtyOf(r[p])]

\* The tray takes this layout, focus, view and size, and resizes its panes.
Arrange(l, live, foc, max, sz) ==
  /\ layout' = l
  /\ focused' = foc
  /\ maximized' = max
  /\ size' = sz
  /\ ptySize' = PtySizes(l, live, foc, max, sz)

StillRunning == phase = "running" /\ UNCHANGED phase
NoInteraction == selection' = None /\ session' = None
NoChange == UNCHANGED <<layout, ptySize, focused, maximized, size>>

Init ==
  /\ size \in Sizes
  /\ \E p \in Pane :
       /\ layout = Single(p)
       /\ ptySize = [q \in {p} |-> size]
       /\ focused = p
  /\ maximized = FALSE
  /\ selection = None
  /\ session = None
  /\ phase = "running"

\* split_focused_pane; the dispatcher always inserts after the focused pane.
SplitFocused(axis) ==
  \E p \in Pane \ panes :
    /\ StillRunning
    /\ Arrange(SplitLeaf(layout, focused, axis, p, "AFTER"), panes \cup {p}, p, FALSE, size)
    /\ NoInteraction

\* focus_pane_direction, focus_pane
\* Mutant of FocusPane: the new focus of a maximized tray keeps its old size.
FocusPane_Unsized(target) ==
  /\ target # None
  /\ NoInteraction
  /\ focused' = target
  /\ UNCHANGED <<layout, ptySize, maximized, size>>
FocusPane(target) ==
  /\ target # None
  /\ NoInteraction
  /\ IF maximized THEN Arrange(layout, panes, target, TRUE, size)
     ELSE focused' = target /\ UNCHANGED <<layout, ptySize, maximized, size>>
FocusDirection(direction) ==
  /\ StillRunning
  /\ session = None /\ selection = None
  /\ FocusPane(Neighbour(layout, size, focused, direction))

\* Mutant of CloseFocused: the selection outlives the pane.
CloseFocused_KeepsSelection ==
  /\ StillRunning
  /\ Cardinality(panes) > 1
  /\ Arrange(RemoveLeaf(layout, focused), panes \ {focused}, NextFocus(layout, focused),
             FALSE, size)
  /\ UNCHANGED selection
  /\ session' = None
CloseFocused ==
  /\ StillRunning
  /\ Cardinality(panes) > 1
  /\ Arrange(RemoveLeaf(layout, focused), panes \ {focused}, NextFocus(layout, focused),
             FALSE, size)
  /\ NoInteraction

\* reap_exited_panes, every program ended: the tray manager removes the tray.
ReapAll ==
  /\ phase = "running"
  /\ phase' = "exited"
  /\ UNCHANGED <<layout, ptySize, focused, maximized, selection, session, size>>

\* reap_exited_panes: the panes whose programs ended, in the order of the map
\* of panes, which is any order of these identities.
DropPane(state, p) ==
  [layout |-> RemoveLeaf(state.layout, p),
   focus |-> IF p = state.focus THEN NextFocus(state.layout, p) ELSE state.focus]
LiveFocus(after, gone) ==
  IF after.focus \in gone THEN Leaves(after.layout)[1] ELSE after.focus
ArrangeRest(after, gone) ==
  Arrange(after.layout, panes \ gone, LiveFocus(after, gone), FALSE, size)
Dropped(order) ==
  LET after[i \in 0..Len(order)] ==
        IF i = 0 THEN [layout |-> layout, focus |-> focused] ELSE DropPane(after[i - 1], order[i])
  IN  after[Len(order)]
Reap(order) ==
  /\ StillRunning
  /\ ArrangeRest(Dropped(order), ToSet(order))
  /\ NoInteraction

ToggleMaximized ==
  /\ StillRunning
  /\ Cardinality(panes) > 1
  /\ Arrange(layout, panes, focused, ~maximized, size)
  /\ NoInteraction

\* synchronize_active_tray_size_if_changed, Tray::resize
ResizeTray(sz) ==
  /\ StillRunning
  /\ sz # size
  /\ Arrange(layout, panes, focused, maximized, sz)
  /\ UNCHANGED <<selection, session>>

-----------------------------------------------------------------------------
(* Selection *)

\* Leaving the maximized view: the one part of the two toggles that resizes.
Restore == IF maximized THEN Arrange(layout, panes, focused, FALSE, size) ELSE NoChange

ToggleSelection ==
  /\ StillRunning
  /\ session = None
  /\ session' = None
  /\ \/ selection # None /\ selection' = None /\ NoChange
     \/ selection = None /\ selection' = SingleSelection(layout, focused) /\ Restore

AlongAxis(axis, direction) == AxisOf(direction) = axis
StepSelection(direction) ==
  /\ StillRunning
  /\ session = None /\ selection # None
  /\ selection.parent # NoNode
  /\ AlongAxis(layout.axis[selection.parent], direction)
  /\ selection' = SteppedSelection(layout, selection, DropInsertion(direction) = "AFTER")
  /\ selection'.active # selection.active
  /\ UNCHANGED session /\ NoChange

PromoteSelection ==
  /\ StillRunning
  /\ session = None /\ selection # None
  /\ selection' = PromotedSelection(layout, selection)
  /\ selection'.nodes # selection.nodes
  /\ UNCHANGED session /\ NoChange

DescendSelection ==
  /\ StillRunning
  /\ session = None /\ selection # None
  /\ selection' = DescendedSelection(layout, selection)
  /\ selection'.nodes # selection.nodes
  /\ UNCHANGED session /\ NoChange

\* resize_selected_panes and equalize_selected_panes end a move even when the
\* shares stay as they are.
Reshare(l) ==
  /\ StillRunning
  /\ session' = None
  /\ UNCHANGED selection
  /\ IF l # layout THEN Arrange(l, panes, focused, FALSE, size) ELSE NoChange

ResizeSelected(delta) == Reshare(Resize(layout, SelectionOrFocused, delta))
Equalize ==
  Reshare(IF selection # None THEN EqualizeSelection(layout, selection)
          ELSE EqualizeLevel(layout, SelectionOrFocused))

Rearrange(rotated) ==
  /\ selection' = IF selection # None THEN rotated.selection ELSE None
  /\ IF rotated.changed THEN Arrange(rotated.layout, panes, focused, FALSE, size) ELSE NoChange
Rotate ==
  /\ StillRunning
  /\ session' = None
  /\ Rearrange(RotateLevel(layout, SelectionOrFocused))

-----------------------------------------------------------------------------
(* Moving: choose a target, lock it, choose a side, confirm *)

BeginSession(source) ==
  [source |-> source, target |-> None, stage |-> "TARGET", operation |-> "MOVE", drop |-> None]

EligibleTarget(n) == \A s \in ToSet(session.source.nodes) : Apart(layout, s, n)

ToggleMove ==
  /\ StillRunning
  /\ \/ session # None /\ session' = None /\ UNCHANGED selection /\ NoChange
     \/ /\ session = None
        /\ Cardinality(panes) > 1
        /\ session' = BeginSession(SelectionOrFocused)
        /\ selection' = None
        /\ Restore

Choosing == StillRunning /\ session # None /\ session.stage = "TARGET"
SetSession(s) == session' = s /\ UNCHANGED selection /\ NoChange
SetTarget(n) == n # None /\ SetSession([session EXCEPT !.target = n])

StepTarget(direction) ==
  /\ Choosing
  /\ SetTarget(EligibleNeighbour(layout, size,
                  IF session.target = None THEN session.source.active ELSE session.target,
                  direction, {p \in panes : EligibleTarget(p)}))

PromoteTarget ==
  /\ Choosing /\ session.target # None
  /\ layout.up[session.target] # NoNode
  /\ EligibleTarget(layout.up[session.target])
  /\ SetTarget(layout.up[session.target])

DescendTarget ==
  /\ Choosing /\ session.target # None
  /\ ~IsLeaf(layout, session.target)
  /\ LET kids == KidNodes(layout.kids[session.target]) IN
     \E i \in DOMAIN kids :
       /\ EligibleTarget(kids[i]) /\ \A j \in 1..(i - 1) : ~EligibleTarget(kids[j])
       /\ SetTarget(kids[i])

ToggleSwap ==
  /\ Choosing
  /\ Len(session.source.nodes) = 1
  /\ SetSession([session EXCEPT !.operation = IF @ = "MOVE" THEN "SWAP" ELSE "MOVE"])

LockTarget ==
  /\ Choosing /\ session.operation = "MOVE"
  /\ session.target # None
  /\ SetSession([session EXCEPT !.stage = "DROP"])

SetDrop(direction) ==
  /\ StillRunning
  /\ session # None /\ session.stage = "DROP"
  /\ session.drop # direction
  /\ SetSession([session EXCEPT !.drop = direction])

\* preview: what confirming would make of the layout.
SwapPending == session # None /\ session.operation = "SWAP" /\ session.target # None
DropPending == session # None /\ session.stage = "DROP" /\ session.drop # None
PreviewThrows == SwapPending /\ SwapThrows(layout, session.source.nodes[1], session.target)
HasPreview ==
  \/ SwapPending
  \/ DropPending /\ MoveChanges(layout, session.source, session.target, session.drop)
Preview ==
  IF SwapPending THEN Swap(layout, session.source.nodes[1], session.target)
  ELSE Move(layout, session.source, session.target, session.drop)

\* render_layout draws the preview of the move, if there is one: what computing
\* it throws, nothing catches.
Fail ==
  /\ phase = "running"
  /\ PreviewThrows
  /\ phase' = "failed"
  /\ UNCHANGED <<layout, ptySize, focused, maximized, selection, session, size>>

ConfirmMove ==
  /\ StillRunning
  /\ HasPreview /\ ~PreviewThrows
  /\ Arrange(Preview, panes, focused, FALSE, size)
  /\ NoInteraction

\* The tray is gone or the parent ended.
Stopped == phase # "running" /\ UNCHANGED vars

Next ==
  \/ \E axis \in Axis : SplitFocused(axis)
  \/ \E direction \in Direction :
       \/ FocusDirection(direction)
       \/ StepSelection(direction)
       \/ StepTarget(direction)
       \/ SetDrop(direction)
  \/ CloseFocused
  \/ ReapAll
  \/ \E gone \in (SUBSET panes) \ {{}, panes} : \E order \in SetToSeqs(gone) : Reap(order)
  \/ ToggleMaximized
  \/ \E sz \in Sizes : ResizeTray(sz)
  \/ ToggleSelection
  \/ PromoteSelection
  \/ DescendSelection
  \/ \E delta \in {Step, -Step} : ResizeSelected(delta)
  \/ Equalize
  \/ Rotate
  \/ ToggleMove
  \/ PromoteTarget
  \/ DescendTarget
  \/ ToggleSwap
  \/ LockTarget
  \/ ConfirmMove
  \/ Fail
  \/ Stopped

Spec == Init /\ [][Next]_vars

-----------------------------------------------------------------------------
(* Properties *)

TypeOK ==
  /\ layout.root \in Pane \cup Split
  /\ layout.axis \in [DOMAIN layout.axis -> Axis]
  /\ layout.up \in [Nodes(layout) -> Split \cup {NoNode}]
  /\ ptySize \in [panes -> [rows : Nat \ {0}, cols : Nat \ {0}]]
  /\ focused \in Pane
  /\ maximized \in BOOLEAN
  /\ selection = None \/ selection.nodes \in Seq(Pane \cup Split)
  /\ session = None \/ session \in Session
  /\ size \in Sizes
  /\ phase \in {"running", "exited", "failed"}

\* Parent links and child lists agree, every node hangs below the root once,
\* every split has two children or more, and the leaves are the live panes.
LayoutIsTree ==
  /\ layout.up[layout.root] = NoNode
  /\ DOMAIN layout.kids = DOMAIN layout.axis
  /\ \A s \in DOMAIN layout.kids :
       /\ Len(layout.kids[s]) >= 2
       /\ \A kid \in ToSet(layout.kids[s]) : layout.up[kid.node] = s
  /\ \A n \in Nodes(layout) \ {layout.root} : layout.up[n] \in DOMAIN layout.kids
  /\ \A n \in Nodes(layout) : n = layout.root \/ layout.root \in Above(layout, n)
  /\ Len(Leaves(layout)) = Cardinality(panes)
  /\ ToSet(Leaves(layout)) = panes
  /\ Nodes(layout) = panes \cup DOMAIN layout.axis
  /\ focused \in panes

SharesAddUp ==
  \A s \in DOMAIN layout.kids :
    /\ Total(Weights(layout.kids[s])) = Full
    /\ \A kid \in ToSet(layout.kids[s]) : kid.share >= 0

\* Whatever was split, closed, rotated, resized, moved or swapped and whichever
\* programs ended, in any order, the layout is a tree of the live panes with the
\* focused one among them, and the shares of every split add up to the whole,
\* which calculate_pane_geometry demands or throws (pane_geometry.cc:14).
LayoutIsSound == LayoutIsTree /\ SharesAddUp

\* A selection names existing nodes that are neighbours below its parent, with
\* its anchor at one end and its active node at the other.
SelectionIsLive ==
  selection # None =>
    LET n == Len(selection.nodes) IN
    /\ ToSet(selection.nodes) \subseteq Nodes(layout)
    /\ {selection.anchor, selection.active} = {selection.nodes[1], selection.nodes[n]}
    /\ selection.parent = layout.up[selection.active]
    /\ selection.parent = NoNode => n = 1
    /\ selection.parent # NoNode => IsContiguous(layout, selection)

\* While a move is in progress its source is a live range and its target an
\* existing node that neither contains nor is contained in the source.
MoveEndsAreApart ==
  session # None =>
    /\ session.source.parent # NoNode => IsContiguous(layout, session.source)
    /\ ToSet(session.source.nodes) \subseteq Nodes(layout)
    /\ session.target # None => session.target \in Nodes(layout) /\ EligibleTarget(session.target)
    /\ session.operation = "SWAP" => Len(session.source.nodes) = 1

OneInteraction ==
  /\ ~(maximized /\ selection # None)
  /\ ~(maximized /\ session # None)
  /\ ~(selection # None /\ session # None)

\* No close, exit, rotation, resize or move leaves a selection or a move behind
\* that names nodes which are gone or stand elsewhere, so the checks of
\* PaneLayoutMover::validate and PaneSelection never throw (pane_move.cc,
\* pane_selection.cc); and of the maximized view, a selection and a move there
\* is only one, so each pane key has one meaning (parent_command_dispatcher.cc:134).
InteractionIsLive == SelectionIsLive /\ MoveEndsAreApart /\ OneInteraction

\* Every program's PTY has the size of the region its pane is drawn in, and the
\* focused one that of the tray while it is maximized: no path forgets
\* resize_panes (tray.cc:669).
PtySizesMatchLayout ==
  LET r == Regions(layout, size) IN
  \A p \in panes :
    ptySize[p] = IF maximized /\ p = focused THEN PtyOf(size) ELSE PtyOf(r[p])

Cells(r) == (r.row .. (r.row + r.rows - 1)) \X (r.col .. (r.col + r.cols - 1))
Overlap(x, y) == Cells(x) \cap Cells(y) # {}

\* The regions of the panes and the separators cover every cell of the tray
\* exactly once, also when the tray is too small for its separators
\* (pane_geometry.cc:61).
Tile(regions, lines) ==
  /\ UNION {Cells(x) : x \in {regions[p] : p \in panes} \cup lines} = Cells(Whole(size))
  /\ \A p, q \in panes : p # q => ~Overlap(regions[p], regions[q])
  /\ \A x, y \in lines : x # y => ~Overlap(x, y)
  /\ \A p \in panes, x \in lines : ~Overlap(regions[p], x)
RegionsTile ==
  Tile(Regions(layout, size), Separators(layout, Regions(layout, size)))

\* A split never has a child split with its own axis, as
\* plan/implementation/pane-story-plan.md:35 promises (pane_move.cc, wrap_target).
NoNestedAxis ==
  \A s, t \in DOMAIN layout.axis : layout.up[t] = s => layout.axis[t] # layout.axis[s]

\* An exception ends the parent only from a layout with a split nested in one
\* of its own axis: in every other layout each preview and each confirmed move
\* or swap succeeds (pane_move.cc, exchange_nodes).
FailsOnlyWhenNested == phase = "failed" => ~NoNestedAxis

\* Whatever the selection, rotating it twice gives back the same hierarchy,
\* axes and order (the percentages may be rounded), pane_rotate.cc.
Shape(l) ==
  LET shape[n \in Nodes(l)] ==
        IF IsLeaf(l, n) THEN <<n>>
        ELSE <<l.axis[n]>> \o [i \in DOMAIN l.kids[n] |-> shape[l.kids[n][i].node]]
  IN  shape[l.root]
RotatedAgain(once) == RotateLevel(once.layout, once.selection)
RotatingTwiceRestoresShape ==
  selection # None /\ NoNestedAxis =>
    Shape(RotatedAgain(RotateLevel(layout, selection)).layout) = Shape(layout)

\* p stands before q in this list of leaves; the members of S that follow each
\* other in the list before still do in the list after.
Precedes(leaves, p, q) ==
  \E i, j \in DOMAIN leaves : i < j /\ leaves[i] = p /\ leaves[j] = q
SameOrder(before, after, S) ==
  \A i, j \in DOMAIN before :
    i < j /\ {before[i], before[j]} \subseteq S => Precedes(after, before[i], before[j])

SourcePanes == UNION {ToSet(LeavesFrom(layout, n)) : n \in ToSet(session.source.nodes)}
TargetPanes == ToSet(LeavesFrom(layout, session.target))

\* The order of the panes a step neither opens, closes, moves nor swaps stays
\* what it was.
Untouched ==
  (panes \cap DOMAIN ptySize')
    \ (IF session = None THEN {}
       ELSE SourcePanes \cup (IF SwapPending THEN TargetPanes ELSE {}))
OthersKeepTheirOrder ==
  [][layout' # layout => SameOrder(Leaves(layout), Leaves(layout'), Untouched)]_vars

\* A confirmed move puts the source's panes directly on the chosen side of the
\* target's panes, with no other pane between them; a confirmed swap puts each
\* of the two where the other one stood.  Within the source, within the target
\* and among the others the order stays what it was.
Lands ==
  LET before == Leaves(layout)
      after == Leaves(layout')
      rest == panes \ (SourcePanes \cup TargetPanes)
  IN  /\ \A group \in {SourcePanes, TargetPanes, rest} : SameOrder(before, after, group)
      /\ \A p \in SourcePanes, q \in TargetPanes :
           IF session.operation = "SWAP"
           THEN /\ Precedes(after, p, q) <=> Precedes(before, q, p)
                /\ \A z \in rest : /\ Precedes(after, p, z) <=> Precedes(before, q, z)
                                   /\ Precedes(after, q, z) <=> Precedes(before, p, z)
           ELSE /\ IF DropInsertion(session.drop) = "BEFORE" THEN Precedes(after, p, q)
                   ELSE Precedes(after, q, p)
                /\ \A z \in rest : Precedes(after, z, p) <=> Precedes(after, z, q)
MovesLand == [][session # None /\ session' = None /\ ConfirmMove => Lands]_vars

=============================================================================
