--------------------------- MODULE TrayPanes_proofs ---------------------------
(***************************************************************************)
(* Proofs about TrayPanes, for any numbers of panes and splits and any     *)
(* sizes.  The first invariant (PanesInv) is about the PTYs' sizes and the *)
(* fields of a move, whatever an edit makes of the tree, so the operators  *)
(* of PaneLayout and PaneEditing stay folded.  The second one (TreeInv) is *)
(* about the tree, the selection and the ends of a move, and rests on the  *)
(* lemmas of PaneTree_proofs.  From it follow what holds of every state:   *)
(* the regions and separators tile the tray, and rotating twice gives back *)
(* the shape; and what every step does: it keeps the order of the panes it *)
(* has no business with, and a move or a swap puts the others in place.    *)
(***************************************************************************)
EXTENDS TrayPanes, PaneTree_proofs

\* Only a chosen target can be locked, only a locked one has a side to drop on,
\* a locked move is never a swap, and a swap has one node to exchange:
\* PaneMoveSession::preview dereferences all of these (pane_move_session.cc:117).
MoveHasWhatItNeeds ==
  session # None =>
    /\ session = [source |-> session.source, target |-> session.target,
                  stage |-> session.stage, operation |-> session.operation,
                  drop |-> session.drop]
    /\ session.stage \in {"TARGET", "DROP"}
    /\ session.operation \in {"MOVE", "SWAP"}
    /\ session.stage = "DROP" => session.target # None /\ session.operation = "MOVE"
    /\ session.stage = "TARGET" => session.drop = None
    /\ session.operation = "SWAP" => Len(session.source.nodes) = 1

PanesInv ==
  /\ maximized \in BOOLEAN
  /\ size \in Sizes
  /\ PtySizesMatchLayout
  /\ OneInteraction
  /\ MoveHasWhatItNeeds

-----------------------------------------------------------------------------
(* Sizes *)

\* calculate_pane_geometry gives the only leaf of a new layout the whole tray.
LEMMA SingleFillsTheTray ==
  ASSUME NEW p, NEW sz
  PROVE  Regions(Single(p), sz)[p] = Whole(sz)
<1> DEFINE all == [n \in {p} |-> Whole(sz)]
<1>1. Nodes(Single(p)) = {p} /\ Single(p).up[p] = NoNode
  BY DEF Nodes, Single
<1>2. all = [n \in Nodes(Single(p)) |->
               IF Single(p).up[n] = NoNode THEN Whole(sz)
               ELSE RegionBelow(Single(p), Single(p).up[n], all[Single(p).up[n]], n)]
  BY <1>1
<1> QED  BY <1>1, <1>2 DEF Regions

\* A PTY that has the whole tray has the tray's size, which is never empty.
LEMMA WholeTraySize ==
  ASSUME NEW sz \in Sizes
  PROVE  PtyOf(Whole(sz)) = sz
  BY SizesAssumption DEF PtyOf, Whole, Region, AtLeastOne

\* resize_panes leaves every PTY with the size of its region.
LEMMA ArrangeSizes ==
  ASSUME NEW l, NEW live, NEW foc, NEW max \in BOOLEAN, NEW sz \in Sizes,
         Arrange(l, live, foc, max, sz)
  PROVE  PtySizesMatchLayout' /\ maximized' = max /\ size' \in Sizes
  BY DEF Arrange, PtySizes, PtySizesMatchLayout, panes

\* A step that leaves layout, view and size alone leaves the sizes right.
LEMMA NoChangeSizes ==
  ASSUME PanesInv, NoChange
  PROVE  PtySizesMatchLayout' /\ maximized' = maximized /\ size' \in Sizes
  BY DEF PanesInv, NoChange, PtySizesMatchLayout, panes

\* A new tray has one pane, whose PTY was started with the tray's size.
LEMMA PanesInit == Init => PanesInv
<1> SUFFICES ASSUME Init PROVE PanesInv
  OBVIOUS
<1>1. /\ size \in Sizes /\ maximized = FALSE /\ selection = None /\ session = None
  BY DEF Init
<1>2. PICK p \in Pane : layout = Single(p) /\ ptySize = [q \in {p} |-> size] /\ focused = p
  BY DEF Init
<1>3. PtyOf(Regions(layout, size)[p]) = size
  BY <1>1, <1>2, SingleFillsTheTray, WholeTraySize
<1>4. PtySizesMatchLayout
  BY <1>1, <1>2, <1>3 DEF PtySizesMatchLayout, panes
<1> QED  BY <1>1, <1>4 DEF PanesInv, OneInteraction, MoveHasWhatItNeeds

-----------------------------------------------------------------------------
(* Steps that end every interaction *)

\* What resizes the panes and drops selection and move keeps the invariant.
LEMMA ArrangeAlone ==
  ASSUME NEW l, NEW live, NEW foc, NEW max \in BOOLEAN, NEW sz \in Sizes,
         Arrange(l, live, foc, max, sz), NoInteraction
  PROVE  PanesInv'
<1>1. PtySizesMatchLayout' /\ maximized' = max /\ size' \in Sizes
  BY ArrangeSizes
<1>2. selection' = None /\ session' = None
  BY DEF NoInteraction
<1> QED  BY <1>1, <1>2 DEF PanesInv, OneInteraction, MoveHasWhatItNeeds

\* split_focused_pane resizes the panes, the new one included.
LEMMA SplitKeeps ==
  ASSUME PanesInv, NEW axis, SplitFocused(axis) PROVE PanesInv'
<1>1. PICK p \in Pane \ panes :
        /\ Arrange(SplitLeaf(layout, focused, axis, p, "AFTER"), panes \cup {p}, p, FALSE, size)
        /\ NoInteraction
  BY DEF SplitFocused
<1>2. size \in Sizes
  BY DEF PanesInv
<1> QED  BY <1>1, <1>2, ArrangeAlone

\* focus_pane resizes the panes if the tray is maximized; if it is not, no size
\* depends on the focus.
LEMMA FocusKeeps ==
  ASSUME PanesInv, NEW direction, FocusDirection(direction) PROVE PanesInv'
<1>1. PICK target : FocusPane(target)
  BY DEF FocusDirection
<1>2. NoInteraction /\ size \in Sizes /\ maximized \in BOOLEAN
  BY <1>1 DEF FocusPane, PanesInv
<1>3. CASE maximized
  <2>1. Arrange(layout, panes, target, TRUE, size)
    BY <1>1, <1>3 DEF FocusPane
  <2> QED  BY <1>2, <2>1, ArrangeAlone
<1>4. CASE ~maximized
  <2>1. UNCHANGED <<layout, ptySize, maximized, size>>
    BY <1>1, <1>4 DEF FocusPane
  <2>2. PtySizesMatchLayout'
    BY <1>4, <2>1 DEF PanesInv, PtySizesMatchLayout, panes
  <2> QED
    BY <1>2, <2>1, <2>2 DEF PanesInv, OneInteraction, MoveHasWhatItNeeds, NoInteraction
<1> QED  BY <1>3, <1>4

\* close_focused_pane, toggle_focused_pane_maximized, advance_pane_move and
\* reap_exited_panes resize what is left and end the interaction.
LEMMA CloseKeeps ==
  ASSUME PanesInv, CloseFocused PROVE PanesInv'
<1>1. size \in Sizes
  BY DEF PanesInv
<1>2. /\ Arrange(RemoveLeaf(layout, focused), panes \ {focused}, NextFocus(layout, focused),
                 FALSE, size)
      /\ NoInteraction
  BY DEF CloseFocused
<1> QED  BY <1>1, <1>2, ArrangeAlone

\* reap_exited_panes resizes the panes that are left, in whatever order the
\* others are taken out.
LEMMA ReapKeeps ==
  ASSUME PanesInv, NEW order, Reap(order) PROVE PanesInv'
<1> DEFINE after == Dropped(order)
           gone == ToSet(order)
<1>1. size \in Sizes
  BY DEF PanesInv
<1>2. Arrange(after.layout, panes \ gone, LiveFocus(after, gone), FALSE, size) /\ NoInteraction
  BY DEF Reap, ArrangeRest
<1> QED  BY <1>1, <1>2, ArrangeAlone

\* toggle_focused_pane_maximized resizes the panes for the view it turns on or off.
LEMMA MaximizeKeeps ==
  ASSUME PanesInv, ToggleMaximized PROVE PanesInv'
<1>1. size \in Sizes /\ (~maximized) \in BOOLEAN
  BY DEF PanesInv
<1>2. Arrange(layout, panes, focused, ~maximized, size) /\ NoInteraction
  BY DEF ToggleMaximized
<1> QED  BY <1>1, <1>2, ArrangeAlone

\* advance_pane_move resizes the panes for the layout that the preview showed.
LEMMA ConfirmKeeps ==
  ASSUME PanesInv, ConfirmMove PROVE PanesInv'
<1>1. size \in Sizes
  BY DEF PanesInv
<1>2. Arrange(Preview, panes, focused, FALSE, size) /\ NoInteraction
  BY DEF ConfirmMove
<1> QED  BY <1>1, <1>2, ArrangeAlone

-----------------------------------------------------------------------------
(* Steps with an interaction *)

\* A resize of the terminal reaches every PTY and disturbs no interaction.
LEMMA ResizeTrayKeeps ==
  ASSUME PanesInv, NEW sz \in Sizes, ResizeTray(sz) PROVE PanesInv'
<1>1. maximized \in BOOLEAN
  BY DEF PanesInv
<1>2. Arrange(layout, panes, focused, maximized, sz) /\ UNCHANGED <<selection, session>>
  BY DEF ResizeTray
<1>3. PtySizesMatchLayout' /\ maximized' = maximized /\ size' \in Sizes
  BY <1>1, <1>2, ArrangeSizes
<1> QED  BY <1>2, <1>3 DEF PanesInv, OneInteraction, MoveHasWhatItNeeds

\* Leaving the maximized view gives the PTYs their regions back.
LEMMA RestoreSizes ==
  ASSUME PanesInv, Restore
  PROVE  PtySizesMatchLayout' /\ maximized' = FALSE /\ size' \in Sizes
<1>1. CASE maximized
  <2>1. Arrange(layout, panes, focused, FALSE, size) /\ size \in Sizes
    BY <1>1 DEF Restore, PanesInv
  <2> QED  BY <2>1, ArrangeSizes
<1>2. CASE ~maximized
  <2>1. NoChange /\ maximized = FALSE
    BY <1>2 DEF Restore, PanesInv
  <2> QED  BY <2>1, NoChangeSizes
<1> QED  BY <1>1, <1>2

\* toggle_pane_selection leaves the maximized view before it selects.
LEMMA ToggleSelectionKeeps ==
  ASSUME PanesInv, ToggleSelection PROVE PanesInv'
<1>1. session' = None
  BY DEF ToggleSelection
<1>2. CASE selection # None
  <2>1. selection' = None /\ NoChange
    BY <1>2 DEF ToggleSelection
  <2>2. PtySizesMatchLayout' /\ maximized' = maximized /\ size' \in Sizes
    BY <2>1, NoChangeSizes
  <2> QED  BY <1>1, <2>1, <2>2 DEF PanesInv, OneInteraction, MoveHasWhatItNeeds
<1>3. CASE selection = None
  <2>1. PtySizesMatchLayout' /\ maximized' = FALSE /\ size' \in Sizes
    BY <1>3, RestoreSizes DEF ToggleSelection
  <2> QED  BY <1>1, <2>1 DEF PanesInv, OneInteraction, MoveHasWhatItNeeds
<1> QED  BY <1>2, <1>3

\* step, promote and descend change the selection only, and there is one already.
LEMMA SelectingKeeps ==
  ASSUME PanesInv, session = None, selection # None, session' = session, NoChange
  PROVE  PanesInv'
<1>1. PtySizesMatchLayout' /\ maximized' = maximized /\ size' \in Sizes
  BY NoChangeSizes
<1> QED  BY <1>1 DEF PanesInv, OneInteraction, MoveHasWhatItNeeds

\* step_pane_selection
LEMMA StepSelectionKeeps ==
  ASSUME PanesInv, NEW direction, StepSelection(direction) PROVE PanesInv'
  BY SelectingKeeps DEF StepSelection

\* promote_pane_selection
LEMMA PromoteSelectionKeeps ==
  ASSUME PanesInv, PromoteSelection PROVE PanesInv'
  BY SelectingKeeps DEF PromoteSelection

\* descend_pane_selection
LEMMA DescendSelectionKeeps ==
  ASSUME PanesInv, DescendSelection PROVE PanesInv'
  BY SelectingKeeps DEF DescendSelection

\* New shares end a move and leave the maximized view if they change anything;
\* a selection exists only outside of that view.
LEMMA ReshareKeeps ==
  ASSUME PanesInv, NEW l, Reshare(l) PROVE PanesInv'
<1>1. session' = None /\ selection' = selection
  BY DEF Reshare
<1>2. /\ PtySizesMatchLayout' /\ size' \in Sizes
      /\ maximized' \in BOOLEAN /\ (maximized' => maximized)
  <2>1. CASE l # layout
    <3>1. Arrange(l, panes, focused, FALSE, size) /\ size \in Sizes
      BY <2>1 DEF Reshare, PanesInv
    <3>2. PtySizesMatchLayout' /\ maximized' = FALSE /\ size' \in Sizes
      BY <3>1, ArrangeSizes
    <3> QED  BY <3>2
  <2>2. CASE l = layout
    <3>1. PtySizesMatchLayout' /\ maximized' = maximized /\ size' \in Sizes
      BY <2>2, NoChangeSizes DEF Reshare
    <3> QED  BY <3>1 DEF PanesInv
  <2> QED  BY <2>1, <2>2
<1> QED  BY <1>1, <1>2 DEF PanesInv, OneInteraction, MoveHasWhatItNeeds

\* rotate_selected_pane_level makes a selection only out of a selection.
LEMMA RotateKeeps ==
  ASSUME PanesInv, Rotate PROVE PanesInv'
<1> DEFINE rotated == RotateLevel(layout, SelectionOrFocused)
<1>1. session' = None /\ Rearrange(rotated)
  BY DEF Rotate
<1> HIDE DEF rotated
<1>2. selection = None => selection' = None
  BY <1>1 DEF Rearrange
<1>3. /\ PtySizesMatchLayout' /\ size' \in Sizes
      /\ maximized' \in BOOLEAN /\ (maximized' => maximized)
  <2>1. CASE rotated.changed
    <3>1. Arrange(rotated.layout, panes, focused, FALSE, size) /\ size \in Sizes
      BY <1>1, <2>1 DEF Rearrange, PanesInv
    <3>2. PtySizesMatchLayout' /\ maximized' = FALSE /\ size' \in Sizes
      BY <3>1, ArrangeSizes
    <3> QED  BY <3>2
  <2>2. CASE ~rotated.changed
    <3>1. PtySizesMatchLayout' /\ maximized' = maximized /\ size' \in Sizes
      BY <1>1, <2>2, NoChangeSizes DEF Rearrange
    <3> QED  BY <3>1 DEF PanesInv
  <2> QED  BY <2>1, <2>2
<1> QED  BY <1>1, <1>2, <1>3 DEF PanesInv, OneInteraction, MoveHasWhatItNeeds

-----------------------------------------------------------------------------
(* The move *)

\* toggle_pane_move ends the move, or begins one without a target and without a
\* selection, outside of the maximized view.
LEMMA ToggleMoveKeeps ==
  ASSUME PanesInv, ToggleMove PROVE PanesInv'
<1>1. CASE session # None
  <2>1. session' = None /\ selection' = selection /\ NoChange
    BY <1>1 DEF ToggleMove
  <2>2. PtySizesMatchLayout' /\ maximized' = maximized /\ size' \in Sizes
    BY <2>1, NoChangeSizes
  <2> QED  BY <2>1, <2>2 DEF PanesInv, OneInteraction, MoveHasWhatItNeeds
<1>2. CASE session = None
  <2>1. /\ session' = BeginSession(SelectionOrFocused) /\ selection' = None
        /\ Restore
    BY <1>2 DEF ToggleMove
  <2>2. PtySizesMatchLayout' /\ maximized' = FALSE /\ size' \in Sizes
    BY <2>1, RestoreSizes
  <2>3. MoveHasWhatItNeeds'
    BY <2>1 DEF MoveHasWhatItNeeds, BeginSession
  <2> QED  BY <2>1, <2>2, <2>3 DEF PanesInv, OneInteraction
<1> QED  BY <1>1, <1>2

\* A step of the move that keeps what its stage needs keeps the rest: there is no
\* selection and no maximized view beside a move.
LEMMA MovingKeeps ==
  ASSUME PanesInv, session # None, NEW s, SetSession(s), MoveHasWhatItNeeds'
  PROVE  PanesInv'
<1>1. selection' = selection /\ NoChange
  BY DEF SetSession
<1>2. PtySizesMatchLayout' /\ maximized' = maximized /\ size' \in Sizes
  BY <1>1, NoChangeSizes
<1> QED  BY <1>1, <1>2 DEF PanesInv, OneInteraction

\* A target can be chosen as long as it is not locked.
LEMMA TargetKeeps ==
  ASSUME PanesInv, Choosing, NEW n, SetTarget(n) PROVE PanesInv'
<1>1. /\ session # None /\ session.stage = "TARGET" /\ n # None
      /\ session' = [session EXCEPT !.target = n]
      /\ SetSession([session EXCEPT !.target = n])
  BY DEF Choosing, SetTarget, SetSession
<1>2. MoveHasWhatItNeeds'
  BY <1>1 DEF PanesInv, MoveHasWhatItNeeds
<1> QED  BY <1>1, <1>2, MovingKeeps

\* step_pane_move_target
LEMMA StepTargetKeeps ==
  ASSUME PanesInv, NEW direction, StepTarget(direction) PROVE PanesInv'
<1>1. Choosing /\ \E n : SetTarget(n)
  BY DEF StepTarget
<1> QED  BY <1>1, TargetKeeps

\* promote_target
LEMMA PromoteTargetKeeps ==
  ASSUME PanesInv, PromoteTarget PROVE PanesInv'
<1>1. Choosing /\ \E n : SetTarget(n)
  BY DEF PromoteTarget
<1> QED  BY <1>1, TargetKeeps

\* descend_target
LEMMA DescendTargetKeeps ==
  ASSUME PanesInv, DescendTarget PROVE PanesInv'
<1>1. Choosing /\ \E n : SetTarget(n)
  BY DEF DescendTarget
<1> QED  BY <1>1, TargetKeeps

\* toggle_swap turns a move of one node, not yet locked, into a swap and back.
LEMMA ToggleSwapKeeps ==
  ASSUME PanesInv, ToggleSwap PROVE PanesInv'
<1> DEFINE other == IF session.operation = "MOVE" THEN "SWAP" ELSE "MOVE"
<1>1. /\ session # None /\ session.stage = "TARGET" /\ Len(session.source.nodes) = 1
      /\ session' = [session EXCEPT !.operation = other]
      /\ SetSession([session EXCEPT !.operation = other])
  BY DEF Choosing, ToggleSwap, SetSession
<1>2. MoveHasWhatItNeeds'
  BY <1>1 DEF PanesInv, MoveHasWhatItNeeds
<1> QED  BY <1>1, <1>2, MovingKeeps

\* lock_target locks the target of a move, never of a swap.
LEMMA LockKeeps ==
  ASSUME PanesInv, LockTarget PROVE PanesInv'
<1>1. /\ session # None /\ session.stage = "TARGET" /\ session.operation = "MOVE"
      /\ session.target # None
      /\ session' = [session EXCEPT !.stage = "DROP"]
      /\ SetSession([session EXCEPT !.stage = "DROP"])
  BY DEF Choosing, LockTarget, SetSession
<1>2. MoveHasWhatItNeeds'
  BY <1>1 DEF PanesInv, MoveHasWhatItNeeds
<1> QED  BY <1>1, <1>2, MovingKeeps

\* set_drop_direction picks a side of a locked target.
LEMMA DropKeeps ==
  ASSUME PanesInv, NEW direction, SetDrop(direction) PROVE PanesInv'
<1>1. /\ session # None /\ session.stage = "DROP"
      /\ session' = [session EXCEPT !.drop = direction]
      /\ SetSession([session EXCEPT !.drop = direction])
  BY DEF SetDrop, SetSession
<1>2. MoveHasWhatItNeeds'
  BY <1>1 DEF PanesInv, MoveHasWhatItNeeds
<1> QED  BY <1>1, <1>2, MovingKeeps

-----------------------------------------------------------------------------
(* The tray *)

\* The end of the tray or of the parent touches nothing of it.
LEMMA StillKeeps ==
  ASSUME PanesInv,
         UNCHANGED <<layout, ptySize, focused, maximized, selection, session, size>>
  PROVE  PanesInv'
<1>1. NoChange
  BY DEF NoChange
<1>2. PtySizesMatchLayout' /\ maximized' = maximized /\ size' \in Sizes
  BY <1>1, NoChangeSizes
<1> QED  BY <1>2 DEF PanesInv, OneInteraction, MoveHasWhatItNeeds

\* The inductive invariant of a tray's panes.
THEOREM PanesStayInOrder == Spec => []PanesInv
<1>1. ASSUME PanesInv, [Next]_vars PROVE PanesInv'
  <2>1. ASSUME NEW axis \in Axis, SplitFocused(axis) PROVE PanesInv'
    BY <1>1, <2>1, SplitKeeps
  <2>2. ASSUME NEW direction \in Direction,
               \/ FocusDirection(direction)
               \/ StepSelection(direction)
               \/ StepTarget(direction)
               \/ SetDrop(direction)
        PROVE  PanesInv'
    BY <1>1, <2>2, FocusKeeps, StepSelectionKeeps, StepTargetKeeps, DropKeeps
  <2>3. CASE CloseFocused
    BY <1>1, <2>3, CloseKeeps
  <2>4. ASSUME NEW order, Reap(order) PROVE PanesInv'
    BY <1>1, <2>4, ReapKeeps
  <2>5. CASE ToggleMaximized
    BY <1>1, <2>5, MaximizeKeeps
  <2>6. ASSUME NEW sz \in Sizes, ResizeTray(sz) PROVE PanesInv'
    BY <1>1, <2>6, ResizeTrayKeeps
  <2>7. CASE ToggleSelection \/ PromoteSelection \/ DescendSelection
    BY <1>1, <2>7, ToggleSelectionKeeps, PromoteSelectionKeeps, DescendSelectionKeeps
  <2>8. ASSUME NEW delta, ResizeSelected(delta) PROVE PanesInv'
    BY <1>1, <2>8, ReshareKeeps DEF ResizeSelected
  <2>9. CASE Equalize
    BY <1>1, <2>9, ReshareKeeps DEF Equalize
  <2>10. CASE Rotate
    BY <1>1, <2>10, RotateKeeps
  <2>11. CASE ToggleMove \/ PromoteTarget \/ DescendTarget \/ ToggleSwap \/ LockTarget
    BY <1>1, <2>11, ToggleMoveKeeps, PromoteTargetKeeps, DescendTargetKeeps,
       ToggleSwapKeeps, LockKeeps
  <2>12. CASE ConfirmMove
    BY <1>1, <2>12, ConfirmKeeps
  <2>13. CASE ReapAll \/ Fail \/ Stopped \/ UNCHANGED vars
    BY <1>1, <2>13, StillKeeps DEF ReapAll, Fail, Stopped, vars
  <2> QED
    BY <1>1, <2>1, <2>2, <2>3, <2>4, <2>5, <2>6, <2>7, <2>8, <2>9, <2>10, <2>11, <2>12,
       <2>13 DEF Next
<1> QED  BY PanesInit, <1>1, PTL DEF Spec

\* Every program's PTY has the size of the region its pane is drawn in, and the
\* focused one that of the tray while it is maximized: no path forgets
\* resize_panes (tray.cc:669).
THEOREM PtySizesStayRight == Spec => []PtySizesMatchLayout
<1>1. PanesInv => PtySizesMatchLayout
  BY DEF PanesInv
<1> QED  BY PanesStayInOrder, <1>1, PTL

\* Of the maximized view, a selection and a move there is only one, so each pane
\* key has one meaning (parent_command_dispatcher.cc:134), and a move that can be
\* confirmed has the target and the side that its preview dereferences.
THEOREM OneInteractionAtATime == Spec => [](OneInteraction /\ MoveHasWhatItNeeds)
<1>1. PanesInv => OneInteraction /\ MoveHasWhatItNeeds
  BY DEF PanesInv
<1> QED  BY PanesStayInOrder, <1>1, PTL

-----------------------------------------------------------------------------
(* A tree of the live panes *)

\* A tree of panes has the shape that the layout of a tray must have.
LEMMA TreeIsSound ==
  ASSUME Tree(layout, panes), focused \in panes
  PROVE  LayoutIsSound
<1> DEFINE l == layout u == layout.up
<1>1. Grove(l, {l.root}, {}) /\ Nodes(l) \cap Pane = panes
  BY DEF Tree
<1>2. /\ Nodes(l) = DOMAIN u /\ DOMAIN u \subseteq Pane \cup Split
         /\ DOMAIN l.kids = DOMAIN u \cap Split
      /\ DOMAIN l.axis = DOMAIN l.kids /\ {l.root} = {n \in DOMAIN u : u[n] = NoNode}
      /\ u \in [DOMAIN u -> DOMAIN l.kids \cup {NoNode}]
  BY <1>1, GroveParts
<1>3. ASSUME NEW s \in DOMAIN l.kids
      PROVE  /\ Len(l.kids[s]) >= 2
             /\ \A kid \in ToSet(l.kids[s]) : u[kid.node] = s /\ kid.share >= 0
             /\ Total(Weights(l.kids[s])) = Full
  <2> DEFINE K == l.kids[s]
  <2>1. /\ K \in Seq(KidRec) /\ Distinct(K) /\ NodesOf(K) = Children(u, s) /\ SumOf(K) = Full
        /\ Several(Children(u, s))
    BY <1>1, GroveKids
  <2> HIDE DEF K
  <2>2. Len(K) >= 2
    BY <2>1, KidsLength DEF Several
  <2>3. /\ DOMAIN K = 1 .. Len(K)
        /\ \A i \in 1 .. Len(K) : K[i].share \in Nat /\ K[i].node \in NodesOf(K)
    BY <2>1, KidsAt
  <2>4. \A i \in 1 .. Len(K) : u[K[i].node] = s /\ K[i].share >= 0
    <3>1. \A n \in NodesOf(K) : u[n] = s
      BY <2>1 DEF Children
    <3>2. \A x \in Nat : x >= 0
      OBVIOUS
    <3> QED BY <2>3, <3>1, <3>2
  <2>5. \A kid \in ToSet(K) : u[kid.node] = s /\ kid.share >= 0
    BY <2>3, <2>4 DEF ToSet
  <2> QED BY <2>1, <2>2, <2>5 DEF K, SumOf
<1>4. \A n \in Nodes(l) \ {l.root} : u[n] \in DOMAIN l.kids
  BY <1>2
<1>5. ASSUME NEW n \in Nodes(l), n # l.root PROVE l.root \in Above(l, n)
  <2>1. Links(u)
    BY <1>1, GroveLinks
  <2>2. u[n] # NoNode /\ u[n] \in DOMAIN u
    BY <1>2, <1>5, <2>1 DEF Links
  <2>3. Above(l, n) = Up(u, u[n])
    BY <1>1, <2>2, AboveIs
  <2>4. l.root \in Up(u, u[n])
    BY <1>2, <2>1, <2>2, UpToTheTop
  <2> QED BY <2>3, <2>4
<1>6. Len(Leaves(l)) = Cardinality(panes) /\ ToSet(Leaves(l)) = panes
  BY <1>1, LeavesAre
<1>7. u[l.root] = NoNode /\ Nodes(l) = panes \cup DOMAIN l.axis
  BY <1>1, <1>2
<1>8. LayoutIsTree
  BY <1>2, <1>3, <1>4, <1>5, <1>6, <1>7 DEF LayoutIsTree
<1>9. SharesAddUp
  BY <1>3 DEF SharesAddUp
<1> QED BY <1>8, <1>9 DEF LayoutIsSound

\* The layout and the focus after the first k panes were dropped.
Start == [layout |-> layout, focus |-> focused]
Drops(order, f, k) ==
  f = [i \in 0 .. k |-> IF i = 0 THEN Start ELSE DropPane(f[i - 1], order[i])]

\* The layouts that dropping one pane after the other goes through exist.
LEMMA DropsExist ==
  ASSUME NEW order, Len(order) \in Nat
  PROVE  \E f : Drops(order, f, Len(order))
<1> DEFINE Bad == {k \in 0 .. Len(order) : ~ \E f : Drops(order, f, k)}
<1>1. CASE Bad # {}
  <2>1. PICK m \in Bad : \A k \in Bad : m <= k
    <3>1. Bad \subseteq Nat
      OBVIOUS
    <3> HIDE DEF Bad
    <3> QED BY <1>1, <3>1, LeastElement
  <2>2. m # 0
    <3> DEFINE f == [i \in 0 .. 0 |-> Start]
    <3>1. f = [i \in 0 .. 0 |-> IF i = 0 THEN Start ELSE DropPane(f[i - 1], order[i])]
      OBVIOUS
    <3>2. Drops(order, f, 0)
      BY <3>1 DEF Drops
    <3> QED BY <3>2
  <2>3. m \in 0 .. Len(order) /\ m - 1 \in 0 .. Len(order) /\ ~(m <= m - 1)
    BY <2>2
  <2>4. m - 1 \notin Bad
    BY <2>1, <2>3
  <2>5. PICK g : Drops(order, g, m - 1)
    BY <2>3, <2>4
  <2> DEFINE f == [i \in 0 .. m |-> IF i = m THEN DropPane(g[m - 1], order[m]) ELSE g[i]]
  <2>6. ASSUME NEW i \in 0 .. m PROVE f[i] = IF i = 0 THEN Start ELSE DropPane(f[i - 1], order[i])
    <3>1. \A k \in 0 .. (m - 1) : f[k] = g[k]
      BY <2>3
    <3>2. f[m] = DropPane(g[m - 1], order[m])
      BY <2>3
    <3>3. \A k \in 0 .. (m - 1) : g[k] = IF k = 0 THEN Start ELSE DropPane(g[k - 1], order[k])
      BY <2>5 DEF Drops
    <3> HIDE DEF f
    <3>4. CASE i = m
      <4>1. m - 1 \in 0 .. (m - 1)
        BY <2>2, <2>3
      <4> QED BY <2>2, <3>1, <3>2, <3>4, <4>1
    <3>5. CASE i # m
      <4>1. i \in 0 .. (m - 1) /\ (i # 0 => i - 1 \in 0 .. (m - 1))
        BY <2>3, <3>5
      <4> QED BY <3>1, <3>3, <4>1
    <3> QED BY <3>4, <3>5
  <2>7. Drops(order, f, m)
    <3>1. f = [i \in 0 .. m |-> f[i]]
      OBVIOUS
    <3> HIDE DEF f
    <3>2. f = [i \in 0 .. m |-> IF i = 0 THEN Start ELSE DropPane(f[i - 1], order[i])]
      BY <2>6, <3>1
    <3> QED BY <3>2 DEF Drops
  <2> QED BY <2>1, <2>7
<1>2. CASE Bad = {}
  <2>1. Len(order) \in 0 .. Len(order)
    OBVIOUS
  <2> QED BY <1>2, <2>1
<1> QED BY <1>1, <1>2

\* These panes one after the other, none of them twice.
InARow(order, gone) ==
  /\ Len(order) \in Nat /\ \A i \in 1 .. Len(order) : order[i] \in gone \cap panes
  /\ \A i, j \in 1 .. Len(order) : i # j => order[i] # order[j]

\* A tree of the panes that are left after k of them, with the focus on one of those.
RestIsTree(order, f, k) ==
  LET rest == panes \ {order[i] : i \in 1 .. k}
  IN  Tree(f[k].layout, rest) /\ f[k].focus \in rest

\* The layouts that reap_exited_panes goes through are trees of the panes that are left at
\* that point, with the focus on one of them, in whatever order it takes the panes out, as
\* long as one is left.
LEMMA DroppedTrees ==
  ASSUME Tree(layout, panes), focused \in panes, NEW gone, NEW q \in panes, q \notin gone,
         NEW order, InARow(order, gone)
  PROVE  \E f : /\ Drops(order, f, Len(order)) /\ Dropped(order) = f[Len(order)]
                /\ \A k \in 0 .. Len(order) : RestIsTree(order, f, k)
<1> DEFINE n == Len(order)
           f == CHOOSE g : g
           = [i \in 0 .. n |-> IF i = 0 THEN Start ELSE DropPane(g[i - 1], order[i])]
           Rest(k) == panes \ {order[i] : i \in 1 .. k}
           Good(k) == Tree(f[k].layout, Rest(k)) /\ f[k].focus \in Rest(k)
           Bad == {k \in 0 .. n : ~Good(k)}
<1>a. /\ n \in Nat /\ \A i \in 1 .. n : order[i] \in gone \cap panes
      /\ \A i, j \in 1 .. n : i # j => order[i] # order[j]
  BY DEF InARow
<1>1. Drops(order, f, n)
  <2>1. \E g : g = [i \in 0 .. n |-> IF i = 0 THEN Start ELSE DropPane(g[i - 1], order[i])]
    BY <1>a, DropsExist DEF Drops
  <2> QED BY <2>1 DEF Drops
<1>2. Dropped(order) = f[n]
  BY DEF Dropped, Start
<1> HIDE DEF f
<1>3. \A i \in 0 .. n : f[i] = IF i = 0 THEN Start ELSE DropPane(f[i - 1], order[i])
  BY <1>1 DEF Drops
<1>4. Bad = {}
  <2> SUFFICES ASSUME Bad # {} PROVE FALSE
    OBVIOUS
  <2>1. PICK m \in Bad : \A k \in Bad : m <= k
    <3>1. Bad \subseteq Nat
      OBVIOUS
    <3> HIDE DEF Bad
    <3> QED BY <3>1, LeastElement
  <2>2. m # 0
    <3>1. f[0] = Start /\ Rest(0) = panes
      BY <1>3
    <3>2. Start.layout = layout /\ Start.focus = focused
      BY DEF Start
    <3> QED BY <3>1, <3>2
  <2>3. m \in 1 .. n /\ m - 1 \in 0 .. n /\ ~(m <= m - 1)
    BY <2>2
  <2>4. Good(m - 1)
    BY <2>1, <2>3
  <2> DEFINE state == f[m - 1] p == order[m] live == Rest(m - 1)
  <2>5. f[m] = DropPane(state, p)
    BY <1>3, <2>3
  <2>6. p \in live /\ q \in live /\ q # p /\ Rest(m) = live \ {p}
    <3>1. \A i \in 1 .. n : i \in 1 .. (m - 1) => i # m
      BY <2>3
    <3>2. \A i \in 1 .. (m - 1) : i \in 1 .. n /\ i \in 1 .. m
      BY <2>3
    <3>3. \A i \in 1 .. m : i \in 1 .. (m - 1) \/ i = m
      BY <2>3
    <3>4. m \in 1 .. n
      BY <2>3
    <3>5. p \in live /\ q \in live /\ q # p
      BY <1>a, <3>1, <3>2, <3>4
    <3>6. {order[i] : i \in 1 .. m} = {order[i] : i \in 1 .. (m - 1)} \cup {p}
      BY <3>2, <3>3, <3>4
    <3> QED BY <3>5, <3>6
  <2> HIDE DEF Rest
  <2>7. Tree(state.layout, live) /\ state.focus \in live
    BY <2>4
  <2> HIDE DEF state, p, live
  <2>8. /\ f[m].layout = RemoveLeaf(state.layout, p)
        /\ f[m].focus = IF p = state.focus THEN NextFocus(state.layout, p) ELSE state.focus
    BY <2>5 DEF DropPane
  <2>9. Tree(RemoveLeaf(state.layout, p), live \ {p})
    <3> DEFINE l == state.layout
    <3>1. Grove(l, {l.root}, {}) /\ Nodes(l) \cap Pane = live
      BY <2>7 DEF Tree
    <3>2. p \in DOMAIN l.up /\ p \in Pane
      BY <2>6, <3>1, GroveParts
    <3>3. l.up[p] # NoNode
      BY <2>6, <2>7, LonePane
    <3>4. LET m2 == RemoveLeaf(l, p) IN
          Grove(m2, {m2.root}, {}) /\ Nodes(m2) \cap Pane = (Nodes(l) \cap Pane) \ {p}
      BY <3>1, <3>2, <3>3, RemoveLeafGrove
    <3> QED BY <3>1, <3>4 DEF Tree
  <2>10. f[m].focus \in live \ {p}
    <3>1. CASE p = state.focus
      <4>1. NextFocus(state.layout, p) \in live \ {p}
        BY <2>6, <2>7, NextFocusIs
      <4> QED BY <2>8, <3>1, <4>1
    <3>2. CASE p # state.focus
      BY <2>7, <2>8, <3>2
    <3> QED BY <3>1, <3>2
  <2>11. Good(m)
    BY <2>6, <2>8, <2>9, <2>10
  <2> QED BY <2>1, <2>11
<1>5. \A k \in 0 .. n : RestIsTree(order, f, k)
  <2>1. \A k \in 0 .. n : Good(k)
    BY <1>4
  <2> QED BY <2>1 DEF RestIsTree
<1> HIDE DEF n
<1>6. Drops(order, f, n) /\ Dropped(order) = f[n] /\ \A k \in 0 .. n : RestIsTree(order, f, k)
  BY <1>1, <1>2, <1>5
<1> QED BY <1>6 DEF n

\* What is left in the end.
LEMMA DroppedTree ==
  ASSUME Tree(layout, panes), focused \in panes, NEW gone, NEW q \in panes, q \notin gone,
         NEW order, InARow(order, gone)
  PROVE  LET after == Dropped(order)
             rest == panes \ {order[i] : i \in 1 .. Len(order)}
         IN  Tree(after.layout, rest) /\ after.focus \in rest
<1>1. PICK f : /\ Dropped(order) = f[Len(order)]
               /\ \A k \in 0 .. Len(order) : RestIsTree(order, f, k)
  BY DroppedTrees
<1>2. Len(order) \in 0 .. Len(order)
  BY DEF InARow
<1>3. RestIsTree(order, f, Len(order))
  BY <1>1, <1>2
<1> QED BY <1>1, <1>3 DEF RestIsTree

-----------------------------------------------------------------------------
(* What holds of the panes between two steps *)

PtyRec == [rows : Nat \ {0}, cols : Nat \ {0}]

\* The layout is a tree of the live panes, each of which has a PTY with a size, and one
\* of which has the focus.
Settled == Tree(layout, panes) /\ focused \in panes /\ ptySize \in [panes -> PtyRec]

\* A move's source is a live range, its target a node apart from all of the source.
SessionOK(l, s) ==
  /\ SelOK(l, s.source)
  /\ s.target # None => s.target \in DOMAIN l.up
     /\ \A n \in ToSet(s.source.nodes) : Apart(l, n, s.target)
  /\ s.drop \in Direction \cup {None}

Picked == selection # None => SelOK(layout, selection)
Moving == session # None => SessionOK(layout, session)
PhaseOK == phase \in {"running", "exited", "failed"} /\ FailsOnlyWhenNested

\* The inductive invariant of the layout.
TreeInv == Settled /\ Picked /\ Moving /\ PhaseOK

\* What a settled layout says of the parts that an edit needs.
LEMMA SettledParts ==
  ASSUME Settled
  PROVE  /\ Grove(layout, {layout.root}, {}) /\ Nodes(layout) \cap Pane = panes
            /\ Nodes(layout) = DOMAIN layout.up
         /\ panes \subseteq DOMAIN layout.up /\ panes \subseteq Pane /\ focused \in panes
         /\ focused \in DOMAIN layout.up /\ IsFiniteSet(panes)
<1>1. Grove(layout, {layout.root}, {}) /\ Nodes(layout) \cap Pane = panes /\ focused \in panes
  BY DEF Settled, Tree
<1>2. Nodes(layout) = DOMAIN layout.up
  BY <1>1, GroveParts
<1>3. IsFiniteSet(panes)
  BY <1>1, LeavesAre
<1> QED BY <1>1, <1>2, <1>3

\* A PTY has at least one row and one column.
LEMMA PtyOfIs ==
  ASSUME NEW r, r.rows \in Nat, r.cols \in Nat
  PROVE  PtyOf(r) \in PtyRec
<1>1. \A x \in Nat : AtLeastOne(x) \in Nat \ {0}
  BY DEF AtLeastOne
<1> QED BY <1>1 DEF PtyOf, PtyRec

\* Resizing the panes of a tree settles them.
LEMMA ArrangeSettles ==
  ASSUME NEW l, NEW live, Tree(l, live), NEW foc \in live, NEW max, NEW sz \in Sizes,
         Arrange(l, live, foc, max, sz)
  PROVE  Settled' /\ layout' = l /\ panes' = live
<1>1. /\ layout' = l /\ focused' = foc /\ ptySize' = PtySizes(l, live, foc, max, sz)
  BY DEF Arrange
<1> DEFINE R == Regions(l, sz)
<1>2. ptySize' = [p \in live |-> IF max /\ p = foc THEN PtyOf(sz) ELSE PtyOf(R[p])]
  BY <1>1 DEF PtySizes
<1>3. sz.rows \in Nat /\ sz.cols \in Nat /\ sz \in [rows : Nat, cols : Nat]
  BY SizesAssumption
<1>4. \A p \in live : R[p].rows \in Nat /\ R[p].cols \in Nat
  <2>1. Grove(l, {l.root}, {}) /\ Nodes(l) \cap Pane = live
    BY DEF Tree
  <2>2. Nodes(l) = DOMAIN l.up
    BY <2>1, GroveParts
  <2>3. \A p \in DOMAIN l.up : R[p] \in RegionRec
    BY <1>3, <2>1, RegionsAre
  <2>4. \A r \in RegionRec : r.rows \in Nat /\ r.cols \in Nat
    BY DEF RegionRec
  <2> HIDE DEF R
  <2> QED BY <2>1, <2>2, <2>3, <2>4
<1> HIDE DEF R
<1>5. \A p \in live : PtyOf(R[p]) \in PtyRec
  BY <1>4, PtyOfIs
<1>6. PtyOf(sz) \in PtyRec
  BY <1>3, PtyOfIs
<1>7. ptySize' \in [live -> PtyRec] /\ DOMAIN ptySize' = live
  BY <1>2, <1>5, <1>6
<1>8. panes' = live
  BY <1>7 DEF panes
<1>9. Tree(layout, panes)'
  BY <1>1, <1>8 DEF Tree, Nodes
<1> QED BY <1>1, <1>7, <1>8, <1>9 DEF Settled

\* What leaves layout, sizes and focus alone leaves them settled.
LEMMA NoChangeSettles ==
  ASSUME Settled, NoChange
  PROVE  Settled' /\ layout' = layout /\ panes' = panes
  BY DEF NoChange, Settled, panes, Tree, Nodes

\* Leaving the maximized view leaves the layout as it is.
LEMMA RestoreSettles ==
  ASSUME Settled, size \in Sizes, Restore
  PROVE  Settled' /\ layout' = layout /\ panes' = panes
<1>1. CASE maximized
  <2>1. Arrange(layout, panes, focused, FALSE, size)
    BY <1>1 DEF Restore
  <2>2. Tree(layout, panes) /\ focused \in panes
    BY DEF Settled
  <2> QED BY <2>1, <2>2, ArrangeSettles
<1>2. CASE ~maximized
  <2>1. NoChange
    BY <1>2 DEF Restore
  <2> QED BY <2>1, NoChangeSettles
<1> QED BY <1>1, <1>2

\* A running parent has not failed.
LEMMA RunningIsOK == ASSUME StillRunning PROVE PhaseOK'
  BY DEF StillRunning, PhaseOK, FailsOnlyWhenNested

\* A new tray has one pane.
LEMMA TreeInit == Init => TreeInv
<1> SUFFICES ASSUME Init PROVE TreeInv
  OBVIOUS
<1>1. size \in Sizes /\ selection = None /\ session = None /\ phase = "running"
  BY DEF Init
<1>2. PICK p \in Pane : layout = Single(p) /\ ptySize = [q \in {p} |-> size] /\ focused = p
  BY DEF Init
<1> DEFINE u == [n \in {p} |-> NoNode]
<1>3. Single(p) = Lay(p, <<>>, <<>>, u)
  BY DEF Single, Lay
<1>4. Forest(p, <<>>, <<>>, u, {p}, {})
  <2>1. DOMAIN u = {p} /\ IsFiniteSet({p}) /\ p \notin Split
    BY SplitAssumption, FS_Singleton
  <2>2. DOMAIN <<>> = {}
    OBVIOUS
  <2>3. <<>> \in [DOMAIN <<>> -> Axis]
    BY <2>2
  <2>4. u \in [DOMAIN u -> DOMAIN <<>> \cup {NoNode}] /\ {p} = {n \in DOMAIN u : u[n] = NoNode}
    OBVIOUS
  <2>5. Rooted(u)
    <3>1. NoNode # p
      BY NoNodeAssumption
    <3>2. ASSUME NEW C \in SUBSET DOMAIN u, \A n \in C : u[n] \in C PROVE C = {}
      BY <2>1, <3>1, <3>2
    <3> QED BY <3>2 DEF Rooted
  <2> HIDE DEF u
  <2>6. DOMAIN u \subseteq Pane \cup Split /\ DOMAIN <<>> = DOMAIN u \cap Split
    BY <2>1, <2>2
  <2> QED BY <2>1, <2>2, <2>3, <2>4, <2>5, <2>6 DEF Forest
<1>5. Grove(layout, {layout.root}, {}) /\ layout.up = u
  <2>1. Grove(Lay(p, <<>>, <<>>, u), {p}, {})
    BY <1>4, GroveOf
  <2>2. layout.root = p /\ layout.up = u
    BY <1>2, <1>3, LayParts
  <2> QED BY <1>2, <1>3, <2>1, <2>2
<1>6. panes = {p} /\ Nodes(layout) = {p}
  BY <1>2, <1>5 DEF panes, Nodes
<1>7. ptySize \in [panes -> PtyRec]
  <2>1. size \in PtyRec
    BY <1>1, SizesAssumption DEF PtyRec
  <2> QED BY <1>2, <1>6, <2>1
<1>8. Settled
  <2>1. Nodes(layout) \cap Pane = panes
    BY <1>6
  <2> QED BY <1>2, <1>5, <1>6, <1>7, <2>1 DEF Settled, Tree
<1> QED BY <1>1, <1>8 DEF TreeInv, Picked, Moving, PhaseOK, FailsOnlyWhenNested

-----------------------------------------------------------------------------
(* Steps that end every interaction *)

\* What resizes the panes of a tree and drops selection and move keeps the invariant.
LEMMA SettledAlone ==
  ASSUME NEW l, NEW live, Tree(l, live), NEW foc \in live, NEW max, NEW sz \in Sizes,
         Arrange(l, live, foc, max, sz),
         NoInteraction, StillRunning
  PROVE  TreeInv'
<1>1. Settled'
  BY ArrangeSettles
<1>2. selection' = None /\ session' = None /\ PhaseOK'
  BY RunningIsOK DEF NoInteraction
<1> QED BY <1>1, <1>2 DEF TreeInv, Picked, Moving

\* split_leaf adds a pane to the tree.
LEMMA SplitLeafTree ==
  ASSUME SplitsNeverRunOut, NEW l, NEW live, Tree(l, live), NEW target \in live,
         NEW axis \in Axis,
         NEW p \in Pane, p \notin live, NEW insertion
  PROVE  Tree(SplitLeaf(l, target, axis, p, insertion), live \cup {p})
<1>1. Grove(l, {l.root}, {}) /\ Nodes(l) \cap Pane = live
  BY DEF Tree
<1>2. target \in DOMAIN l.up /\ p \notin DOMAIN l.up
  BY <1>1, GroveParts
<1>a. Grove(l, {l.root}, {})
  BY <1>1
<1>d. \A t, q, a, i : Grove(l, {l.root}, {}) /\ SplitsNeverRunOut /\ t \in DOMAIN l.up
      /\ a \in Axis /\ q \in Pane /\ q \notin DOMAIN l.up =>
      LET x == SplitLeaf(l, t, a, q, i) IN
      Grove(x, {x.root}, {}) /\ Nodes(x) \cap Pane = (Nodes(l) \cap Pane) \cup {q}
  BY SplitLeafGrove
<1>e. LET x == SplitLeaf(l, target, axis, p, insertion) IN
      Grove(x, {x.root}, {}) /\ Nodes(x) \cap Pane = (Nodes(l) \cap Pane) \cup {p}
  BY <1>a, <1>2, <1>d
<1> QED BY <1>1, <1>e DEF Tree

\* split_focused_pane
LEMMA SplitTree ==
  ASSUME SplitsNeverRunOut, TreeInv, size \in Sizes, NEW axis \in Axis, SplitFocused(axis)
  PROVE  TreeInv'
<1>1. PICK p \in Pane \ panes :
        /\ StillRunning /\ NoInteraction
        /\ Arrange(SplitLeaf(layout, focused, axis, p, "AFTER"), panes \cup {p}, p, FALSE, size)
  BY DEF SplitFocused
<1> DEFINE m == SplitLeaf(layout, focused, axis, p, "AFTER")
<1>2. Tree(layout, panes) /\ focused \in panes
  BY DEF TreeInv, Settled
<1>3. p \in Pane /\ p \notin panes
  OBVIOUS
<1>4. Tree(m, panes \cup {p})
  BY <1>2, <1>3, SplitLeafTree
<1> HIDE DEF m
<1> QED BY <1>1, <1>4, SettledAlone DEF m

\* focus_pane_direction finds a pane of the layout.
LEMMA FocusTree ==
  ASSUME TreeInv, size \in Sizes, NEW direction, FocusDirection(direction)
  PROVE  TreeInv'
<1> DEFINE target == Neighbour(layout, size, focused, direction)
<1>1. StillRunning /\ FocusPane(target)
  BY DEF FocusDirection
<1>2. Settled /\ Tree(layout, panes) /\ focused \in DOMAIN layout.up
  BY SettledParts DEF TreeInv, Settled
<1>3. target \in panes \cup {None}
  <2>1. size \in [rows : Nat, cols : Nat]
    BY SizesAssumption
  <2> QED BY <1>2, <2>1, NeighbourIs
<1> HIDE DEF target
<1>4. NoInteraction /\ target \in panes
  BY <1>1, <1>3 DEF FocusPane
<1>5. CASE maximized
  <2>1. Arrange(layout, panes, target, TRUE, size)
    BY <1>1, <1>5 DEF FocusPane
  <2> QED BY <1>1, <1>2, <1>4, <2>1, SettledAlone
<1>6. CASE ~maximized
  <2>1. focused' = target /\ UNCHANGED <<layout, ptySize>>
    BY <1>1, <1>6 DEF FocusPane
  <2>2. Settled'
    BY <1>2, <1>4, <2>1 DEF Settled, Tree, panes, Nodes
  <2>3. selection' = None /\ session' = None /\ PhaseOK'
    BY <1>1, <1>4, RunningIsOK DEF NoInteraction
  <2> QED BY <2>2, <2>3 DEF TreeInv, Picked, Moving
<1> QED BY <1>5, <1>6

\* close_focused_pane takes out a pane that is not the only one.
LEMMA CloseTree ==
  ASSUME TreeInv, size \in Sizes, CloseFocused
  PROVE  TreeInv'
<1> DEFINE m == RemoveLeaf(layout, focused) next == NextFocus(layout, focused)
<1>1. /\ StillRunning /\ NoInteraction /\ Cardinality(panes) > 1
      /\ Arrange(m, panes \ {focused}, next, FALSE, size)
  BY DEF CloseFocused
<1>2. /\ Grove(layout, {layout.root}, {}) /\ focused \in panes /\ focused \in Pane
      /\ focused \in DOMAIN layout.up /\ Nodes(layout) \cap Pane = panes /\ Tree(layout, panes)
  BY SettledParts DEF TreeInv, Settled
<1>3. PICK other \in panes : other # focused
  <2>1. panes # {focused}
    <3>1. Cardinality({focused}) = 1
      BY FS_Singleton
    <3> QED BY <1>1, <3>1
  <2> QED BY <1>2, <2>1
<1>4. layout.up[focused] # NoNode
  BY <1>2, <1>3, LonePane
<1>5. Grove(m, {m.root}, {}) /\ Nodes(m) \cap Pane = (Nodes(layout) \cap Pane) \ {focused}
  BY <1>2, <1>4, RemoveLeafGrove
<1>6. next \in panes \ {focused}
  BY <1>2, <1>3, NextFocusIs
<1> HIDE DEF m, next
<1>7. Tree(m, panes \ {focused})
  BY <1>2, <1>5 DEF Tree
<1> QED BY <1>1, <1>6, <1>7, SettledAlone

\* reap_exited_panes takes out the panes whose programs ended as long as one goes on.
LEMMA ReapTree ==
  ASSUME TreeInv, size \in Sizes, NEW gone \in SUBSET panes, gone # panes,
         NEW order \in SetToSeqs(gone), Reap(order)
  PROVE  TreeInv'
<1> DEFINE after == Dropped(order) out == ToSet(order)
           rest == panes \ {order[i] : i \in 1 .. Len(order)}
           next == LiveFocus(after, out)
<1>1. StillRunning /\ NoInteraction /\ Arrange(after.layout, panes \ out, next, FALSE, size)
  BY DEF Reap, ArrangeRest
<1>2. Tree(layout, panes) /\ focused \in panes /\ IsFiniteSet(panes)
  BY SettledParts DEF TreeInv, Settled
<1>3. Cardinality(gone) \in Nat
  BY <1>2, FS_Subset, FS_CardinalityType
<1>4. /\ order \in [1 .. Cardinality(gone) -> gone]
      /\ \A i, j \in 1 .. Cardinality(gone) : i # j => order[i] # order[j]
  BY DEF SetToSeqs
<1>5. Len(order) = Cardinality(gone) /\ DOMAIN order = 1 .. Len(order)
  <2>1. order \in Seq(gone) /\ Len(order) = Cardinality(gone)
    BY <1>3, <1>4, ListOf
  <2> QED BY <1>4, <2>1
<1>6. PICK q \in panes : q \notin gone
  OBVIOUS
<1>7. Tree(after.layout, rest) /\ after.focus \in rest
  <2>1. Len(order) \in Nat /\ \A i \in 1 .. Len(order) : order[i] \in gone \cap panes
    BY <1>3, <1>4, <1>5
  <2>2. \A i, j \in 1 .. Len(order) : i # j => order[i] # order[j]
    BY <1>4, <1>5
  <2>5. InARow(order, gone)
    BY <2>1, <2>2 DEF InARow
  <2>3. Tree(layout, panes) /\ focused \in panes
    BY <1>2
  <2> HIDE DEF rest, after
  <2>4. LET x == Dropped(order)
            y == panes \ {order[i] : i \in 1 .. Len(order)}
        IN  Tree(x.layout, y) /\ x.focus \in y
    BY <1>6, <2>3, <2>5, DroppedTree
  <2> QED BY <2>4 DEF rest, after
<1> HIDE DEF after
<1>8. rest = panes \ out
  BY <1>5 DEF ToSet
<1>9. next \in panes \ out
  BY <1>7, <1>8 DEF LiveFocus
<1> HIDE DEF rest, out, next
<1> QED BY <1>1, <1>7, <1>8, <1>9, SettledAlone

\* toggle_focused_pane_maximized leaves the layout as it is.
LEMMA MaximizeTree ==
  ASSUME TreeInv, size \in Sizes, ToggleMaximized
  PROVE  TreeInv'
<1>1. StillRunning /\ NoInteraction /\ Arrange(layout, panes, focused, ~maximized, size)
  BY DEF ToggleMaximized
<1>2. Tree(layout, panes) /\ focused \in panes
  BY DEF TreeInv, Settled
<1> QED BY <1>1, <1>2, SettledAlone

\* advance_pane_move takes the layout of the preview, which is a move or a swap of nodes that
\* are apart.
LEMMA ConfirmTree ==
  ASSUME SplitsNeverRunOut, TreeInv, MoveHasWhatItNeeds, size \in Sizes, ConfirmMove
  PROVE  TreeInv'
<1>1. StillRunning /\ NoInteraction /\ HasPreview /\ ~PreviewThrows
      /\ Arrange(Preview, panes, focused, FALSE, size)
  BY DEF ConfirmMove
<1> DEFINE sel == session.source t == session.target
<1>2. Grove(layout, {layout.root}, {}) /\ focused \in panes /\ Nodes(layout) \cap Pane = panes
  BY SettledParts DEF TreeInv
<1>3. session # None /\ t # None
  BY <1>1 DEF HasPreview, SwapPending, DropPending, MoveHasWhatItNeeds
<1>4. SelOK(layout, sel) /\ t \in DOMAIN layout.up
      /\ \A n \in ToSet(sel.nodes) : Apart(layout, n, t)
  BY <1>3 DEF TreeInv, Moving, SessionOK
<1> HIDE DEF sel, t
<1>5. CASE SwapPending
  <2> DEFINE a == sel.nodes[1] m == Swap(layout, a, t)
  <2>1. a \in ToSet(sel.nodes) /\ a \in DOMAIN layout.up
    BY <1>2, <1>4, SelParts
  <2>2. Preview = m /\ ~SwapThrows(layout, a, t)
    BY <1>1, <1>5 DEF Preview, PreviewThrows, sel, t
  <2>3. Grove(m, {m.root}, {}) /\ Nodes(m) \cap Pane = Nodes(layout) \cap Pane
    BY <1>2, <1>4, <2>1, <2>2, SwapGrove
  <2> HIDE DEF m
  <2>4. Tree(m, panes)
    BY <1>2, <2>3 DEF Tree
  <2> QED BY <1>1, <1>2, <2>2, <2>4, SettledAlone
<1>6. CASE ~SwapPending
  <2> DEFINE m == Move(layout, sel, t, session.drop)
  <2>1. Preview = m
    BY <1>6 DEF Preview, sel, t
  <2>2. Grove(m, {m.root}, {}) /\ Nodes(m) \cap Pane = Nodes(layout) \cap Pane
    BY <1>2, <1>4, MoveGrove
  <2> HIDE DEF m
  <2>3. Tree(m, panes)
    BY <1>2, <2>2 DEF Tree
  <2> QED BY <1>1, <1>2, <2>1, <2>3, SettledAlone
<1> QED BY <1>5, <1>6

-----------------------------------------------------------------------------
(* Steps of the selection *)

\* What the commands that need a selection take for one.
LEMMA SelectedIsSel ==
  ASSUME Settled, Picked
  PROVE  SelOK(layout, SelectionOrFocused)
<1>1. Grove(layout, {layout.root}, {}) /\ focused \in DOMAIN layout.up
  BY SettledParts
<1>2. SelOK(layout, SingleSelection(layout, focused))
  BY <1>1, SingleIsSel
<1> QED BY <1>2 DEF SelectionOrFocused, Picked

\* toggle_pane_selection selects the focused pane.
LEMMA ToggleSelectionTree ==
  ASSUME TreeInv, size \in Sizes, ToggleSelection
  PROVE  TreeInv'
<1>1. StillRunning /\ session' = None /\ Settled
  BY DEF ToggleSelection, TreeInv
<1>2. CASE selection # None
  <2>1. selection' = None /\ NoChange
    BY <1>2 DEF ToggleSelection
  <2>2. Settled'
    BY <1>1, <2>1, NoChangeSettles
  <2> QED BY <1>1, <2>1, <2>2, RunningIsOK DEF TreeInv, Picked, Moving
<1>3. CASE selection = None
  <2>1. selection' = SingleSelection(layout, focused) /\ Restore
    BY <1>3 DEF ToggleSelection
  <2>2. Settled' /\ layout' = layout
    BY <1>1, <2>1, RestoreSettles
  <2>3. Grove(layout, {layout.root}, {}) /\ focused \in DOMAIN layout.up
    BY <1>1, SettledParts
  <2>4. SelOK(layout, SingleSelection(layout, focused))
    BY <2>3, SingleIsSel
  <2>5. SelOK(layout', selection')
    BY <2>1, <2>2, <2>4
  <2> QED BY <1>1, <2>2, <2>5, RunningIsOK DEF TreeInv, Picked, Moving
<1> QED BY <1>2, <1>3

\* A new selection in the layout as it is.
LEMMA SelectingTree ==
  ASSUME TreeInv, StillRunning, NoChange, session = None, UNCHANGED session,
         SelOK(layout, selection')
  PROVE  TreeInv'
<1>1. Settled' /\ layout' = layout /\ PhaseOK'
  BY NoChangeSettles, RunningIsOK DEF TreeInv
<1>2. SelOK(layout', selection')
  BY <1>1
<1> QED BY <1>1, <1>2 DEF TreeInv, Picked, Moving

\* step_pane_selection
LEMMA StepSelectionTree ==
  ASSUME TreeInv, NEW direction, StepSelection(direction)
  PROVE  TreeInv'
<1> DEFINE toNext == DropInsertion(direction) = "AFTER"
<1>1. /\ StillRunning /\ NoChange /\ session = None /\ UNCHANGED session /\ selection # None
      /\ selection.parent # NoNode /\ selection' = SteppedSelection(layout, selection, toNext)
  BY DEF StepSelection
<1> HIDE DEF toNext
<1>2. Grove(layout, {layout.root}, {}) /\ SelOK(layout, selection)
  BY <1>1, SettledParts DEF TreeInv, Picked
<1>3. SelOK(layout, SteppedSelection(layout, selection, toNext))
  BY <1>1, <1>2, SteppedIsSel
<1> QED BY <1>1, <1>3, SelectingTree

\* promote_pane_selection and descend_pane_selection
LEMMA LevelSelectionTree ==
  ASSUME TreeInv, PromoteSelection \/ DescendSelection
  PROVE  TreeInv'
<1>1. /\ StillRunning /\ NoChange /\ session = None /\ UNCHANGED session /\ selection # None
      /\ \/ selection' = PromotedSelection(layout, selection)
         \/ selection' = DescendedSelection(layout, selection)
  BY DEF PromoteSelection, DescendSelection
<1>2. Grove(layout, {layout.root}, {}) /\ SelOK(layout, selection)
  BY <1>1, SettledParts DEF TreeInv, Picked
<1>3. SelOK(layout, selection')
  BY <1>1, <1>2, LevelsAreSel
<1> QED BY <1>1, <1>3, SelectingTree

-----------------------------------------------------------------------------
(* Steps that resize and rotate *)

\* New shares leave the tree and the selection.
LEMMA ReshareTree ==
  ASSUME TreeInv, size \in Sizes, NEW l, SameTree(layout, l), Reshare(l)
  PROVE  TreeInv'
<1>1. StillRunning /\ session' = None /\ UNCHANGED selection /\ Settled
  BY DEF Reshare, TreeInv
<1>2. Settled' /\ layout' = l
  <2>1. CASE l # layout
    <3>1. Arrange(l, panes, focused, FALSE, size)
      BY <2>1 DEF Reshare
    <3>2. Tree(l, panes) /\ focused \in panes
      <4>1. Nodes(layout) \cap Pane = panes /\ focused \in panes
        BY <1>1, SettledParts
      <4>2. Grove(l, {l.root}, {}) /\ Nodes(l) = Nodes(layout)
        BY DEF SameTree, Nodes
      <4> QED BY <4>1, <4>2 DEF Tree
    <3> QED BY <3>1, <3>2, ArrangeSettles
  <2>2. CASE l = layout
    <3>1. NoChange
      BY <2>2 DEF Reshare
    <3> QED BY <1>1, <2>2, <3>1, NoChangeSettles
  <2> QED BY <2>1, <2>2
<1>3. Picked'
  <2>1. selection # None => SelOK(l, selection)
    BY SelKept DEF TreeInv, Picked
  <2> QED BY <1>1, <1>2, <2>1 DEF Picked
<1> QED BY <1>1, <1>2, <1>3, RunningIsOK DEF TreeInv, Moving

\* resize_selected_panes
LEMMA ResizeTree ==
  ASSUME TreeInv, size \in Sizes, NEW delta \in Int, ResizeSelected(delta)
  PROVE  TreeInv'
<1> DEFINE l == Resize(layout, SelectionOrFocused, delta)
<1>1. Grove(layout, {layout.root}, {}) /\ SelOK(layout, SelectionOrFocused)
  BY SettledParts, SelectedIsSel DEF TreeInv
<1>2. SameTree(layout, l)
  BY <1>1, ResizeSame
<1>3. Reshare(l)
  BY DEF ResizeSelected
<1> HIDE DEF l
<1> QED BY <1>2, <1>3, ReshareTree

\* equalize_selected_panes
LEMMA EqualizeTree ==
  ASSUME TreeInv, size \in Sizes, Equalize
  PROVE  TreeInv'
<1> DEFINE l == IF selection # None THEN EqualizeSelection(layout, selection)
                ELSE EqualizeLevel(layout, SelectionOrFocused)
<1>1. Grove(layout, {layout.root}, {}) /\ SelOK(layout, SelectionOrFocused)
  BY SettledParts, SelectedIsSel DEF TreeInv
<1>2. SameTree(layout, l)
  <2>1. SameTree(layout, EqualizeLevel(layout, SelectionOrFocused))
    BY <1>1, EqualizeSame
  <2>2. selection # None => SameTree(layout, EqualizeSelection(layout, selection))
    BY <1>1, EqualizeSame DEF TreeInv, Picked
  <2> QED BY <2>1, <2>2
<1>3. Reshare(l)
  BY DEF Equalize
<1> HIDE DEF l
<1> QED BY <1>2, <1>3, ReshareTree

\* A rotation that changes nothing gives the layout as it is.
LEMMA UnrotatedIsSame ==
  ASSUME NEW l, NEW sel, ~RotateLevel(l, sel).changed
  PROVE  RotateLevel(l, sel).layout = l
<1>1. \A m, s : Rotated(m, s).changed
  BY DEF Rotated
<1>2. CASE Len(sel.nodes) > 1
  <2>1. RotateLevel(l, sel) = RotateRangeLevel(l, sel)
    BY <1>2 DEF RotateLevel
  <2>2. \E m, s : RotateRangeLevel(l, sel) = Rotated(m, s)
    BY Zenon DEF RotateRangeLevel
  <2> QED BY <1>1, <2>1, <2>2
<1>3. CASE ~(Len(sel.nodes) > 1) /\ ~IsLeaf(l, sel.nodes[1])
  <2>1. RotateLevel(l, sel) = RotateGroup(l, sel.nodes[1])
    BY <1>3 DEF RotateLevel
  <2>2. \E m, s : RotateGroup(l, sel.nodes[1]) = Rotated(m, s)
    BY Zenon DEF RotateGroup
  <2> QED BY <1>1, <2>1, <2>2
<1>4. CASE ~(Len(sel.nodes) > 1) /\ IsLeaf(l, sel.nodes[1]) /\ sel.parent # NoNode
  <2>1. RotateLevel(l, sel) = RotateLeafLevel(l, sel)
    BY <1>4 DEF RotateLevel
  <2>2. \E m, s : RotateLeafLevel(l, sel) = Rotated(m, s)
    BY Zenon DEF RotateLeafLevel
  <2> QED BY <1>1, <2>1, <2>2
<1>5. CASE ~(Len(sel.nodes) > 1) /\ IsLeaf(l, sel.nodes[1]) /\ sel.parent = NoNode
  <2>1. RotateLevel(l, sel) = [changed |-> FALSE, layout |-> l, selection |-> sel]
    BY <1>5 DEF RotateLevel
  <2> QED BY <2>1
<1> QED BY <1>2, <1>3, <1>4, <1>5

\* rotate_selected_pane_level leaves a tree of the same panes and selects in it.
LEMMA RotateTree ==
  ASSUME SplitsNeverRunOut, TreeInv, size \in Sizes, Rotate
  PROVE  TreeInv'
<1> DEFINE sel == SelectionOrFocused rotated == RotateLevel(layout, sel) m == rotated.layout
<1>1. StillRunning /\ session' = None /\ Rearrange(rotated)
  BY DEF Rotate
<1>2. Grove(layout, {layout.root}, {}) /\ SelOK(layout, sel) /\ Settled /\ focused \in panes
  BY SettledParts, SelectedIsSel DEF TreeInv
<1>a. Nodes(layout) \cap Pane = panes
  BY SettledParts DEF TreeInv
<1>3. Grove(m, {m.root}, {}) /\ Nodes(m) \cap Pane = Nodes(layout) \cap Pane
      /\ SelOK(m, rotated.selection)
  BY <1>2, RotateLevelGrove
<1>4. ~rotated.changed => m = layout
  BY UnrotatedIsSame
<1> HIDE DEF rotated, m, sel
<1>5. Tree(m, panes)
  BY <1>a, <1>3 DEF Tree
<1>6. Settled' /\ layout' = m
  <2>1. CASE rotated.changed
    <3>1. Arrange(m, panes, focused, FALSE, size)
      BY <1>1, <2>1 DEF Rearrange, m
    <3> QED BY <1>2, <1>5, <3>1, ArrangeSettles
  <2>2. CASE ~rotated.changed
    <3>1. NoChange
      BY <1>1, <2>2 DEF Rearrange
    <3> QED BY <1>2, <1>4, <2>2, <3>1, NoChangeSettles
  <2> QED BY <2>1, <2>2
<1>7. Picked'
  <2>1. selection' = rotated.selection \/ selection' = None
    BY <1>1 DEF Rearrange
  <2> QED BY <1>3, <1>6, <2>1 DEF Picked
<1> QED BY <1>1, <1>6, <1>7, RunningIsOK DEF TreeInv, Moving

\* A resize of the terminal leaves the layout.
LEMMA ResizeTrayTree ==
  ASSUME TreeInv, NEW sz \in Sizes, ResizeTray(sz)
  PROVE  TreeInv'
<1>1. StillRunning /\ Arrange(layout, panes, focused, maximized, sz) /\ UNCHANGED <<selection,
      session>>
  BY DEF ResizeTray
<1>2. Tree(layout, panes) /\ focused \in panes
  BY DEF TreeInv, Settled
<1>3. Settled' /\ layout' = layout
  BY <1>1, <1>2, ArrangeSettles
<1>4. Picked' /\ Moving'
  BY <1>1, <1>3 DEF TreeInv, Picked, Moving
<1> QED BY <1>1, <1>3, <1>4, RunningIsOK DEF TreeInv

-----------------------------------------------------------------------------
(* Steps of the move *)

\* toggle_pane_move begins a move of what is selected, or ends the move.
LEMMA ToggleMoveTree ==
  ASSUME TreeInv, size \in Sizes, ToggleMove
  PROVE  TreeInv'
<1>1. StillRunning /\ Settled
  BY DEF ToggleMove, TreeInv
<1>2. CASE session # None
  <2>1. session' = None /\ UNCHANGED selection /\ NoChange
    BY <1>2 DEF ToggleMove
  <2>2. Settled' /\ layout' = layout
    BY <1>1, <2>1, NoChangeSettles
  <2>3. Picked'
    BY <2>1, <2>2 DEF TreeInv, Picked
  <2> QED BY <1>1, <2>1, <2>2, <2>3, RunningIsOK DEF TreeInv, Moving
<1>3. CASE session = None
  <2>1. session' = BeginSession(SelectionOrFocused) /\ selection' = None /\ Restore
    BY <1>3 DEF ToggleMove
  <2>2. Settled' /\ layout' = layout
    BY <1>1, <2>1, RestoreSettles
  <2>3. SelOK(layout, SelectionOrFocused)
    BY SelectedIsSel DEF TreeInv
  <2> DEFINE sel == SelectionOrFocused s == BeginSession(sel)
  <2>4. s.source = sel /\ s.target = None /\ s.drop = None
    BY DEF BeginSession
  <2> HIDE DEF sel, s
  <2>5. SessionOK(layout, s)
    BY <2>3, <2>4 DEF SessionOK, sel
  <2>6. Moving'
    BY <2>1, <2>2, <2>5 DEF Moving, s, sel
  <2> QED BY <1>1, <2>1, <2>2, <2>6, RunningIsOK DEF TreeInv, Picked
<1> QED BY <1>2, <1>3

\* A step of the move that leaves the layout.
LEMMA MovingTree ==
  ASSUME TreeInv, StillRunning, NEW s, SetSession(s), SessionOK(layout, s)
  PROVE  TreeInv'
<1>1. session' = s /\ UNCHANGED selection /\ NoChange
  BY DEF SetSession
<1>2. Settled' /\ layout' = layout
  BY <1>1, NoChangeSettles DEF TreeInv
<1>3. Picked' /\ Moving'
  BY <1>1, <1>2 DEF TreeInv, Picked, Moving
<1> QED BY <1>2, <1>3, RunningIsOK DEF TreeInv

\* A step that changes neither source nor target nor side.
LEMMA SameEndsTree ==
  ASSUME TreeInv, StillRunning, session # None, NEW s, SetSession(s),
         s.source = session.source, s.target = session.target, s.drop \in Direction \cup {None}
  PROVE  TreeInv'
<1>1. SessionOK(layout, session)
  BY DEF TreeInv, Moving
<1>2. SessionOK(layout, s)
  BY <1>1 DEF SessionOK
<1> QED BY <1>2, MovingTree

\* A node apart from the source becomes the target.
LEMMA TargetTree ==
  ASSUME TreeInv, MoveHasWhatItNeeds, Choosing, NEW n \in DOMAIN layout.up, EligibleTarget(n),
         SetTarget(n)
  PROVE  TreeInv'
<1> DEFINE s == [session EXCEPT !.target = n]
<1>1. StillRunning /\ session # None /\ SetSession(s)
  BY DEF Choosing, SetTarget
<1>2. session = [source |-> session.source, target |-> session.target, stage |-> session.stage,
                 operation |-> session.operation, drop |-> session.drop]
  BY <1>1 DEF MoveHasWhatItNeeds
<1>3. s.source = session.source /\ s.target = n /\ s.drop = session.drop
  BY <1>2
<1> HIDE DEF s
<1>4. SessionOK(layout, session)
  BY <1>1 DEF TreeInv, Moving
<1>5. SessionOK(layout, s)
  BY <1>3, <1>4 DEF SessionOK, EligibleTarget
<1> QED BY <1>1, <1>5, MovingTree

\* step_pane_move_target
LEMMA StepTargetTree ==
  ASSUME TreeInv, MoveHasWhatItNeeds, NEW direction, StepTarget(direction)
  PROVE  TreeInv'
<1> DEFINE from == IF session.target = None THEN session.source.active ELSE session.target
           eligible == {p \in panes : EligibleTarget(p)}
           n == EligibleNeighbour(layout, size, from, direction, eligible)
<1>1. Choosing /\ SetTarget(n) /\ n # None
  BY DEF StepTarget, SetTarget
<1>2. n \in eligible \cup {None}
  BY EligibleIs
<1> HIDE DEF n
<1>3. n \in panes /\ EligibleTarget(n)
  BY <1>1, <1>2
<1>4. n \in DOMAIN layout.up
  BY <1>3, SettledParts DEF TreeInv
<1> QED BY <1>1, <1>3, <1>4, TargetTree

\* promote_target
LEMMA PromoteTargetTree ==
  ASSUME TreeInv, MoveHasWhatItNeeds, PromoteTarget
  PROVE  TreeInv'
<1> DEFINE n == layout.up[session.target]
<1>1. Choosing /\ session # None /\ session.target # None /\ n # NoNode /\ EligibleTarget(n)
      /\ SetTarget(n)
  BY DEF PromoteTarget, Choosing
<1>2. session.target \in DOMAIN layout.up
  BY <1>1 DEF TreeInv, Moving, SessionOK
<1>3. n \in DOMAIN layout.up
  <2>1. Grove(layout, {layout.root}, {})
    BY SettledParts DEF TreeInv
  <2>2. Links(layout.up)
    BY <2>1, GroveLinks
  <2> QED BY <1>1, <1>2, <2>2 DEF Links
<1> HIDE DEF n
<1> QED BY <1>1, <1>3, TargetTree

\* descend_target
LEMMA DescendTargetTree ==
  ASSUME TreeInv, MoveHasWhatItNeeds, DescendTarget
  PROVE  TreeInv'
<1> DEFINE K == layout.kids[session.target] names == KidNodes(K)
<1>1. Choosing /\ session # None /\ session.target # None /\ ~IsLeaf(layout, session.target)
  BY DEF DescendTarget, Choosing
<1>2. PICK i \in DOMAIN names : EligibleTarget(names[i]) /\ SetTarget(names[i])
  BY DEF DescendTarget
<1>3. Grove(layout, {layout.root}, {})
  BY SettledParts DEF TreeInv
<1>4. session.target \in DOMAIN layout.kids
  BY <1>1, <1>3, GroveParts
<1>5. K \in Seq(KidRec) /\ NodesOf(K) = Children(layout.up, session.target)
  BY <1>3, <1>4, GroveKids
<1> HIDE DEF K
<1>6. names[i] \in NodesOf(K)
  <2>1. i \in 1 .. Len(K) /\ names[i] = K[i].node
    BY <1>5, KidNodesOf
  <2> HIDE DEF names
  <2> QED BY <1>5, <2>1, KidsAt
<1> HIDE DEF names
<1>7. names[i] \in DOMAIN layout.up
  BY <1>5, <1>6 DEF Children
<1> QED BY <1>1, <1>2, <1>7, TargetTree

\* toggle_swap
LEMMA ToggleSwapTree ==
  ASSUME TreeInv, MoveHasWhatItNeeds, ToggleSwap
  PROVE  TreeInv'
<1> DEFINE other == IF session.operation = "MOVE" THEN "SWAP" ELSE "MOVE"
           s == [session EXCEPT !.operation = other]
<1>1. StillRunning /\ session # None /\ SetSession(s)
  BY DEF Choosing, ToggleSwap
<1>2. session = [source |-> session.source, target |-> session.target, stage |-> session.stage,
                 operation |-> session.operation, drop |-> session.drop]
  BY <1>1 DEF MoveHasWhatItNeeds
<1>3. s.source = session.source /\ s.target = session.target /\ s.drop = session.drop
  BY <1>2
<1> HIDE DEF s
<1>4. session.drop \in Direction \cup {None}
  BY <1>1 DEF TreeInv, Moving, SessionOK
<1> QED BY <1>1, <1>3, <1>4, SameEndsTree

\* lock_target
LEMMA LockTree ==
  ASSUME TreeInv, MoveHasWhatItNeeds, LockTarget
  PROVE  TreeInv'
<1> DEFINE s == [session EXCEPT !.stage = "DROP"]
<1>1. StillRunning /\ session # None /\ SetSession(s)
  BY DEF Choosing, LockTarget
<1>2. session = [source |-> session.source, target |-> session.target, stage |-> session.stage,
                 operation |-> session.operation, drop |-> session.drop]
  BY <1>1 DEF MoveHasWhatItNeeds
<1>3. s.source = session.source /\ s.target = session.target /\ s.drop = session.drop
  BY <1>2
<1> HIDE DEF s
<1>4. session.drop \in Direction \cup {None}
  BY <1>1 DEF TreeInv, Moving, SessionOK
<1> QED BY <1>1, <1>3, <1>4, SameEndsTree

\* set_drop_direction
LEMMA DropTree ==
  ASSUME TreeInv, MoveHasWhatItNeeds, NEW direction \in Direction, SetDrop(direction)
  PROVE  TreeInv'
<1> DEFINE s == [session EXCEPT !.drop = direction]
<1>1. StillRunning /\ session # None /\ SetSession(s)
  BY DEF SetDrop
<1>2. session = [source |-> session.source, target |-> session.target, stage |-> session.stage,
                 operation |-> session.operation, drop |-> session.drop]
  BY <1>1 DEF MoveHasWhatItNeeds
<1>3. s.source = session.source /\ s.target = session.target /\ s.drop = direction
  BY <1>2
<1> HIDE DEF s
<1> QED BY <1>1, <1>3, SameEndsTree

-----------------------------------------------------------------------------
(* The end *)

\* What touches nothing but the phase leaves the rest.
LEMMA EndedTree ==
  ASSUME TreeInv, UNCHANGED <<layout, ptySize, focused, maximized, selection, session, size>>,
         PhaseOK'
  PROVE  TreeInv'
<1>1. Settled' /\ layout' = layout
  <2>1. NoChange
    BY DEF NoChange
  <2> QED BY <2>1, NoChangeSettles DEF TreeInv
<1>2. Picked' /\ Moving'
  BY <1>1 DEF TreeInv, Picked, Moving
<1> QED BY <1>1, <1>2 DEF TreeInv

\* A preview throws only from a layout with a split nested in one of its own axis.
LEMMA FailTree ==
  ASSUME TreeInv, MoveHasWhatItNeeds, Fail
  PROVE  TreeInv'
<1> DEFINE a == session.source.nodes[1] t == session.target
<1>1. /\ phase' = "failed" /\ UNCHANGED <<layout, ptySize, focused, maximized, selection, session,
         size>>
      /\ session # None /\ t # None /\ SwapThrows(layout, a, t)
  BY DEF Fail, PreviewThrows, SwapPending
<1>2. Grove(layout, {layout.root}, {})
  BY SettledParts DEF TreeInv
<1>3. SelOK(layout, session.source) /\ t \in DOMAIN layout.up
      /\ \A n \in ToSet(session.source.nodes) : Apart(layout, n, t)
  BY <1>1 DEF TreeInv, Moving, SessionOK
<1>4. a \in ToSet(session.source.nodes) /\ a \in DOMAIN layout.up
  BY <1>2, <1>3, SelParts
<1> HIDE DEF a, t
<1>5. \E s, n \in DOMAIN layout.axis : layout.up[n] = s /\ layout.axis[n] = layout.axis[s]
  BY <1>1, <1>2, <1>3, <1>4, SwapGrove
<1>6. ~NoNestedAxis
  BY <1>5 DEF NoNestedAxis
<1>7. ~NoNestedAxis'
  BY <1>1, <1>6 DEF NoNestedAxis
<1>8. PhaseOK'
  BY <1>1, <1>7 DEF PhaseOK, FailsOnlyWhenNested
<1> QED BY <1>1, <1>8, EndedTree

\* The end of all programs, and nothing at all.
LEMMA StillTree ==
  ASSUME TreeInv, ReapAll \/ Stopped \/ UNCHANGED vars
  PROVE  TreeInv'
<1>1. /\ UNCHANGED <<layout, ptySize, focused, maximized, selection, session, size>>
      /\ phase' = "exited" \/ phase' = phase
  BY DEF ReapAll, Stopped, vars
<1>2. PhaseOK'
  BY <1>1 DEF TreeInv, PhaseOK, FailsOnlyWhenNested, NoNestedAxis
<1> QED BY <1>1, <1>2, EndedTree

-----------------------------------------------------------------------------
(* The tree, the selection and the move, for all constants *)

\* Every step of the tray leaves a tree of its live panes, with a selection and a move of
\* nodes in it.
LEMMA StepTree ==
  ASSUME SplitsNeverRunOut, TreeInv, PanesInv, [Next]_vars
  PROVE  TreeInv'
<1>1. size \in Sizes /\ MoveHasWhatItNeeds
  BY DEF PanesInv
<1>2. ASSUME NEW axis \in Axis, SplitFocused(axis) PROVE TreeInv'
  BY <1>1, <1>2, SplitTree
<1>3. ASSUME NEW direction \in Direction, FocusDirection(direction) PROVE TreeInv'
  BY <1>1, <1>3, FocusTree
<1>4. ASSUME NEW direction \in Direction, StepSelection(direction) PROVE TreeInv'
  BY <1>4, StepSelectionTree
<1>5. ASSUME NEW direction \in Direction, StepTarget(direction) PROVE TreeInv'
  BY <1>1, <1>5, StepTargetTree
<1>6. ASSUME NEW direction \in Direction, SetDrop(direction) PROVE TreeInv'
  BY <1>1, <1>6, DropTree
<1>7. CASE CloseFocused
  BY <1>1, <1>7, CloseTree
<1>8. ASSUME NEW gone \in (SUBSET panes) \ {{}, panes}, NEW order \in SetToSeqs(gone), Reap(order)
      PROVE  TreeInv'
  <2>1. gone \in SUBSET panes /\ gone # panes
    BY <1>8
  <2> QED BY <1>1, <1>8, <2>1, ReapTree
<1>9. CASE ToggleMaximized
  BY <1>1, <1>9, MaximizeTree
<1>10. ASSUME NEW sz \in Sizes, ResizeTray(sz) PROVE TreeInv'
  BY <1>10, ResizeTrayTree
<1>11. CASE ToggleSelection
  BY <1>1, <1>11, ToggleSelectionTree
<1>12. CASE PromoteSelection \/ DescendSelection
  BY <1>12, LevelSelectionTree
<1>13. ASSUME NEW delta \in {Step, -Step}, ResizeSelected(delta) PROVE TreeInv'
  <2>1. delta \in Int
    BY StepAssumption, FullAssumption
  <2> QED BY <1>1, <1>13, <2>1, ResizeTree
<1>14. CASE Equalize
  BY <1>1, <1>14, EqualizeTree
<1>15. CASE Rotate
  BY <1>1, <1>15, RotateTree
<1>16. CASE ToggleMove
  BY <1>1, <1>16, ToggleMoveTree
<1>17. CASE PromoteTarget
  BY <1>1, <1>17, PromoteTargetTree
<1>18. CASE DescendTarget
  BY <1>1, <1>18, DescendTargetTree
<1>19. CASE ToggleSwap
  BY <1>1, <1>19, ToggleSwapTree
<1>20. CASE LockTarget
  BY <1>1, <1>20, LockTree
<1>21. CASE ConfirmMove
  BY <1>1, <1>21, ConfirmTree
<1>22. CASE Fail
  BY <1>1, <1>22, FailTree
<1>23. CASE ReapAll \/ Stopped \/ UNCHANGED vars
  BY <1>23, StillTree
<1> QED
  BY <1>2, <1>3, <1>4, <1>5, <1>6, <1>7, <1>8, <1>9, <1>10, <1>11, <1>12, <1>13, <1>14,
     <1>15, <1>16, <1>17, <1>18, <1>19, <1>20, <1>21, <1>22, <1>23 DEF Next

\* The inductive invariant of the tree of panes.
THEOREM TreeStaysSound ==
  ASSUME SplitsNeverRunOut
  PROVE  Spec => []TreeInv
<1>1. TreeInv /\ PanesInv /\ [Next]_vars => TreeInv'
  BY StepTree
<1> QED BY TreeInit, PanesStayInOrder, <1>1, PTL DEF Spec

\* A range of siblings is contiguous.
LEMMA RangeIsContiguous ==
  ASSUME Settled, NEW sel, \E i, j : Ranged(layout, sel.parent, sel.nodes, i, j)
  PROVE  IsContiguous(layout, sel)
<1>1. PICK i, j : Ranged(layout, sel.parent, sel.nodes, i, j)
  OBVIOUS
<1>2. sel.parent \in DOMAIN layout.kids
  BY <1>1 DEF Ranged
<1>3. DOMAIN layout.kids[sel.parent] = 1 .. Len(layout.kids[sel.parent])
      /\ Len(layout.kids[sel.parent]) \in Nat
  BY <1>2, SettledParts, GroveKids
<1>4. i \in DOMAIN layout.kids[sel.parent] /\ j \in DOMAIN layout.kids[sel.parent]
      /\ sel.nodes = SubSeq(KidNodes(layout.kids[sel.parent]), i, j)
  BY <1>1, <1>3 DEF Ranged
<1> QED BY <1>2, <1>4 DEF IsContiguous

\* What the invariant says of a selection.
LEMMA PickedIsLive ==
  ASSUME Settled, Picked
  PROVE  SelectionIsLive
<1> SUFFICES ASSUME selection # None
             PROVE  /\ ToSet(selection.nodes) \subseteq Nodes(layout)
                    /\ {selection.anchor, selection.active}
                         = {selection.nodes[1], selection.nodes[Len(selection.nodes)]}
                    /\ selection.parent = layout.up[selection.active]
                    /\ selection.parent = NoNode => Len(selection.nodes) = 1
                    /\ selection.parent # NoNode => IsContiguous(layout, selection)
  BY DEF SelectionIsLive
<1>1. SelOK(layout, selection)
  BY DEF Picked
<1>2. Grove(layout, {layout.root}, {}) /\ Nodes(layout) = DOMAIN layout.up
  BY SettledParts
<1>3. /\ ToSet(selection.nodes) \subseteq DOMAIN layout.up
      /\ selection.active \in ToSet(selection.nodes)
      /\ \A n \in ToSet(selection.nodes) : layout.up[n] = selection.parent
      /\ selection.parent = NoNode => selection.nodes = <<layout.root>>
      /\ selection.parent # NoNode =>
           \E i, j : Ranged(layout, selection.parent, selection.nodes, i, j)
  BY <1>1, <1>2, SelParts
<1>4. {selection.anchor, selection.active}
        = {selection.nodes[1], selection.nodes[Len(selection.nodes)]}
  BY <1>1 DEF SelOK
<1>5. selection.parent # NoNode => IsContiguous(layout, selection)
  BY <1>3, RangeIsContiguous
<1>6. Len(<<layout.root>>) = 1
  OBVIOUS
<1> QED BY <1>2, <1>3, <1>4, <1>5, <1>6

\* What the invariant says of a move.
LEMMA MovingIsApart ==
  ASSUME Settled, Moving, MoveHasWhatItNeeds
  PROVE  MoveEndsAreApart
<1> SUFFICES ASSUME session # None
             PROVE  /\ session.source.parent # NoNode => IsContiguous(layout, session.source)
                    /\ ToSet(session.source.nodes) \subseteq Nodes(layout)
                    /\ session.target # None =>
                         session.target \in Nodes(layout) /\ EligibleTarget(session.target)
                    /\ session.operation = "SWAP" => Len(session.source.nodes) = 1
  BY DEF MoveEndsAreApart
<1> DEFINE source == session.source
<1>1. /\ SelOK(layout, source)
      /\ session.target # None => session.target \in DOMAIN layout.up
         /\ EligibleTarget(session.target)
  BY DEF Moving, SessionOK, EligibleTarget
<1>2. Grove(layout, {layout.root}, {}) /\ Nodes(layout) = DOMAIN layout.up
  BY SettledParts
<1> HIDE DEF source
<1>3. /\ ToSet(source.nodes) \subseteq DOMAIN layout.up
      /\ source.parent # NoNode => \E i, j : Ranged(layout, source.parent, source.nodes, i, j)
  BY <1>1, <1>2, SelParts
<1>4. source.parent # NoNode => IsContiguous(layout, source)
  BY <1>3, RangeIsContiguous
<1>5. session.operation = "SWAP" => Len(source.nodes) = 1
  BY DEF MoveHasWhatItNeeds, source
<1> QED BY <1>1, <1>2, <1>3, <1>4, <1>5 DEF source

\* The record of a move has the fields that it is read with.
LEMMA SessionIsTyped ==
  ASSUME Settled, Moving, MoveHasWhatItNeeds
  PROVE  session = None \/ session \in Session
<1> SUFFICES ASSUME session # None PROVE session \in Session
  OBVIOUS
<1> DEFINE source == session.source
<1>1. /\ SelOK(layout, source)
      /\ session.target # None => session.target \in DOMAIN layout.up
      /\ session.drop \in Direction \cup {None}
  BY DEF Moving, SessionOK
<1>2. /\ session = [source |-> source, target |-> session.target, stage |-> session.stage,
                    operation |-> session.operation, drop |-> session.drop]
      /\ session.stage \in {"TARGET", "DROP"} /\ session.operation \in {"MOVE", "SWAP"}
  BY DEF MoveHasWhatItNeeds
<1>3. /\ Grove(layout, {layout.root}, {}) /\ DOMAIN layout.up \subseteq Pane \cup Split
      /\ DOMAIN layout.kids \subseteq Split
  BY SettledParts, GroveParts
<1> HIDE DEF source
<1>4. /\ source = [parent |-> source.parent, anchor |-> source.anchor,
                   active |-> source.active, nodes |-> source.nodes]
  BY <1>1 DEF SelOK
<1>5. /\ source.nodes \in Seq(Pane \cup Split)
      /\ source.anchor \in Pane \cup Split /\ source.active \in Pane \cup Split
      /\ source.parent \in Split \cup {NoNode}
  <2>1. /\ source.nodes \in Seq(Pane \cup Split) /\ ToSet(source.nodes) \subseteq DOMAIN layout.up
        /\ source.anchor \in ToSet(source.nodes) /\ source.active \in ToSet(source.nodes)
        /\ source.parent # NoNode => source.parent \in DOMAIN layout.kids
    BY <1>1, <1>3, SelParts
  <2> QED BY <1>3, <2>1
<1>6. source \in [parent : Split \cup {NoNode}, anchor : Pane \cup Split,
                  active : Pane \cup Split, nodes : Seq(Pane \cup Split)]
  BY <1>4, <1>5
<1>7. session.target \in Pane \cup Split \cup {None}
  BY <1>1, <1>3
<1> QED BY <1>1, <1>2, <1>6, <1>7 DEF Session

\* The invariants give every variable its type.
LEMMA TreeIsTyped ==
  ASSUME TreeInv, PanesInv
  PROVE  TypeOK
<1>1. Settled /\ Picked /\ Moving /\ phase \in {"running", "exited", "failed"}
  BY DEF TreeInv, PhaseOK
<1>2. maximized \in BOOLEAN /\ size \in Sizes /\ MoveHasWhatItNeeds
  BY DEF PanesInv
<1>3. Grove(layout, {layout.root}, {}) /\ focused \in Pane
  BY <1>1, SettledParts
<1>4. /\ layout.root \in Pane \cup Split
      /\ layout.axis \in [DOMAIN layout.axis -> Axis]
      /\ layout.up \in [Nodes(layout) -> Split \cup {NoNode}]
  <2>1. /\ Nodes(layout) = DOMAIN layout.up /\ DOMAIN layout.up \subseteq Pane \cup Split
        /\ DOMAIN layout.kids = DOMAIN layout.up \cap Split
           /\ DOMAIN layout.axis = DOMAIN layout.kids
        /\ layout.axis \in [DOMAIN layout.kids -> Axis]
        /\ layout.up \in [DOMAIN layout.up -> DOMAIN layout.kids \cup {NoNode}]
        /\ layout.root \in DOMAIN layout.up
    BY <1>3, GroveParts
  <2> QED BY <2>1
<1>5. ptySize \in [panes -> [rows : Nat \ {0}, cols : Nat \ {0}]]
  BY <1>1 DEF Settled, PtyRec
<1>6. selection = None \/ selection.nodes \in Seq(Pane \cup Split)
  BY <1>1, <1>3, SelParts DEF Picked
<1>7. session = None \/ session \in Session
  BY <1>1, <1>2, SessionIsTyped
<1> QED BY <1>1, <1>2, <1>3, <1>4, <1>5, <1>6, <1>7 DEF TypeOK

\* Every variable keeps its type.
THEOREM TypeCorrectness ==
  ASSUME SplitsNeverRunOut
  PROVE  Spec => []TypeOK
<1>1. TreeInv /\ PanesInv => TypeOK
  BY TreeIsTyped
<1> QED BY TreeStaysSound, PanesStayInOrder, <1>1, PTL

\* Whatever was split, closed, rotated, resized, moved or swapped and whichever programs
\* ended, the layout is a tree of the live panes with the focused one among them, and the
\* shares of every split add up to the whole, which calculate_pane_geometry demands
\* (pane_geometry.cc:14).
THEOREM LayoutStaysSound ==
  ASSUME SplitsNeverRunOut
  PROVE  Spec => []LayoutIsSound
<1>1. TreeInv => LayoutIsSound
  BY TreeIsSound DEF TreeInv, Settled
<1> QED BY TreeStaysSound, <1>1, PTL

\* No step leaves a selection or a move behind that names nodes which are gone or stand
\* elsewhere, and of the maximized view, a selection and a move there is only one, so the
\* checks of PaneLayoutMover and PaneSelection never throw.
THEOREM InteractionStaysLive ==
  ASSUME SplitsNeverRunOut
  PROVE  Spec => []InteractionIsLive
<1>1. TreeInv /\ PanesInv => InteractionIsLive
  <2> SUFFICES ASSUME TreeInv, PanesInv PROVE InteractionIsLive
    OBVIOUS
  <2>1. Settled /\ Picked /\ Moving /\ MoveHasWhatItNeeds /\ OneInteraction
    BY DEF TreeInv, PanesInv
  <2> QED BY <2>1, PickedIsLive, MovingIsApart DEF InteractionIsLive
<1> QED BY TreeStaysSound, PanesStayInOrder, <1>1, PTL

\* An exception ends the parent only from a layout with a split nested in one of its own
\* axis: from every other one each preview and each confirmed move or swap succeeds
\* (pane_move.cc, exchange_nodes).
THEOREM NothingElseFails ==
  ASSUME SplitsNeverRunOut
  PROVE  Spec => []FailsOnlyWhenNested
<1>1. TreeInv => FailsOnlyWhenNested
  BY DEF TreeInv, PhaseOK
<1> QED BY TreeStaysSound, <1>1, PTL

-----------------------------------------------------------------------------
(* Tiling: the regions and the separators share out the cells of the tray. *)

\* The sums of the first extents, as they are added up for the offsets.
LEMMA HeadTotals ==
  ASSUME NEW w \in Seq(Nat)
  PROVE  \E s : /\ s \in [0 .. Len(w) -> Nat] /\ s[0] = 0 /\ s[Len(w)] = Total(w)
                /\ \A i \in 1 .. Len(w) : s[i] = s[i - 1] + w[i]
                /\ \A i \in 0 .. Len(w) : Total(SubSeq(w, 1, i)) = s[i]
<1>1. w \in Seq(Int) /\ Len(w) \in Nat
  BY SeqMonotonic
<1>2. PICK s : Sums(w, s)
  BY <1>1, SumsExist
<1>3. ASSUME NEW k \in 0 .. Len(w) PROVE Total(SubSeq(w, 1, k)) = s[k] /\ s[k] \in Nat
  <2> DEFINE v == [i \in 1 .. k |-> w[i]]
             t == [i \in 0 .. k |-> s[i]]
  <2>1. k \in Nat /\ v \in [1 .. k -> Nat]
    BY <1>1
  <2>2. v = SubSeq(w, 1, k)
    BY <1>1
  <2>3. \A i \in 1 .. k : v[i] = w[i] /\ i \in 1 .. Len(w) /\ i - 1 \in 0 .. k
    BY <1>1
  <2>4. t \in [0 .. k -> Int] /\ \A i \in 0 .. k : t[i] = s[i]
    BY <1>1, <1>2, SumsAt
  <2>5. k \in 0 .. k /\ 0 \in 0 .. k /\ \A i \in 1 .. k : i \in 0 .. k
    BY <2>1
  <2> HIDE DEF v, t
  <2>6. v \in Seq(Nat) /\ v \in Seq(Int) /\ Len(v) = k
    BY <2>1, ListOf, SeqMonotonic
  <2>7. Sums(v, t)
    <3>1. t[0] = 0
      BY <1>2, <2>4, <2>5 DEF Sums
    <3>2. ASSUME NEW i \in 1 .. k PROVE t[i] = t[i - 1] + v[i]
      BY <1>2, <2>3, <2>4, <2>5 DEF Sums
    <3> QED BY <2>4, <2>6, <3>1, <3>2 DEF Sums
  <2>8. Total(v) = t[k]
    BY <2>6, <2>7, TotalIs
  <2>9. Total(v) \in Nat
    BY <2>6, TotalNat
  <2> QED BY <2>2, <2>4, <2>5, <2>8, <2>9
<1>4. s \in [0 .. Len(w) -> Nat]
  BY <1>2, <1>3 DEF Sums
<1>5. s[Len(w)] = Total(w)
  BY <1>1, <1>2, TotalIs
<1> QED BY <1>2, <1>3, <1>4, <1>5 DEF Sums

\* The offsets b of n parts of the widths w, a separator of width sep after each.
Marks(b, w, sep, n) ==
  /\ b \in [1 .. n + 1 -> Nat] /\ b[1] = 0
  /\ \A i \in 1 .. n : w[i] \in Nat /\ b[i + 1] = (b[i] + w[i]) + sep

\* A part ends before the later ones begin.
LEMMA MarksGrow ==
  ASSUME NEW n \in Nat, NEW b, NEW w, NEW sep \in {0, 1}, Marks(b, w, sep, n),
         NEW i \in 1 .. n, NEW j \in 1 .. n + 1, i < j
  PROVE  (b[i] + w[i]) + sep <= b[j]
<1> DEFINE Bad == {k \in 1 .. n + 1 : i < k /\ ~((b[i] + w[i]) + sep <= b[k])}
<1>1. CASE Bad # {}
  <2>1. Bad \subseteq Nat
    OBVIOUS
  <2>2. PICK k \in Bad : \A m \in Bad : k <= m
    <3> HIDE DEF Bad
    <3> QED BY <1>1, <2>1, LeastElement
  <2>3. k \in 1 .. n + 1 /\ i < k /\ ~((b[i] + w[i]) + sep <= b[k])
    OBVIOUS
  <2>4. k - 1 \in 1 .. n /\ k - 1 \in 1 .. n + 1 /\ (k - 1) + 1 = k /\ ~(k <= k - 1)
    BY <2>3
  <2>5. b[i] \in Nat /\ w[i] \in Nat /\ b[k - 1] \in Nat /\ w[k - 1] \in Nat /\ b[k] \in Nat
    BY <2>3, <2>4 DEF Marks
  <2>6. b[k] = (b[k - 1] + w[k - 1]) + sep
    BY <2>4 DEF Marks
  <2>7. CASE k - 1 = i
    BY <2>3, <2>5, <2>6, <2>7
  <2>8. CASE k - 1 # i
    <3>1. i < k - 1
      BY <2>3, <2>4, <2>8
    <3>2. k - 1 \notin Bad
      BY <2>2, <2>4
    <3>3. (b[i] + w[i]) + sep <= b[k - 1]
      BY <2>4, <3>1, <3>2
    <3> QED BY <2>3, <2>5, <2>6, <3>3
  <2> QED BY <2>7, <2>8
<1>2. CASE Bad = {}
  BY <1>2
<1> QED BY <1>1, <1>2

\* A place before the end lies in a part or in the separator after it.
LEMMA MarkBefore ==
  ASSUME NEW n \in Nat, NEW b, NEW w, NEW sep \in {0, 1}, Marks(b, w, sep, n),
         NEW y \in Nat, y < b[n + 1]
  PROVE  \E i \in 1 .. n : b[i] <= y /\ y < b[i + 1]
<1> DEFINE S == {j \in 1 .. n + 1 : y < b[j]}
<1>1. S \subseteq Nat /\ n + 1 \in S
  OBVIOUS
<1>2. PICK j \in S : \A k \in S : j <= k
  <2> HIDE DEF S
  <2> QED BY <1>1, LeastElement
<1>3. j # 1
  BY DEF Marks
<1>4. j - 1 \in 1 .. n /\ j - 1 \in 1 .. n + 1 /\ (j - 1) + 1 = j /\ ~(j <= j - 1)
  BY <1>3
<1>5. j - 1 \notin S
  BY <1>2, <1>4
<1>6. b[j - 1] \in Nat
  BY <1>4 DEF Marks
<1>7. b[j - 1] <= y /\ y < b[(j - 1) + 1]
  BY <1>4, <1>5, <1>6
<1> QED BY <1>4, <1>7

-----------------------------------------------------------------------------
\* The cells of a region, and how far a cell is from the region's start.
Covers(r, x) ==
  /\ r.row <= x[1] /\ x[1] < r.row + r.rows
  /\ r.col <= x[2] /\ x[2] < r.col + r.cols
Place(axis, r, x) == IF axis = "LR" THEN x[2] - r.col ELSE x[1] - r.row

\* The cells of a region are those that lie within its rows and its columns.
LEMMA CellsAre ==
  ASSUME NEW r \in RegionRec, NEW x
  PROVE  x \in Cells(r) <=> x \in Nat \X Nat /\ Covers(r, x)
<1>1. /\ r.row \in Nat /\ r.col \in Nat /\ r.rows \in Nat /\ r.cols \in Nat
  BY DEF RegionRec
<1>2. \A a : a \in r.row .. (r.row + r.rows - 1) <=> a \in Nat /\ r.row <= a /\ a < r.row + r.rows
  BY <1>1
<1>3. \A a : a \in r.col .. (r.col + r.cols - 1) <=> a \in Nat /\ r.col <= a /\ a < r.col + r.cols
  BY <1>1
<1> QED BY <1>2, <1>3 DEF Cells, Covers

\* The cells of a part of a region.
LEMMA PartCells ==
  ASSUME NEW r \in RegionRec, NEW axis, NEW o \in Nat, NEW w \in Nat, o + w <= Extent(axis, r)
  PROVE  /\ Part(axis, r, o, w) \in RegionRec
         /\ \A x : x \in Cells(Part(axis, r, o, w))
                   <=> x \in Cells(r) /\ o <= Place(axis, r, x) /\ Place(axis, r, x) < o + w
         /\ \A x \in Cells(r) : Place(axis, r, x) \in Nat /\ Place(axis, r, x) < Extent(axis, r)
<1>1. /\ r.row \in Nat /\ r.col \in Nat /\ r.rows \in Nat /\ r.cols \in Nat
  BY DEF RegionRec
<1> DEFINE p == Part(axis, r, o, w)
<1>2. CASE axis = "LR"
  <2>1. p.row = r.row /\ p.col = r.col + o /\ p.rows = r.rows /\ p.cols = w /\ p \in RegionRec
    BY <1>1, <1>2 DEF Part, Region, RegionRec
  <2>2. o + w <= r.cols
    BY <1>2 DEF Extent
  <2> HIDE DEF p
  <2>3. ASSUME NEW x, x \in Nat \X Nat
        PROVE  Covers(p, x) <=> Covers(r, x) /\ o <= x[2] - r.col /\ x[2] - r.col < o + w
    <3>1. x[1] \in Nat /\ x[2] \in Nat
      BY <2>3
    <3> QED BY <1>1, <2>1, <2>2, <3>1 DEF Covers
  <2>4. ASSUME NEW x, x \in Nat \X Nat, Covers(r, x)
        PROVE  x[2] - r.col \in Nat /\ x[2] - r.col < r.cols
    <3>1. x[1] \in Nat /\ x[2] \in Nat
      BY <2>4
    <3> QED BY <1>1, <2>4, <3>1 DEF Covers
  <2>5. \A x : Place(axis, r, x) = x[2] - r.col
    BY <1>2 DEF Place
  <2>6. Extent(axis, r) = r.cols
    BY <1>2 DEF Extent
  <2>7. \A x : x \in Cells(p) <=> x \in Nat \X Nat /\ Covers(p, x)
    BY <2>1, CellsAre
  <2>8. \A x : x \in Cells(r) <=> x \in Nat \X Nat /\ Covers(r, x)
    BY CellsAre
  <2>9. p \in RegionRec
    BY <2>1
  <2> QED BY <2>3, <2>4, <2>5, <2>6, <2>7, <2>8, <2>9 DEF p
<1>3. CASE axis # "LR"
  <2>1. p.row = r.row + o /\ p.col = r.col /\ p.rows = w /\ p.cols = r.cols /\ p \in RegionRec
    BY <1>1, <1>3 DEF Part, Region, RegionRec
  <2>2. o + w <= r.rows
    BY <1>3 DEF Extent
  <2> HIDE DEF p
  <2>3. ASSUME NEW x, x \in Nat \X Nat
        PROVE  Covers(p, x) <=> Covers(r, x) /\ o <= x[1] - r.row /\ x[1] - r.row < o + w
    <3>1. x[1] \in Nat /\ x[2] \in Nat
      BY <2>3
    <3> QED BY <1>1, <2>1, <2>2, <3>1 DEF Covers
  <2>4. ASSUME NEW x, x \in Nat \X Nat, Covers(r, x)
        PROVE  x[1] - r.row \in Nat /\ x[1] - r.row < r.rows
    <3>1. x[1] \in Nat /\ x[2] \in Nat
      BY <2>4
    <3> QED BY <1>1, <2>4, <3>1 DEF Covers
  <2>5. \A x : Place(axis, r, x) = x[1] - r.row
    BY <1>3 DEF Place
  <2>6. Extent(axis, r) = r.rows
    BY <1>3 DEF Extent
  <2>7. \A x : x \in Cells(p) <=> x \in Nat \X Nat /\ Covers(p, x)
    BY <2>1, CellsAre
  <2>8. \A x : x \in Cells(r) <=> x \in Nat \X Nat /\ Covers(r, x)
    BY CellsAre
  <2>9. p \in RegionRec
    BY <2>1
  <2> QED BY <2>3, <2>4, <2>5, <2>6, <2>7, <2>8, <2>9 DEF p
<1> QED BY <1>2, <1>3

\* A separator is the part of width one after a child's part.
LEMMA SeparatorIsPart ==
  ASSUME NEW r \in RegionRec, NEW axis, NEW o \in Nat, NEW w \in Nat
  PROVE  SeparatorAfter(axis, r, Part(axis, r, o, w)) = Part(axis, r, o + w, 1)
<1>1. r.col \in Nat /\ r.row \in Nat
  BY DEF RegionRec
<1>2. (r.col + o) + w = r.col + (o + w) /\ (r.row + o) + w = r.row + (o + w)
  BY <1>1
<1> QED BY <1>2 DEF SeparatorAfter, Part, Region

\* How calculate_pane_geometry cuts the region r of split s: the offsets b and
\* the widths w of its n children's parts, with separators between them or none.
CutUp(l, s, r, n, b, w, sep) ==
  LET e == Extent(l.axis[s], r) IN
  /\ n = Len(l.kids[s]) /\ n \in Nat /\ n # 0 /\ sep \in {0, 1} /\ e \in Nat
  /\ Marks(b, w, sep, n) /\ b[n + 1] = e + sep
  /\ SeparatorCount(n, e) = IF sep = 1 THEN n - 1 ELSE 0
  /\ \A i \in 1 .. n : RegionBelow(l, s, r, l.kids[s][i].node) = Part(l.axis[s], r, b[i], w[i])

\* The region of a split is cut up so among its children.
LEMMA CutsUp ==
  ASSUME NEW l, NEW tops, NEW thin, Grove(l, tops, thin), NEW s \in DOMAIN l.kids,
         NEW r \in RegionRec
  PROVE  \E n, b, w, sep : CutUp(l, s, r, n, b, w, sep)
<1> DEFINE K == l.kids[s] axis == l.axis[s] e == Extent(axis, r) n == Len(K)
           count == SeparatorCount(n, e) w == Distribute(Weights(K), e - count)
           sep == IF count = 0 THEN 0 ELSE 1
<1>1. K \in Seq(KidRec) /\ Distinct(K) /\ NodesOf(K) = Children(l.up, s) /\ NodesOf(K) # {}
  BY GroveKids
<1>2. \A i \in 1 .. n : ChildIndex(l, s, K[i].node) = i
  <2>1. ASSUME NEW i \in 1 .. Len(K) PROVE ChildIndex(l, s, K[i].node) = i
    <3>1. K[i].node \in Children(l.up, s)
      BY <1>1, KidsAt
    <3>2. /\ ChildIndex(l, s, K[i].node) \in 1 .. Len(K)
          /\ K[ChildIndex(l, s, K[i].node)].node = K[i].node
      BY <3>1, IndexOfChild
    <3> HIDE DEF K
    <3> QED BY <1>1, <3>2 DEF Distinct
  <2> QED BY <2>1
<1>3. r.rows \in Nat /\ r.cols \in Nat
  BY DEF RegionRec
<1> HIDE DEF K
<1>4. n \in Nat /\ n # 0
  BY <1>1, KidsLength
<1>5. e \in Nat
  BY <1>3 DEF Extent
<1> HIDE DEF e, n
<1>6. count \in Nat /\ e - count \in Nat /\ count \in {0, n - 1}
  BY <1>4, <1>5 DEF SeparatorCount
<1>7. w \in Seq(Nat) /\ Len(w) = n /\ Total(w) = e - count
  <2>1. Weights(K) \in Seq(Nat) /\ Len(Weights(K)) = n
    BY <1>1, WeightsOf DEF n
  <2> QED BY <1>4, <1>6, <2>1, DistributeTotals
<1>8. \A i \in 1 .. n : RegionBelow(l, s, r, K[i].node)
        = Part(axis, r, Total(SubSeq(w, 1, i - 1)) + (IF count = 0 THEN 0 ELSE i - 1), w[i])
  <2>1. ASSUME NEW i \in 1 .. n
        PROVE RegionBelow(l, s, r, K[i].node)
        = Part(axis, r, Total(SubSeq(w, 1, i - 1)) + (IF count = 0 THEN 0 ELSE i - 1), w[i])
    <3>1. ChildIndex(l, s, K[i].node) = i
      BY <1>2
    <3> QED BY <3>1 DEF RegionBelow, ChildRegion, n, e, K
  <2> HIDE DEF w, count
  <2> QED BY <2>1
<1> HIDE DEF w, count, axis
<1>9. PICK t : /\ t \in [0 .. Len(w) -> Nat] /\ t[0] = 0 /\ t[Len(w)] = Total(w)
               /\ \A i \in 1 .. Len(w) : t[i] = t[i - 1] + w[i]
               /\ \A i \in 0 .. Len(w) : Total(SubSeq(w, 1, i)) = t[i]
  BY <1>7, HeadTotals
<1> DEFINE b == [i \in 1 .. n + 1 |-> t[i - 1] + (IF count = 0 THEN 0 ELSE i - 1)]
<1>10. \A i \in 1 .. n + 1 : i - 1 \in 0 .. n /\ t[i - 1] \in Nat /\ b[i] \in Nat
         /\ b[i] = t[i - 1] + (IF count = 0 THEN 0 ELSE i - 1)
  BY <1>4, <1>7, <1>9
<1>11. b \in [1 .. n + 1 -> Nat]
  BY <1>10
<1> HIDE DEF b
<1>12. Marks(b, w, sep, n)
  <2>1. 1 \in 1 .. n + 1
    BY <1>4
  <2>2. b[1] = 0
    BY <1>9, <1>10, <2>1
  <2>3. ASSUME NEW i \in 1 .. n PROVE w[i] \in Nat /\ b[i + 1] = (b[i] + w[i]) + sep
    <3>1. w[i] \in Nat
      BY <1>7
    <3>2. i \in 1 .. n + 1 /\ i + 1 \in 1 .. n + 1 /\ (i + 1) - 1 = i
      BY <1>4
    <3>3. b[i] = t[i - 1] + (IF count = 0 THEN 0 ELSE i - 1)
          /\ b[i + 1] = t[i] + (IF count = 0 THEN 0 ELSE i)
          /\ t[i] = t[i - 1] + w[i] /\ t[i - 1] \in Nat
      BY <1>7, <1>9, <1>10, <3>2
    <3> QED BY <3>1, <3>3
  <2> QED BY <1>11, <2>2, <2>3 DEF Marks
<1>13. b[n + 1] = e + sep
  <2>1. b[n + 1] = t[n] + (IF count = 0 THEN 0 ELSE n) /\ t[n] = e - count
    <3>1. n + 1 \in 1 .. n + 1 /\ (n + 1) - 1 = n
      BY <1>4
    <3> QED BY <1>7, <1>9, <1>10, <3>1
  <2> QED BY <1>4, <1>5, <1>6, <2>1
<1>14. count = IF sep = 1 THEN n - 1 ELSE 0
  BY <1>6
<1>15. \A i \in 1 .. n : RegionBelow(l, s, r, K[i].node) = Part(axis, r, b[i], w[i])
  <2>1. ASSUME NEW i \in 1 .. n
        PROVE  RegionBelow(l, s, r, K[i].node) = Part(axis, r, b[i], w[i])
    <3>1. i \in 1 .. n + 1 /\ i - 1 \in 0 .. Len(w)
      BY <1>4, <1>7
    <3>2. Total(SubSeq(w, 1, i - 1)) = t[i - 1]
      BY <1>9, <3>1
    <3>3. b[i] = t[i - 1] + (IF count = 0 THEN 0 ELSE i - 1)
      BY <1>10, <3>1
    <3> QED BY <1>8, <3>2, <3>3
  <2> QED BY <2>1
<1>16. CutUp(l, s, r, n, b, w, sep)
  <2>1. sep \in {0, 1}
    OBVIOUS
  <2> HIDE DEF sep
  <2> QED BY <1>4, <1>5, <1>12, <1>13, <1>14, <1>15, <2>1 DEF CutUp, K, n, e, axis, count
<1> QED BY <1>16

\* The cells of the i-th part of the region r, and of the separator after it.
Piece(axis, r, n, b, w, sep, i, part) ==
  /\ b[i] \in Nat /\ w[i] \in Nat
  /\ \A x : x \in Cells(part)
            <=> x \in Cells(r) /\ b[i] <= Place(axis, r, x) /\ Place(axis, r, x) < b[i] + w[i]
  /\ i \in 1 .. SeparatorCount(n, Extent(axis, r)) =>
       /\ sep = 1
       /\ \A x : x \in Cells(SeparatorAfter(axis, r, part))
                 <=> x \in Cells(r) /\ Place(axis, r, x) = b[i] + w[i]
  /\ \A x \in Cells(r) : Place(axis, r, x) \in Nat /\ Place(axis, r, x) < b[n + 1] - sep

\* Each child gets such a piece of it.
LEMMA CutCells ==
  ASSUME NEW l, NEW s, NEW r \in RegionRec, NEW n, NEW b, NEW w, NEW sep,
         CutUp(l, s, r, n, b, w, sep), NEW i \in 1 .. n
  PROVE  Piece(l.axis[s], r, n, b, w, sep, i, RegionBelow(l, s, r, l.kids[s][i].node))
<1> DEFINE axis == l.axis[s] part == RegionBelow(l, s, r, l.kids[s][i].node)
           line == SeparatorAfter(axis, r, part)
<1> DEFINE e == Extent(axis, r)
<1>1. /\ n \in Nat /\ n # 0 /\ sep \in {0, 1} /\ e \in Nat
      /\ Marks(b, w, sep, n) /\ b[n + 1] = e + sep
      /\ SeparatorCount(n, e) = IF sep = 1 THEN n - 1 ELSE 0
      /\ part = Part(axis, r, b[i], w[i])
  BY DEF CutUp
<1> HIDE DEF part, axis
<1>2. b[i] \in Nat /\ w[i] \in Nat /\ n + 1 \in 1 .. n + 1 /\ i < n + 1 /\ b[n + 1] \in Nat
  BY <1>1 DEF Marks
<1>3. (b[i] + w[i]) + sep <= b[n + 1]
  BY <1>1, <1>2, MarksGrow
<1>4. b[i] + w[i] <= e
  BY <1>1, <1>2, <1>3
<1> HIDE DEF e
<1>5. /\ part \in RegionRec
      /\ \A x : x \in Cells(part)
                <=> x \in Cells(r) /\ b[i] <= Place(axis, r, x) /\ Place(axis, r, x) < b[i] + w[i]
      /\ \A x \in Cells(r) : Place(axis, r, x) \in Nat /\ Place(axis, r, x) < e
  BY <1>1, <1>2, <1>4, PartCells DEF e
<1>6. ASSUME i \in 1 .. SeparatorCount(n, e)
      PROVE  sep = 1 /\ \A x : x \in Cells(line) <=> x \in Cells(r) /\ Place(axis, r, x) = b[i] + w[i]
  <2>1. sep = 1 /\ i \in 1 .. n - 1
    BY <1>1, <1>6
  <2>2. i + 1 \in 1 .. n /\ i + 1 \in 1 .. n + 1 /\ i + 1 < n + 1
    BY <1>1, <2>1
  <2>3. (b[i + 1] + w[i + 1]) + sep <= b[n + 1] /\ b[i + 1] = (b[i] + w[i]) + sep /\ w[i + 1] \in Nat
    BY <1>1, <1>2, <2>2, MarksGrow DEF Marks
  <2>4. b[i] + w[i] \in Nat /\ (b[i] + w[i]) + 1 <= e
    BY <1>1, <1>2, <2>1, <2>3
  <2>5. line = Part(axis, r, b[i] + w[i], 1)
    BY <1>1, <1>2, SeparatorIsPart
  <2> HIDE DEF line
  <2>6. \A x : x \in Cells(line) <=> x \in Cells(r) /\ b[i] + w[i] <= Place(axis, r, x)
                                     /\ Place(axis, r, x) < (b[i] + w[i]) + 1
    BY <2>4, <2>5, PartCells DEF e
  <2>7. ASSUME NEW x \in Cells(r)
        PROVE  b[i] + w[i] <= Place(axis, r, x) /\ Place(axis, r, x) < (b[i] + w[i]) + 1
                 <=> Place(axis, r, x) = b[i] + w[i]
    <3>1. Place(axis, r, x) \in Nat
      BY <1>5
    <3> QED BY <1>2, <3>1
  <2> QED BY <2>1, <2>6, <2>7
<1>7. \A x \in Cells(r) : Place(axis, r, x) \in Nat /\ Place(axis, r, x) < b[n + 1] - sep
  <2>1. b[n + 1] - sep = e
    BY <1>1
  <2> QED BY <1>5, <2>1
<1>8. Piece(axis, r, n, b, w, sep, i, part)
  <2> HIDE DEF line
  <2>1. line = SeparatorAfter(axis, r, part)
    BY DEF line
  <2> QED BY <1>2, <1>5, <1>6, <1>7, <2>1 DEF Piece, e
<1> QED BY <1>8 DEF part, axis

\* The separators of split s.
LinesOf(l, R, s) ==
  {SeparatorAfter(l.axis[s], R[s], R[l.kids[s][i].node]) :
     i \in 1 .. SeparatorCount(Len(l.kids[s]), Extent(l.axis[s], R[s]))}

\* The regions of a split's children and its separators are a tiling of its region.
LEMMA SplitTiles ==
  ASSUME NEW l, NEW tops, NEW thin, Grove(l, tops, thin), NEW s \in DOMAIN l.kids, NEW R,
         R[s] \in RegionRec,
         \A c \in Children(l.up, s) : R[c] = RegionBelow(l, s, R[s], c)
  PROVE  /\ \A c \in Children(l.up, s) : Cells(R[c]) \subseteq Cells(R[s])
         /\ \A c, d \in Children(l.up, s) : c # d => ~Overlap(R[c], R[d])
         /\ \A y \in LinesOf(l, R, s) : Cells(y) \subseteq Cells(R[s])
         /\ \A y, z \in LinesOf(l, R, s) : y # z => ~Overlap(y, z)
         /\ \A c \in Children(l.up, s), y \in LinesOf(l, R, s) : ~Overlap(R[c], y)
         /\ \A x \in Cells(R[s]) : \/ \E c \in Children(l.up, s) : x \in Cells(R[c])
                                   \/ \E y \in LinesOf(l, R, s) : x \in Cells(y)
<1> DEFINE K == l.kids[s] r == R[s] axis == l.axis[s] count == SeparatorCount(Len(K), Extent(axis, r))
           P(x) == Place(axis, r, x)
           part(i) == R[K[i].node]
           line(i) == SeparatorAfter(axis, r, part(i))
<1>1. PICK n, b, w, sep : CutUp(l, s, r, n, b, w, sep)
  BY CutsUp
<1>2. /\ n \in Nat /\ n # 0 /\ sep \in {0, 1} /\ n = Len(K) /\ Marks(b, w, sep, n)
      /\ count = IF sep = 1 THEN n - 1 ELSE 0
  BY <1>1 DEF CutUp
<1>3. /\ \A i \in 1 .. n : K[i].node \in Children(l.up, s)
      /\ \A c \in Children(l.up, s) : \E i \in 1 .. n : K[i].node = c
  <2>1. K \in Seq(KidRec) /\ NodesOf(K) = Children(l.up, s)
    BY GroveKids
  <2> HIDE DEF K
  <2> QED BY <1>2, <2>1 DEF NodesOf
<1>4. ASSUME NEW i \in 1 .. n
      PROVE  /\ b[i] \in Nat /\ w[i] \in Nat
             /\ \A x : x \in Cells(part(i)) <=> x \in Cells(r) /\ b[i] <= P(x) /\ P(x) < b[i] + w[i]
             /\ i \in 1 .. count =>
                  /\ sep = 1
                  /\ \A x : x \in Cells(line(i)) <=> x \in Cells(r) /\ P(x) = b[i] + w[i]
             /\ \A x \in Cells(r) : P(x) \in Nat /\ P(x) < b[n + 1] - sep
  <2>1. part(i) = RegionBelow(l, s, r, K[i].node)
    BY <1>3
  <2> HIDE DEF r
  <2>2. r \in RegionRec
    BY DEF r
  <2>3. part(i) = RegionBelow(l, s, r, l.kids[s][i].node) /\ axis = l.axis[s]
        /\ count = SeparatorCount(n, Extent(axis, r))
    BY <1>2, <2>1
  <2> HIDE DEF count, part, axis
  <2>4. line(i) = SeparatorAfter(axis, r, part(i))
    OBVIOUS
  <2> HIDE DEF line, K
  <2>5. Piece(l.axis[s], r, n, b, w, sep, i, RegionBelow(l, s, r, l.kids[s][i].node))
    BY <1>1, <2>2, CutCells
  <2>6. Piece(axis, r, n, b, w, sep, i, part(i))
    BY <2>3, <2>5
  <2> QED BY <2>3, <2>4, <2>6 DEF Piece
<1>5. LinesOf(l, R, s) = {line(i) : i \in 1 .. count}
  BY DEF LinesOf
<1>6. \A i \in 1 .. count : i \in 1 .. n
  BY <1>2
<1>7. \A i \in 1 .. n, j \in 1 .. n : i < j => (b[i] + w[i]) + sep <= b[j]
  <2>1. \A j \in 1 .. n : j \in 1 .. n + 1
    BY <1>2
  <2> QED BY <1>2, <2>1, MarksGrow
<1> HIDE DEF K, r, axis, count, P, part, line
<1>8. ASSUME NEW i \in 1 .. n, NEW j \in 1 .. n, i # j PROVE ~Overlap(part(i), part(j))
  <2>1. ASSUME NEW x, x \in Cells(part(i)), x \in Cells(part(j)) PROVE FALSE
    <3>1. x \in Cells(r) /\ b[i] <= P(x) /\ P(x) < b[i] + w[i] /\ b[j] <= P(x) /\ P(x) < b[j] + w[j]
      BY <1>4, <2>1
    <3>2. P(x) \in Nat /\ b[i] \in Nat /\ w[i] \in Nat /\ b[j] \in Nat /\ w[j] \in Nat
      BY <1>4, <3>1
    <3>3. CASE i < j
      <4>1. (b[i] + w[i]) + sep <= b[j]
        BY <1>7, <3>3
      <4> QED BY <1>2, <3>1, <3>2, <4>1
    <3>4. CASE j < i
      <4>1. (b[j] + w[j]) + sep <= b[i]
        BY <1>7, <3>4
      <4> QED BY <1>2, <3>1, <3>2, <4>1
    <3> QED BY <1>2, <1>8, <3>3, <3>4
  <2> QED BY <2>1 DEF Overlap
<1>9. ASSUME NEW i \in 1 .. n, NEW j \in 1 .. count PROVE ~Overlap(part(i), line(j))
  <2>1. ASSUME NEW x, x \in Cells(part(i)), x \in Cells(line(j)) PROVE FALSE
    <3>1. x \in Cells(r) /\ b[i] <= P(x) /\ P(x) < b[i] + w[i] /\ P(x) = b[j] + w[j] /\ sep = 1
      BY <1>4, <1>6, <2>1
    <3>2. P(x) \in Nat /\ b[i] \in Nat /\ w[i] \in Nat /\ b[j] \in Nat /\ w[j] \in Nat /\ j \in 1 .. n
      BY <1>4, <1>6, <3>1
    <3>3. CASE i < j
      <4>1. (b[i] + w[i]) + sep <= b[j]
        BY <1>7, <3>2, <3>3
      <4> QED BY <3>1, <3>2, <4>1
    <3>4. CASE j < i
      <4>1. (b[j] + w[j]) + sep <= b[i]
        BY <1>7, <3>2, <3>4
      <4> QED BY <3>1, <3>2, <4>1
    <3>5. CASE i = j
      BY <3>1, <3>2, <3>5
    <3> QED BY <1>2, <3>2, <3>3, <3>4, <3>5
  <2> QED BY <2>1 DEF Overlap
<1>10. ASSUME NEW i \in 1 .. count, NEW j \in 1 .. count, line(i) # line(j)
       PROVE  ~Overlap(line(i), line(j))
  <2>1. ASSUME NEW x, x \in Cells(line(i)), x \in Cells(line(j)) PROVE FALSE
    <3>1. P(x) = b[i] + w[i] /\ P(x) = b[j] + w[j] /\ sep = 1 /\ x \in Cells(r)
      BY <1>4, <1>6, <2>1
    <3>2. P(x) \in Nat /\ b[i] \in Nat /\ w[i] \in Nat /\ b[j] \in Nat /\ w[j] \in Nat
          /\ i \in 1 .. n /\ j \in 1 .. n /\ i # j
      BY <1>4, <1>6, <1>10, <3>1
    <3>3. CASE i < j
      <4>1. (b[i] + w[i]) + sep <= b[j]
        BY <1>7, <3>2, <3>3
      <4> QED BY <3>1, <3>2, <4>1
    <3>4. CASE j < i
      <4>1. (b[j] + w[j]) + sep <= b[i]
        BY <1>7, <3>2, <3>4
      <4> QED BY <3>1, <3>2, <4>1
    <3> QED BY <1>2, <3>2, <3>3, <3>4
  <2> QED BY <2>1 DEF Overlap
<1>11. ASSUME NEW x \in Cells(r)
       PROVE  (\E i \in 1 .. n : x \in Cells(part(i))) \/ \E i \in 1 .. count : x \in Cells(line(i))
  <2>1. 1 \in 1 .. n
    BY <1>2
  <2>2. P(x) \in Nat /\ P(x) < b[n + 1] - sep
    BY <1>4, <2>1
  <2>3. b[n + 1] \in Nat
    BY <1>2 DEF Marks
  <2>4. P(x) < b[n + 1]
    BY <1>2, <2>2, <2>3
  <2>5. PICK i \in 1 .. n : b[i] <= P(x) /\ P(x) < b[i + 1]
    BY <1>2, <2>2, <2>4, MarkBefore
  <2>6. b[i + 1] = (b[i] + w[i]) + sep /\ b[i] \in Nat /\ w[i] \in Nat
    BY <1>2 DEF Marks
  <2>7. CASE P(x) < b[i] + w[i]
    BY <1>4, <2>5, <2>7
  <2>8. CASE ~(P(x) < b[i] + w[i])
    <3>1. sep = 1 /\ P(x) = b[i] + w[i]
      BY <1>2, <2>2, <2>5, <2>6, <2>8
    <3>2. i # n
      BY <2>2, <2>3, <2>6, <3>1
    <3>3. i \in 1 .. count
      BY <1>2, <3>1, <3>2
    <3>4. x \in Cells(line(i))
      BY <1>4, <3>1, <3>3
    <3> QED BY <3>3, <3>4
  <2> QED BY <2>7, <2>8
<1>12. \A i \in 1 .. n : Cells(part(i)) \subseteq Cells(r)
  BY <1>4
<1>13. \A i \in 1 .. count : Cells(line(i)) \subseteq Cells(r)
  BY <1>4, <1>6
<1>14. \A c \in Children(l.up, s) : \E i \in 1 .. n : R[c] = part(i)
  BY <1>3 DEF part
<1>15. \A i \in 1 .. n : \E c \in Children(l.up, s) : R[c] = part(i)
  BY <1>3 DEF part
<1>16. \A c, d \in Children(l.up, s) : c # d => ~Overlap(R[c], R[d])
  <2> SUFFICES ASSUME NEW c \in Children(l.up, s), NEW d \in Children(l.up, s), c # d
               PROVE  ~Overlap(R[c], R[d])
    OBVIOUS
  <2>1. PICK i \in 1 .. n : K[i].node = c
    BY <1>3
  <2>2. PICK j \in 1 .. n : K[j].node = d
    BY <1>3
  <2>3. i # j /\ R[c] = part(i) /\ R[d] = part(j)
    BY <2>1, <2>2 DEF part
  <2> QED BY <1>8, <2>3
<1> QED BY <1>5, <1>9, <1>10, <1>11, <1>12, <1>13, <1>14, <1>15, <1>16 DEF r

\* The recursion of calculate_pane_geometry has a solution.
LEMMA RegionsSolve ==
  ASSUME NEW l, NEW tops, NEW thin, Grove(l, tops, thin), NEW sz
  PROVE  \A n \in DOMAIN l.up : Regions(l, sz)[n] = RegionStep(l, sz, Regions(l, sz), n)
<1> DEFINE V == DOMAIN l.up f == CHOOSE g : g = [n \in V |-> RegionStep(l, sz, g, n)]
<1>1. Regions(l, sz) = f
  BY GroveParts DEF Regions, RegionStep, Nodes
<1>2. \E g : g = [n \in V |-> RegionStep(l, sz, g, n)]
  BY RegionsExist DEF Placed
<1>3. f = [n \in V |-> RegionStep(l, sz, f, n)]
  BY <1>2
<1> HIDE DEF f
<1> QED BY <1>1, <1>3

\* What the regions of a tree say of each other.
LEMMA RegionsNest ==
  ASSUME NEW l, Grove(l, {l.root}, {}), NEW sz \in [rows : Nat, cols : Nat]
  PROVE  LET R == Regions(l, sz) IN
         /\ \A n \in DOMAIN l.up : R[n] \in RegionRec
         /\ R[l.root] = Whole(sz)
         /\ \A s \in DOMAIN l.kids : \A c \in Children(l.up, s) : R[c] = RegionBelow(l, s, R[s], c)
<1> DEFINE R == Regions(l, sz)
<1>1. \A n \in DOMAIN l.up : R[n] \in RegionRec
  BY RegionsAre
<1>2. \A n \in DOMAIN l.up : R[n] = RegionStep(l, sz, R, n)
  BY RegionsSolve
<1>3. l.root \in DOMAIN l.up /\ l.up[l.root] = NoNode
  BY GroveParts
<1> HIDE DEF R
<1>4. R[l.root] = Whole(sz)
  BY <1>2, <1>3 DEF RegionStep
<1>5. ASSUME NEW s \in DOMAIN l.kids, NEW c \in Children(l.up, s)
      PROVE  R[c] = RegionBelow(l, s, R[s], c)
  <2>1. c \in DOMAIN l.up /\ l.up[c] = s /\ s # NoNode
    BY IndexOfChild
  <2> QED BY <1>2, <2>1 DEF RegionStep
<1> QED BY <1>1, <1>4, <1>5 DEF R

\* A set of nodes with no siblings in it, closed upwards, has nothing beside what is
\* above a deepest node of it.
LEMMA OneLineUp ==
  ASSUME NEW u, Links(u), NEW r, {r} = {n \in DOMAIN u : u[n] = NoNode},
         NEW N, Upward(u, N), \A c, d \in N : u[c] = u[d] /\ u[c] # NoNode => c = d,
         NEW m \in N, \A c \in N : u[c] # m
  PROVE  N \subseteq Up(u, m)
<1> DEFINE D == N \ Up(u, m)
<1>1. N \subseteq DOMAIN u /\ m \in DOMAIN u
  BY DEF Upward
<1>2. Up(u, m) \subseteq N
  BY <1>1 DEF Up
<1>3. r \in Up(u, m)
  BY <1>1, UpToTheTop
<1>4. ASSUME NEW n \in D PROVE u[n] \in D
  <2>1. n \in N /\ n \notin Up(u, m) /\ n \in DOMAIN u
    BY <1>1
  <2>2. u[n] # NoNode
    <3>1. n # r
      BY <1>3, <2>1
    <3> QED BY <2>1, <3>1
  <2>3. u[n] \in N
    BY <2>1, <2>2 DEF Upward
  <2>4. ASSUME u[n] \in Up(u, m) PROVE FALSE
    <3>1. u[n] # m
      BY <2>1
    <3>2. PICK c \in Up(u, m) : u[c] = u[n]
      BY <1>1, <2>4, <3>1, UpChild
    <3>3. c = n
      BY <1>2, <2>1, <2>2, <3>2
    <3> QED BY <2>1, <3>2, <3>3
  <2> QED BY <2>3, <2>4
<1>5. D = {}
  <2>1. D \in SUBSET DOMAIN u
    BY <1>1
  <2> HIDE DEF D
  <2> QED BY <1>4, <2>1 DEF Links, Rooted
<1> QED BY <1>5

\* The nodes whose regions have a cell, and the splits with a separator that has it.
At(l, R, x) == {n \in DOMAIN l.up : x \in Cells(R[n])}
LineAt(l, R, s, x) == \E y \in LinesOf(l, R, s) : x \in Cells(y)

\* A cell of the tray belongs to one pane and no separator, or to the separators of one
\* split and no pane.
LEMMA CellIsShared ==
  ASSUME NEW l, Grove(l, {l.root}, {}), NEW sz \in [rows : Nat, cols : Nat], NEW R,
         R = Regions(l, sz), NEW x
  PROVE  /\ x \in Cells(Whole(sz)) => \/ \E p \in DOMAIN l.up \cap Pane : x \in Cells(R[p])
                                      \/ \E s \in DOMAIN l.kids : LineAt(l, R, s, x)
         /\ \A p \in DOMAIN l.up \cap Pane : x \in Cells(R[p]) =>
              /\ x \in Cells(Whole(sz))
              /\ \A q \in DOMAIN l.up \cap Pane : x \in Cells(R[q]) => p = q
              /\ \A s \in DOMAIN l.kids : ~LineAt(l, R, s, x)
         /\ \A s \in DOMAIN l.kids : LineAt(l, R, s, x) =>
              /\ x \in Cells(Whole(sz))
              /\ \A t \in DOMAIN l.kids : LineAt(l, R, t, x) => s = t
<1> DEFINE u == l.up N == At(l, R, x)
<1>1. /\ Links(u) /\ IsFiniteSet(DOMAIN u) /\ l.root \in DOMAIN u
      /\ {l.root} = {n \in DOMAIN u : u[n] = NoNode}
      /\ DOMAIN l.kids = DOMAIN u \cap Split /\ DOMAIN u \subseteq Pane \cup Split
      /\ \A n \in DOMAIN u : u[n] \in DOMAIN l.kids \cup {NoNode}
  <2>1. Links(u)
    BY GroveLinks
  <2>2. u \in [DOMAIN u -> DOMAIN l.kids \cup {NoNode}]
    BY GroveParts
  <2> QED BY <2>1, <2>2, GroveParts
<1>2. /\ \A n \in DOMAIN u : R[n] \in RegionRec
      /\ R[l.root] = Whole(sz)
      /\ \A s \in DOMAIN l.kids : \A c \in Children(u, s) : R[c] = RegionBelow(l, s, R[s], c)
  BY RegionsNest
<1>3. ASSUME NEW s \in DOMAIN l.kids
      PROVE  /\ \A c \in Children(u, s) : Cells(R[c]) \subseteq Cells(R[s])
             /\ \A c, d \in Children(u, s) : c # d => ~Overlap(R[c], R[d])
             /\ \A y \in LinesOf(l, R, s) : Cells(y) \subseteq Cells(R[s])
             /\ \A c \in Children(u, s), y \in LinesOf(l, R, s) : ~Overlap(R[c], y)
             /\ \A z \in Cells(R[s]) : \/ \E c \in Children(u, s) : z \in Cells(R[c])
                                       \/ \E y \in LinesOf(l, R, s) : z \in Cells(y)
  <2>1. R[s] \in RegionRec
    BY <1>1, <1>2
  <2> QED BY <1>2, <2>1, SplitTiles, SMTT(30)
<1>4. \A s \in DOMAIN l.kids : /\ s \in DOMAIN u /\ s \notin Pane
                               /\ \A c : c \in Children(u, s) <=> c \in DOMAIN u /\ u[c] = s
  BY <1>1, SplitAssumption DEF Children
<1>5. \A n : n \in N <=> n \in DOMAIN u /\ x \in Cells(R[n])
  BY DEF At
<1> HIDE DEF N, u
<1>6. Upward(u, N)
  <2>1. ASSUME NEW n \in N, u[n] # NoNode PROVE u[n] \in N
    <3>1. n \in DOMAIN u /\ u[n] \in DOMAIN l.kids /\ x \in Cells(R[n])
      BY <1>1, <1>5, <2>1
    <3>2. n \in Children(u, u[n]) /\ u[n] \in DOMAIN u
      BY <1>4, <3>1
    <3> QED BY <1>3, <1>5, <3>1, <3>2
  <2> QED BY <1>5, <2>1 DEF Upward
<1>7. ASSUME NEW c \in N, NEW d \in N, u[c] = u[d], u[c] # NoNode PROVE c = d
  <2>1. u[c] \in DOMAIN l.kids /\ c \in Children(u, u[c]) /\ d \in Children(u, u[c])
    BY <1>1, <1>4, <1>5, <1>7
  <2>2. Overlap(R[c], R[d])
    BY <1>5 DEF Overlap
  <2> QED BY <1>3, <2>1, <2>2
<1>8. ASSUME NEW m \in N, \A c \in N : u[c] # m PROVE N \subseteq Up(u, m)
  BY <1>1, <1>6, <1>7, <1>8, OneLineUp
<1>9. ASSUME NEW p \in DOMAIN u \cap Pane, x \in Cells(R[p])
      PROVE  p \in N /\ N \subseteq Up(u, p)
  <2>1. \A c \in N : u[c] # p
    BY <1>1, <1>4, <1>5, NoNodeAssumption
  <2>2. p \in N
    BY <1>5, <1>9
  <2> QED BY <1>8, <2>1, <2>2
<1>10. ASSUME NEW s \in DOMAIN l.kids, LineAt(l, R, s, x)
       PROVE  s \in N /\ N \subseteq Up(u, s)
  <2>1. PICK y \in LinesOf(l, R, s) : x \in Cells(y)
    BY <1>10 DEF LineAt
  <2>2. s \in N
    BY <1>3, <1>4, <1>5, <2>1
  <2>3. ASSUME NEW c \in N, u[c] = s PROVE FALSE
    <3>1. c \in Children(u, s) /\ x \in Cells(R[c])
      BY <1>4, <1>5, <2>3
    <3>2. Overlap(R[c], y)
      BY <2>1, <3>1 DEF Overlap
    <3> QED BY <1>3, <3>1, <3>2
  <2> QED BY <1>8, <2>2, <2>3
<1>11. l.root \in N <=> x \in Cells(Whole(sz))
  BY <1>1, <1>2, <1>5
<1>12. ASSUME NEW n \in N PROVE l.root \in N
  <2>1. n \in DOMAIN u
    BY <1>5
  <2>2. l.root \in Up(u, n)
    BY <1>1, <2>1, UpToTheTop
  <2>3. Up(u, n) \subseteq N
    BY <1>6 DEF Up, Upward
  <2> QED BY <2>2, <2>3
<1>13. ASSUME NEW m \in N, NEW n \in N, N \subseteq Up(u, m), N \subseteq Up(u, n) PROVE m = n
  <2>1. m \in DOMAIN u /\ n \in DOMAIN u /\ m \in Up(u, n) /\ n \in Up(u, m)
    BY <1>5, <1>13
  <2>2. CASE u[m] = NoNode
    <3>1. Up(u, m) = {m}
      BY <1>1, <2>1, <2>2, UpStep
    <3> QED BY <2>1, <3>1
  <2>3. CASE u[m] # NoNode
    <3>1. u[m] \in DOMAIN u /\ Up(u, m) = {m} \cup Up(u, u[m]) /\ m \notin Up(u, u[m])
      BY <1>1, <2>1, <2>3, UpStep, UpNotBack
    <3>2. ASSUME n # m PROVE FALSE
      <4>1. n \in Up(u, u[m])
        BY <2>1, <3>1, <3>2
      <4>2. Up(u, n) \subseteq Up(u, u[m])
        BY <1>1, <3>1, <4>1, UpTransitive
      <4> QED BY <2>1, <3>1, <4>2
    <3> QED BY <3>2
  <2> QED BY <2>2, <2>3
<1>14. ASSUME x \in Cells(Whole(sz))
       PROVE  \/ \E p \in DOMAIN u \cap Pane : x \in Cells(R[p])
              \/ \E s \in DOMAIN l.kids : LineAt(l, R, s, x)
  <2>1. N \subseteq DOMAIN u /\ N # {}
    BY <1>5, <1>11, <1>14
  <2>2. PICK m \in N : \A c \in N : u[c] # m
    BY <1>1, <2>1, DeepNode
  <2>3. m \in DOMAIN u /\ x \in Cells(R[m])
    BY <1>5
  <2>4. CASE m \in DOMAIN l.kids
    <3>1. ASSUME NEW c \in Children(u, m), x \in Cells(R[c]) PROVE FALSE
      BY <1>4, <1>5, <2>2, <2>4, <3>1
    <3>2. \E y \in LinesOf(l, R, m) : x \in Cells(y)
      BY <1>3, <2>3, <2>4, <3>1
    <3> QED BY <2>4, <3>2 DEF LineAt
  <2>5. CASE m \notin DOMAIN l.kids
    BY <1>1, <2>3, <2>5
  <2> QED BY <2>4, <2>5
<1>15. ASSUME NEW p \in DOMAIN u \cap Pane, x \in Cells(R[p])
       PROVE  /\ x \in Cells(Whole(sz))
              /\ \A q \in DOMAIN u \cap Pane : x \in Cells(R[q]) => p = q
              /\ \A s \in DOMAIN l.kids : ~LineAt(l, R, s, x)
  <2>1. \A s \in DOMAIN l.kids : s # p
    BY <1>4
  <2> QED BY <1>9, <1>10, <1>11, <1>12, <1>13, <1>15, <2>1
<1>16. ASSUME NEW s \in DOMAIN l.kids, LineAt(l, R, s, x)
       PROVE  /\ x \in Cells(Whole(sz))
              /\ \A t \in DOMAIN l.kids : LineAt(l, R, t, x) => s = t
  BY <1>10, <1>11, <1>12, <1>13, <1>16
<1> QED BY <1>14, <1>15, <1>16 DEF u

\* calculate_pane_geometry covers every cell of the tray once.
LEMMA TreeTiles ==
  ASSUME Settled, size \in Sizes
  PROVE  RegionsTile
<1> DEFINE l == layout R == Regions(l, size) lines == Separators(l, R)
<1>1. Grove(l, {l.root}, {}) /\ panes = DOMAIN l.up \cap Pane
  BY SettledParts
<1>2. size \in [rows : Nat, cols : Nat]
  BY SizesAssumption
<1>3. DOMAIN l.axis = DOMAIN l.kids
  BY <1>1, GroveParts
<1>4. \A y : y \in lines <=> \E s \in DOMAIN l.kids : y \in LinesOf(l, R, s)
  BY <1>3 DEF Separators, LinesOf
<1>5. /\ \A n \in DOMAIN l.up : R[n] \in RegionRec
      /\ \A s \in DOMAIN l.kids : \A c \in Children(l.up, s) : R[c] = RegionBelow(l, s, R[s], c)
  BY <1>1, <1>2, RegionsNest
<1>6. ASSUME NEW s \in DOMAIN l.kids
      PROVE  \A y, z \in LinesOf(l, R, s) : y # z => ~Overlap(y, z)
  <2>1. R[s] \in RegionRec
    BY <1>1, <1>5, GroveParts
  <2> HIDE DEF R, l
  <2> QED BY <1>1, <1>5, <2>1, SplitTiles
<1>7. \A x : /\ x \in Cells(Whole(size)) => \/ \E p \in panes : x \in Cells(R[p])
                                            \/ \E s \in DOMAIN l.kids : LineAt(l, R, s, x)
             /\ \A p \in panes : x \in Cells(R[p]) =>
                  /\ x \in Cells(Whole(size))
                  /\ \A q \in panes : x \in Cells(R[q]) => p = q
                  /\ \A s \in DOMAIN l.kids : ~LineAt(l, R, s, x)
             /\ \A s \in DOMAIN l.kids : LineAt(l, R, s, x) =>
                  /\ x \in Cells(Whole(size))
                  /\ \A t \in DOMAIN l.kids : LineAt(l, R, t, x) => s = t
  BY <1>1, <1>2, CellIsShared
<1> HIDE DEF R, l, lines
<1>8. \A y \in lines : \A x \in Cells(y) : \E s \in DOMAIN l.kids : y \in LinesOf(l, R, s)
                                              /\ LineAt(l, R, s, x)
  BY <1>4 DEF LineAt
<1>9. UNION {Cells(x) : x \in {R[p] : p \in panes} \cup lines} = Cells(Whole(size))
  <2>1. ASSUME NEW x \in Cells(Whole(size))
        PROVE  \E y \in {R[p] : p \in panes} \cup lines : x \in Cells(y)
    <3>1. CASE \E p \in panes : x \in Cells(R[p])
      BY <3>1
    <3>2. CASE \E s \in DOMAIN l.kids : LineAt(l, R, s, x)
      BY <1>4, <3>2 DEF LineAt
    <3> QED BY <1>7, <3>1, <3>2
  <2>2. ASSUME NEW y \in {R[p] : p \in panes} \cup lines, NEW x \in Cells(y)
        PROVE  x \in Cells(Whole(size))
    BY <1>7, <1>8
  <2> QED BY <2>1, <2>2
<1>10. \A p, q \in panes : p # q => ~Overlap(R[p], R[q])
  BY <1>7 DEF Overlap
<1>11. ASSUME NEW y \in lines, NEW z \in lines, y # z PROVE ~Overlap(y, z)
  <2> SUFFICES ASSUME NEW x, x \in Cells(y), x \in Cells(z) PROVE FALSE
    BY DEF Overlap
  <2>1. PICK s \in DOMAIN l.kids : y \in LinesOf(l, R, s) /\ LineAt(l, R, s, x)
    BY <1>8
  <2>2. PICK t \in DOMAIN l.kids : z \in LinesOf(l, R, t) /\ LineAt(l, R, t, x)
    BY <1>8
  <2>3. s = t
    BY <1>7, <2>1, <2>2
  <2> QED BY <1>6, <1>11, <2>1, <2>2, <2>3 DEF Overlap
<1>12. \A p \in panes, y \in lines : ~Overlap(R[p], y)
  BY <1>7, <1>8 DEF Overlap
<1> QED BY <1>9, <1>10, <1>11, <1>12 DEF RegionsTile, Tile, R, l, lines

\* The regions of the panes and the separators cover every cell of the tray exactly once,
\* for any tree of panes and any size, also one too small for the separators
\* (pane_geometry.cc:61).
THEOREM RegionsStayTiled ==
  ASSUME SplitsNeverRunOut
  PROVE  Spec => []RegionsTile
<1>1. TreeInv /\ PanesInv => RegionsTile
  BY TreeTiles DEF TreeInv, PanesInv
<1> QED BY TreeStaysSound, PanesStayInOrder, <1>1, PTL

-----------------------------------------------------------------------------
(* The order of the leaves *)

\* The lists of leaves go from left to right.
LEMMA ListsInOrder ==
  ASSUME NEW l, NEW tops, NEW thin, Grove(l, tops, thin), NEW f, Lists(l, f, DOMAIN l.up),
         NEW n \in DOMAIN l.up, NEW x, NEW y, Ahead([z \in DOMAIN l.up |-> z], f[n], x, y)
  PROVE  Left(l, x, y)
<1> DEFINE u == l.up V == DOMAIN u id == [z \in V |-> z]
           C == {m \in V : Ahead(id, f[m], x, y)}
<1>0. Links(u) /\ IsFiniteSet(V)
  <2>1. Links(u)
    BY GroveLinks
  <2> QED BY <2>1, GroveParts
<1>1. \A m \in V : f[m] = LeafStep(l, f, m)
  BY DEF Lists
<1>2. PICK m \in C : \A c \in C : u[c] # m
  <2>1. C \subseteq DOMAIN u /\ C # {}
    OBVIOUS
  <2> HIDE DEF C, u
  <2> QED BY <1>0, <2>1, DeepNode
<1>3. m \in V /\ Ahead(id, f[m], x, y) /\ \A c \in Children(u, m) : ~Ahead(id, f[c], x, y)
  BY <1>2 DEF Children
<1> HIDE DEF C
<1>4. CASE m \notin DOMAIN l.kids
  <2>1. f[m] = <<m>>
    <3>1. IsLeaf(l, m)
      BY <1>4, GroveParts
    <3> QED BY <1>1, <1>3, <3>1 DEF LeafStep
  <2>2. Len(<<m>>) = 1
    OBVIOUS
  <2> QED BY <1>3, <2>1, <2>2 DEF Ahead
<1>5. CASE m \in DOMAIN l.kids
  <2> DEFINE K == l.kids[m] ss == [i \in DOMAIN K |-> f[K[i].node]]
  <2>1. f[m] = FlattenSeq(ss)
    <3>1. ~IsLeaf(l, m)
      BY <1>5, GroveParts
    <3>2. f[m] = LeafStep(l, f, m)
      BY <1>1, <1>3
    <3> QED BY <3>1, <3>2, Zenon DEF LeafStep
  <2>2. K \in Seq(KidRec) /\ NodesOf(K) = Children(u, m)
    BY <1>5, GroveKids
  <2> HIDE DEF K
  <2>3. /\ Len(K) \in Nat /\ DOMAIN K = 1 .. Len(K)
        /\ \A i \in 1 .. Len(K) : K[i].node \in Children(u, m) /\ K[i].node \in V
    <3>1. Len(K) \in Nat /\ DOMAIN K = 1 .. Len(K)
          /\ \A i \in 1 .. Len(K) : K[i].node \in NodesOf(K)
      BY <2>2, KidsAt
    <3> QED BY <2>2, <3>1 DEF Children
  <2>4. \A i \in 1 .. Len(K) : /\ ss[i] = f[K[i].node] /\ ss[i] \in Seq(V)
                               /\ Image(id, ss[i]) = PanesBelow(l, K[i].node)
    <3>1. ASSUME NEW c \in V PROVE f[c] \in Seq(V) /\ Image(id, f[c]) = PanesBelow(l, c)
      BY ListsAre DEF LeafList
    <3> HIDE DEF id, V
    <3> QED BY <2>3, <3>1
  <2>5. ss \in Seq(Seq(V)) /\ Len(ss) = Len(K)
    <3>1. ss \in [1 .. Len(K) -> Seq(V)]
      BY <2>3, <2>4
    <3> HIDE DEF ss
    <3> QED BY <2>3, <3>1, ListOf
  <2> HIDE DEF ss
  <2>6. Spread(id, ss, Len(K), x, y)
    <3> HIDE DEF id, V
    <3>1. Ahead(id, FlattenSeq(ss), x, y)
      BY <1>3, <2>1
    <3> QED BY <2>5, <3>1, AheadFlattened
  <2>7. \A a \in 1 .. Len(K) : ~Ahead(id, ss[a], x, y)
    BY <1>3, <2>3, <2>4
  <2>8. PICK a \in 1 .. Len(K), b \in 1 .. Len(K) :
          a < b /\ x \in Image(id, ss[a]) /\ y \in Image(id, ss[b])
    <3> HIDE DEF id
    <3> QED BY <2>6, <2>7 DEF Spread
  <2>9. K[a].node \in Up(u, x) /\ K[b].node \in Up(u, y)
    BY <2>4, <2>8 DEF PanesBelow
  <2>10. Ahead(NodeOf, K, K[a].node, K[b].node)
    BY <2>2, <2>8, KidsAhead
  <2> QED BY <1>5, <2>9, <2>10 DEF Left, K
<1> QED BY <1>4, <1>5

\* The leaves from a node are the panes below it.
LEMMA LeavesBelow ==
  ASSUME NEW l, NEW tops, NEW thin, Grove(l, tops, thin), NEW n \in DOMAIN l.up
  PROVE  /\ LeavesFrom(l, n) \in Seq(DOMAIN l.up) /\ ToSet(LeavesFrom(l, n)) = PanesBelow(l, n)
         /\ \A x, y : Ahead([z \in DOMAIN l.up |-> z], LeavesFrom(l, n), x, y) => Left(l, x, y)
<1> DEFINE V == DOMAIN l.up id == [x \in V |-> x]
           f == CHOOSE g : g = [m \in V |-> LeafStep(l, g, m)]
           s == LeavesFrom(l, n)
<1>1. s = f[n]
  BY GroveParts DEF LeavesFrom, LeafStep, Nodes
<1>2. Lists(l, f, V)
  <2>1. \E g : g = [m \in V |-> LeafStep(l, g, m)]
    BY ListsExist DEF Lists
  <2>2. f = [m \in V |-> LeafStep(l, f, m)]
    BY <2>1
  <2> HIDE DEF f
  <2> QED BY <2>2 DEF Lists
<1> HIDE DEF s, f
<1>3. s \in Seq(V) /\ Image(id, s) = PanesBelow(l, n)
  BY <1>1, <1>2, ListsAre DEF LeafList
<1>4. ToSet(s) = PanesBelow(l, n)
  <2>1. DOMAIN s = 1 .. Len(s) /\ \A i \in 1 .. Len(s) : s[i] \in V /\ id[s[i]] = s[i]
    BY <1>3
  <2> HIDE DEF id
  <2> QED BY <1>3, <2>1 DEF Image, ToSet
<1>5. ASSUME NEW x, NEW y, Ahead(id, s, x, y) PROVE Left(l, x, y)
  BY <1>1, <1>2, <1>5, ListsInOrder
<1> QED BY <1>3, <1>4, <1>5 DEF s

\* A pane stands before another in the list of leaves when it is left of it.
LEMMA LeavesPrecede ==
  ASSUME NEW l, NEW thin, Grove(l, {l.root}, thin), NEW x \in Nodes(l) \cap Pane,
         NEW y \in Nodes(l) \cap Pane
  PROVE  Precedes(Leaves(l), x, y) <=> Left(l, x, y)
<1> DEFINE V == DOMAIN l.up id == [z \in V |-> z] s == Leaves(l)
<1>1. Nodes(l) = V /\ l.root \in V
  BY GroveParts
<1>2. s \in Seq(V) /\ \A p, q : Ahead(id, s, p, q) => Left(l, p, q)
  BY <1>1, LeavesBelow DEF Leaves
<1>3. ToSet(s) = Nodes(l) \cap Pane
  BY LeavesAre
<1> HIDE DEF s
<1>4. Len(s) \in Nat /\ DOMAIN s = 1 .. Len(s) /\ \A i \in 1 .. Len(s) : s[i] \in V /\ id[s[i]] = s[i]
  BY <1>2
<1>5. \A p, q : Precedes(s, p, q) => Left(l, p, q)
  BY <1>2, <1>4 DEF Precedes, Ahead
<1>6. ASSUME Left(l, x, y) PROVE Precedes(s, x, y)
  <2>1. x # y /\ ~Left(l, y, x)
    BY <1>1, <1>6, LeftOneWay
  <2>2. PICK i \in 1 .. Len(s), j \in 1 .. Len(s) : s[i] = x /\ s[j] = y
    BY <1>3, <1>4 DEF ToSet
  <2>3. ~(j < i)
    BY <1>4, <1>5, <2>1, <2>2 DEF Precedes
  <2>4. i < j
    BY <1>4, <2>1, <2>2, <2>3
  <2> QED BY <1>4, <2>2, <2>4 DEF Precedes
<1> QED BY <1>5, <1>6 DEF s

-----------------------------------------------------------------------------
(* Edits that keep the order *)

\* What stands left of what among the nodes S stays so from l to m.
Keeps(l, m, S) == \A x, y \in S : Left(l, x, y) => Left(m, x, y)

\* What is below c is left of what is below d when c is left of d.
LEMMA LeftBelow ==
  ASSUME NEW l, NEW tops, NEW thin, Grove(l, tops, thin), NEW x \in DOMAIN l.up,
         NEW y \in DOMAIN l.up, NEW c \in Up(l.up, x), NEW d \in Up(l.up, y), Left(l, c, d)
  PROVE  Left(l, x, y)
<1>0. Links(l.up)
  BY GroveLinks
<1>1. Up(l.up, c) \subseteq Up(l.up, x) /\ Up(l.up, d) \subseteq Up(l.up, y)
  BY <1>0, UpTransitive
<1> QED BY <1>1 DEF Left

\* A node keeps those above it that are no tops when each of them keeps its parent above it.
LEMMA UpKept ==
  ASSUME NEW u, NEW v, Links(u), Links(v), NEW B, Upward(u, B), B \subseteq DOMAIN u,
         NEW x \in B, x \in DOMAIN v,
         \A n \in B : n \in DOMAIN v /\ u[n] # NoNode /\ u[u[n]] # NoNode => u[n] \in Up(v, n)
  PROVE  \A c \in Up(u, x) : c \in B /\ (u[c] # NoNode => c \in Up(v, x))
<1> DEFINE A == {n \in B : u[n] # NoNode => n \in Up(v, x)}
<1>1. x \in Up(v, x) /\ \A n \in Up(v, x) : n \in DOMAIN v /\ Up(v, n) \subseteq Up(v, x)
  BY UpIsUpward, UpTransitive
<1>2. ASSUME NEW n \in A PROVE u[n] \in A \cup {NoNode}
  <2> SUFFICES ASSUME u[n] # NoNode PROVE u[n] \in A
    OBVIOUS
  <2>1. n \in B /\ n \in Up(v, x) /\ u[n] \in B
    BY DEF Upward
  <2>2. u[u[n]] # NoNode => u[n] \in Up(v, x)
    BY <1>1, <2>1
  <2> QED BY <2>1, <2>2
<1>3. Upward(u, A) /\ x \in A /\ A \subseteq DOMAIN u
  BY <1>1, <1>2 DEF Upward
<1> QED BY <1>3 DEF Up

\* An edit keeps the order of nodes that keep what is above them and whose parting children
\* stay in order.
LEMMA Edited ==
  ASSUME NEW l, NEW tops, NEW thin, Grove(l, tops, thin),
         NEW m, NEW tops2, NEW thin2, Grove(m, tops2, thin2),
         NEW B, Upward(l.up, B), NEW S, S \subseteq B \cap DOMAIN m.up,
         \A n \in B : n \in DOMAIN m.up /\ l.up[n] # NoNode /\ l.up[l.up[n]] # NoNode
                        => l.up[n] \in Up(m.up, n),
         \A s \in DOMAIN l.kids : \A c, d \in B : Ahead(NodeOf, l.kids[s], c, d) => Left(m, c, d)
  PROVE  Keeps(l, m, S)
<1> SUFFICES ASSUME NEW x \in S, NEW y \in S, Left(l, x, y) PROVE Left(m, x, y)
  BY DEF Keeps
<1>0. Links(l.up) /\ Links(m.up) /\ B \subseteq DOMAIN l.up
  BY GroveLinks DEF Upward
<1>1. x \in B /\ y \in B /\ x \in DOMAIN m.up /\ y \in DOMAIN m.up
  OBVIOUS
<1>2. PICK c \in Up(l.up, x), d \in Up(l.up, y) :
        /\ c \in DOMAIN l.up /\ d \in DOMAIN l.up /\ c # d
        /\ l.up[c] \in DOMAIN l.kids /\ l.up[d] = l.up[c] /\ l.up[c] # NoNode
        /\ Ahead(NodeOf, l.kids[l.up[c]], c, d)
  BY <1>0, <1>1, LeftParts
<1>3. c \in B /\ c \in Up(m.up, x)
  BY <1>0, <1>1, <1>2, UpKept
<1>4. d \in B /\ d \in Up(m.up, y)
  BY <1>0, <1>1, <1>2, UpKept
<1>5. Left(m, c, d)
  BY <1>2, <1>3, <1>4
<1> QED BY <1>1, <1>3, <1>4, <1>5, LeftBelow

\* Of two panes below one node one is left of the other.
LEMMA LeftOrRight ==
  ASSUME NEW l, NEW tops, NEW thin, Grove(l, tops, thin), NEW r \in DOMAIN l.up,
         NEW x \in PanesBelow(l, r), NEW y \in PanesBelow(l, r), x # y
  PROVE  Left(l, x, y) \/ Left(l, y, x)
<1> DEFINE V == DOMAIN l.up id == [z \in V |-> z] s == LeavesFrom(l, r)
<1>1. s \in Seq(V) /\ ToSet(s) = PanesBelow(l, r) /\ \A p, q : Ahead(id, s, p, q) => Left(l, p, q)
  BY LeavesBelow
<1> HIDE DEF s
<1>2. Len(s) \in Nat /\ DOMAIN s = 1 .. Len(s) /\ \A i \in 1 .. Len(s) : id[s[i]] = s[i]
  BY <1>1
<1> HIDE DEF id
<1>3. PICK i \in 1 .. Len(s), j \in 1 .. Len(s) : s[i] = x /\ s[j] = y
  BY <1>1, <1>2 DEF ToSet
<1>4. i < j \/ j < i
  BY <1>2, <1>3
<1>5. Ahead(id, s, x, y) \/ Ahead(id, s, y, x)
  BY <1>2, <1>3, <1>4 DEF Ahead
<1> QED BY <1>1, <1>5

\* In a tree one of two panes is left of the other.
LEMMA LeftInTree ==
  ASSUME NEW l, NEW thin, Grove(l, {l.root}, thin)
  PROVE  /\ l.root \in DOMAIN l.up /\ PanesBelow(l, l.root) = DOMAIN l.up \cap Pane
         /\ \A x, y \in DOMAIN l.up \cap Pane : x # y => Left(l, x, y) \/ Left(l, y, x)
<1>1. l.root \in DOMAIN l.up /\ {l.root} = {n \in DOMAIN l.up : l.up[n] = NoNode}
  BY GroveParts
<1>2. Links(l.up)
  BY GroveLinks
<1>3. PanesBelow(l, l.root) = DOMAIN l.up \cap Pane
  BY <1>1, <1>2, UpToTheTop DEF PanesBelow
<1> QED BY <1>1, <1>3, LeftOrRight

\* Where the order of panes below one node comes from l, l has no other.
LEMMA KeepsBack ==
  ASSUME NEW l, NEW tops, NEW thin, Grove(l, tops, thin),
         NEW m, NEW tops2, NEW thin2, Grove(m, tops2, thin2), NEW r \in DOMAIN m.up,
         NEW S, S \subseteq PanesBelow(m, r) \cap DOMAIN l.up, Keeps(m, l, S)
  PROVE  Keeps(l, m, S)
<1> SUFFICES ASSUME NEW x \in S, NEW y \in S, Left(l, x, y) PROVE Left(m, x, y)
  BY DEF Keeps
<1>1. x # y /\ ~Left(l, y, x)
  BY LeftOneWay
<1>2. Left(m, x, y) \/ Left(m, y, x)
  BY <1>1, LeftOrRight
<1> QED BY <1>1, <1>2 DEF Keeps

\* One edit after the other.
LEMMA KeepsOn ==
  ASSUME NEW l, NEW m, NEW n, NEW S, Keeps(l, m, S), Keeps(m, n, S)
  PROVE  Keeps(l, n, S)
  BY DEF Keeps

\* The lists of leaves of trees that keep the order of some panes.
LEMMA LeavesKept ==
  ASSUME NEW l, NEW thin, Grove(l, {l.root}, thin), NEW m, NEW thin2, Grove(m, {m.root}, thin2),
         NEW S, S \subseteq Nodes(l) \cap Nodes(m) \cap Pane, Keeps(l, m, S)
  PROVE  SameOrder(Leaves(l), Leaves(m), S)
<1> SUFFICES ASSUME NEW i \in DOMAIN Leaves(l), NEW j \in DOMAIN Leaves(l), i < j,
                    Leaves(l)[i] \in S, Leaves(l)[j] \in S
             PROVE  Precedes(Leaves(m), Leaves(l)[i], Leaves(l)[j])
  BY DEF SameOrder
<1> DEFINE x == Leaves(l)[i] y == Leaves(l)[j]
<1>1. Precedes(Leaves(l), x, y)
  BY DEF Precedes
<1> HIDE DEF x, y
<1>2. x \in S /\ y \in S
  BY DEF x, y
<1>3. Left(l, x, y)
  BY <1>1, <1>2, LeavesPrecede
<1>4. Left(m, x, y)
  BY <1>2, <1>3 DEF Keeps
<1>5. Precedes(Leaves(m), x, y)
  BY <1>2, <1>4, LeavesPrecede
<1> QED BY <1>5 DEF x, y

-----------------------------------------------------------------------------
(* The order of the children in an edited list *)

\* The order of children in a row of two lists, and in one of three.
LEMMA AheadKids ==
  ASSUME NEW K \in Seq(KidRec), NEW M \in Seq(KidRec), NEW c, NEW d
  PROVE  Ahead(NodeOf, Join(K, M), c, d)
           <=> \/ Ahead(NodeOf, K, c, d) \/ Ahead(NodeOf, M, c, d)
               \/ c \in NodesOf(K) /\ d \in NodesOf(M)
<1>1. Image(NodeOf, K) = NodesOf(K) /\ Image(NodeOf, M) = NodesOf(M)
  BY NodesAreImage
<1>2. Ahead(NodeOf, Join(K, M), c, d)
           <=> \/ Ahead(NodeOf, K, c, d) \/ Ahead(NodeOf, M, c, d)
               \/ c \in Image(NodeOf, K) /\ d \in Image(NodeOf, M)
  BY AheadJoined
<1> QED BY <1>1, <1>2

\* What stands before what in three lists in a row.
LEMMA AheadThree ==
  ASSUME NEW A \in Seq(KidRec), NEW B \in Seq(KidRec), NEW C \in Seq(KidRec), NEW c, NEW d
  PROVE  Ahead(NodeOf, Join(Join(A, B), C), c, d)
           <=> \/ Ahead(NodeOf, A, c, d) \/ Ahead(NodeOf, B, c, d) \/ Ahead(NodeOf, C, c, d)
               \/ c \in NodesOf(A) /\ d \in NodesOf(B)
               \/ c \in NodesOf(A) /\ d \in NodesOf(C)
               \/ c \in NodesOf(B) /\ d \in NodesOf(C)
<1>1. Join(A, B) \in Seq(KidRec) /\ NodesOf(Join(A, B)) = NodesOf(A) \cup NodesOf(B)
  BY KidsJoined
<1>2. Ahead(NodeOf, Join(A, B), c, d)
        <=> \/ Ahead(NodeOf, A, c, d) \/ Ahead(NodeOf, B, c, d)
            \/ c \in NodesOf(A) /\ d \in NodesOf(B)
  BY AheadKids
<1>3. Ahead(NodeOf, Join(Join(A, B), C), c, d)
        <=> \/ Ahead(NodeOf, Join(A, B), c, d) \/ Ahead(NodeOf, C, c, d)
            \/ c \in NodesOf(Join(A, B)) /\ d \in NodesOf(C)
  BY <1>1, AheadKids
<1> QED BY <1>1, <1>2, <1>3

\* K and R differ only in having B and new between the same two ends.
SameEnds(K, B, R, new) ==
  /\ B \in Seq(KidRec)
  /\ \E A, C \in Seq(KidRec) : K = Join(Join(A, B), C) /\ R = Join(Join(A, new), C)

\* Replacing a stretch of a list leaves its two ends.
LEMMA SharedEnds ==
  ASSUME NEW K \in Seq(KidRec), NEW i \in 1 .. Len(K) + 1, NEW n \in Nat,
         (i + n) - 1 <= Len(K), NEW new
  PROVE  SameEnds(K, Cut(K, i, (i + n) - 1), Replace(K, i, n, new), new)
<1> DEFINE j == (i + n) - 1
           A == Cut(K, 1, i - 1)
           B == Cut(K, i, j)
           C == Cut(K, j + 1, Len(K))
<1>1. j \in (i - 1) .. Len(K) /\ j + 1 = i + n
  OBVIOUS
<1>2. Replace(K, i, n, new) = Join(Join(A, new), C)
  BY <1>1 DEF Replace, Join, Cut
<1> HIDE DEF j
<1>3. A \in Seq(KidRec) /\ B \in Seq(KidRec) /\ C \in Seq(KidRec) /\ K = Join(Join(A, B), C)
  BY <1>1, KidsCut
<1> HIDE DEF A, B, C
<1>4. SameEnds(K, B, Replace(K, i, n, new), new)
  BY <1>2, <1>3 DEF SameEnds
<1> QED BY <1>4 DEF B, j

\* The order of children when one of them, e, gives way to others.
LEMMA AheadReplaced ==
  ASSUME NEW K \in Seq(KidRec), Distinct(K), NEW i \in 1 .. Len(K), NEW e, e = K[i].node,
         NEW new \in Seq(KidRec), NEW c, NEW d
  PROVE  Ahead(NodeOf, Replace(K, i, 1, new), c, d)
           <=> \/ Ahead(NodeOf, K, c, d) /\ c # e /\ d # e
               \/ Ahead(NodeOf, new, c, d)
               \/ Ahead(NodeOf, K, e, d) /\ c \in NodesOf(new)
               \/ Ahead(NodeOf, K, c, e) /\ d \in NodesOf(new)
<1> DEFINE B == Cut(K, i, i) R == Replace(K, i, 1, new)
<1>1. (i + 1) - 1 = i /\ i \in 1 .. Len(K) + 1 /\ i <= Len(K)
  OBVIOUS
<1>2. NodesOf(B) = {e}
  BY KidsSingle
<1>3. SameEnds(K, B, R, new)
  <2>1. SameEnds(K, Cut(K, i, (i + 1) - 1), Replace(K, i, 1, new), new)
    BY <1>1, SharedEnds
  <2> QED BY <1>1, <2>1
<1> HIDE DEF B, R
<1>4. PICK A \in Seq(KidRec), C \in Seq(KidRec) : K = Join(Join(A, B), C)
                                                  /\ R = Join(Join(A, new), C)
  BY <1>3 DEF SameEnds
<1>a. B \in Seq(KidRec)
  BY <1>3 DEF SameEnds
<1>5. /\ NodesOf(A) \cap NodesOf(B) = {} /\ NodesOf(A) \cap NodesOf(C) = {}
      /\ NodesOf(B) \cap NodesOf(C) = {} /\ Distinct(B)
  BY <1>a, <1>4, KidsThree
<1>6. \A x, y : Ahead(NodeOf, K, x, y)
        <=> \/ Ahead(NodeOf, A, x, y) \/ Ahead(NodeOf, B, x, y) \/ Ahead(NodeOf, C, x, y)
            \/ x \in NodesOf(A) /\ y \in NodesOf(B)
            \/ x \in NodesOf(A) /\ y \in NodesOf(C)
            \/ x \in NodesOf(B) /\ y \in NodesOf(C)
  BY <1>a, <1>4, AheadThree
<1>7. Ahead(NodeOf, R, c, d)
        <=> \/ Ahead(NodeOf, A, c, d) \/ Ahead(NodeOf, new, c, d) \/ Ahead(NodeOf, C, c, d)
            \/ c \in NodesOf(A) /\ d \in NodesOf(new)
            \/ c \in NodesOf(A) /\ d \in NodesOf(C)
            \/ c \in NodesOf(new) /\ d \in NodesOf(C)
  BY <1>4, AheadThree
<1>8. \A x, y : /\ (Ahead(NodeOf, A, x, y) => x \in NodesOf(A) /\ y \in NodesOf(A))
                /\ (Ahead(NodeOf, C, x, y) => x \in NodesOf(C) /\ y \in NodesOf(C))
                /\ ~Ahead(NodeOf, B, x, y)
  BY <1>2, <1>a, <1>5, KidsAhead
<1>9. Ahead(NodeOf, R, c, d)
           <=> \/ Ahead(NodeOf, K, c, d) /\ c # e /\ d # e
               \/ Ahead(NodeOf, new, c, d)
               \/ Ahead(NodeOf, K, e, d) /\ c \in NodesOf(new)
               \/ Ahead(NodeOf, K, c, e) /\ d \in NodesOf(new)
  BY <1>2, <1>5, <1>6, <1>7, <1>8
<1> QED BY <1>9 DEF R

\* The order of the children that stay when one leaves.
LEMMA AheadRemoved ==
  ASSUME NEW K \in Seq(KidRec), Distinct(K), NEW i \in 1 .. Len(K), NEW e, e = K[i].node,
         NEW c, NEW d
  PROVE  Ahead(NodeOf, RemoveAt(K, i), c, d) <=> Ahead(NodeOf, K, c, d) /\ c # e /\ d # e
<1>1. Replace(K, i, 1, <<>>) = RemoveAt(K, i)
  <2> DEFINE A == SubSeq(K, 1, i - 1) C == SubSeq(K, i + 1, Len(K))
  <2>1. A \in Seq(KidRec)
    BY SMTT(30)
  <2>2. A \o <<>> = A
    BY <2>1
  <2> HIDE DEF A, C
  <2> QED BY <2>2 DEF Replace, RemoveAt, A, C
<1>2. PICK none \in Seq(KidRec) : none = <<>>
  <2>1. <<>> \in Seq(KidRec)
    OBVIOUS
  <2> QED BY <2>1
<1>3. Len(none) = 0 /\ 1 .. Len(none) = {}
  <2>1. 1 .. 0 = {}
    OBVIOUS
  <2> QED BY <1>2, <2>1
<1>4. NodesOf(none) = {} /\ ~Ahead(NodeOf, none, c, d)
  BY <1>3 DEF Ahead, NodesOf
<1>5. Ahead(NodeOf, Replace(K, i, 1, none), c, d)
           <=> \/ Ahead(NodeOf, K, c, d) /\ c # e /\ d # e
               \/ Ahead(NodeOf, none, c, d)
               \/ Ahead(NodeOf, K, e, d) /\ c \in NodesOf(none)
               \/ Ahead(NodeOf, K, c, e) /\ d \in NodesOf(none)
  BY AheadReplaced, ZenonT(60)
<1> QED BY <1>1, <1>2, <1>4, <1>5

\* Lists of the same nodes have one order.
LEMMA AheadSame ==
  ASSUME NEW K \in Seq(KidRec), NEW M \in Seq(KidRec), KidNodes(M) = KidNodes(K), NEW c, NEW d
  PROVE  Ahead(NodeOf, M, c, d) <=> Ahead(NodeOf, K, c, d)
<1>1. Len(M) = Len(K) /\ \A i \in 1 .. Len(K) : M[i].node = K[i].node
  BY KidNodesOf
<1> QED BY <1>1, KidsAhead

\* The order of the children that stand for nodes of a set.
LEMMA AheadAmong ==
  ASSUME NEW K \in Seq(KidRec), Distinct(K), NEW S, NEW c, NEW d
  PROVE  Ahead(NodeOf, Among(K, S), c, d) <=> Ahead(NodeOf, K, c, d) /\ c \in S /\ d \in S
<1> DEFINE n == Len(K)
           ss == [i \in 1 .. n |-> IF K[i].node \in S THEN <<K[i]>> ELSE <<>>]
<1>1. n \in Nat /\ DOMAIN K = 1 .. n /\ \A i \in 1 .. n : K[i] \in KidRec /\ NodeOf[K[i]] = K[i].node
  BY KidsAt DEF NodeOf
<1>2. ASSUME NEW i \in 1 .. n
      PROVE  /\ ss[i] \in Seq(KidRec) /\ ~Ahead(NodeOf, ss[i], c, d)
             /\ Image(NodeOf, ss[i]) = {K[i].node} \cap S
  <2>1. CASE K[i].node \in S
    <3>1. PICK k \in KidRec : k = K[i]
      BY <1>1
    <3>2. PICK L : L = <<k>>
      OBVIOUS
    <3>3. L \in Seq(KidRec) /\ Len(L) = 1 /\ L[1] = k
      BY <3>2
    <3>4. ss[i] = L
      BY <2>1, <3>1, <3>2
    <3>5. 1 .. Len(L) = {1}
      BY <3>3
    <3>6. Image(NodeOf, L) = {k.node} /\ ~Ahead(NodeOf, L, c, d)
      BY <1>1, <3>1, <3>3, <3>5 DEF Image, Ahead
    <3> QED BY <2>1, <3>1, <3>3, <3>4, <3>6
  <2>2. CASE K[i].node \notin S
    <3>1. ss[i] = <<>>
      BY <2>2
    <3>2. <<>> \in Seq(KidRec) /\ Len(<<>>) = 0 /\ 1 .. 0 = {}
      OBVIOUS
    <3>3. Image(NodeOf, <<>>) = {} /\ ~Ahead(NodeOf, <<>>, c, d)
      BY <3>2 DEF Image, Ahead
    <3> QED BY <2>2, <3>1, <3>2, <3>3
  <2> QED BY <2>1, <2>2
<1>3. DOMAIN ss = 1 .. n /\ Among(K, S) = FlattenSeq(ss)
  BY <1>1 DEF Among
<1> HIDE DEF ss
<1>4. ss \in [1 .. n -> Seq(KidRec)]
  <2>1. ss = [i \in 1 .. n |-> ss[i]]
    BY <1>3 DEF ss
  <2> QED BY <1>2, <2>1
<1>5. ss \in Seq(Seq(KidRec)) /\ Len(ss) = n
  BY <1>1, <1>4, ListOf
<1>6. Ahead(NodeOf, Among(K, S), c, d) <=> Spread(NodeOf, ss, n, c, d)
  BY <1>3, <1>5, AheadFlattened
<1>7. Spread(NodeOf, ss, n, c, d)
        <=> \E a, b \in 1 .. n : a < b /\ c = K[a].node /\ c \in S /\ d = K[b].node /\ d \in S
  BY <1>2 DEF Spread
<1>8. Ahead(NodeOf, K, c, d) <=> \E a, b \in 1 .. n : a < b /\ K[a].node = c /\ K[b].node = d
  BY KidsAhead
<1> QED BY <1>6, <1>7, <1>8

-----------------------------------------------------------------------------
(* The edits of a layout *)

\* The order of fewer nodes is kept too.
LEMMA KeepsFewer ==
  ASSUME NEW l, NEW m, NEW S, NEW T, T \subseteq S, Keeps(l, m, S)
  PROVE  Keeps(l, m, T)
  BY DEF Keeps

\* What is above a node, one and two links up.
LEMMA UpOne ==
  ASSUME NEW u, Links(u), NEW n \in DOMAIN u, u[n] # NoNode
  PROVE  /\ u[n] \in DOMAIN u /\ u[n] \in Up(u, n) /\ n \in Up(u, n)
         /\ u[u[n]] # NoNode => u[u[n]] \in DOMAIN u /\ u[u[n]] \in Up(u, n)
<1>1. u[n] \in DOMAIN u /\ Up(u, n) = {n} \cup Up(u, u[n])
  BY UpStep
<1>2. u[n] \in Up(u, u[n])
  BY <1>1, UpIsUpward
<1>3. u[u[n]] # NoNode => u[u[n]] \in DOMAIN u /\ Up(u, u[n]) = {u[n]} \cup Up(u, u[u[n]])
  BY <1>1, UpStep
<1>4. u[u[n]] # NoNode => u[u[n]] \in Up(u, u[u[n]])
  BY <1>3, UpIsUpward
<1> QED BY <1>1, <1>2, <1>3, <1>4

\* As Edited, where only the children that the nodes of S hang below need to stay in order.
LEMMA EditedFor ==
  ASSUME NEW l, NEW tops, NEW thin, Grove(l, tops, thin),
         NEW m, NEW tops2, NEW thin2, Grove(m, tops2, thin2),
         NEW B, Upward(l.up, B), NEW S, S \subseteq B \cap DOMAIN m.up,
         \A n \in B : n \in DOMAIN m.up /\ l.up[n] # NoNode /\ l.up[l.up[n]] # NoNode
                        => l.up[n] \in Up(m.up, n),
         \A s \in DOMAIN l.kids : \A x, y \in S : \A c \in Up(l.up, x), d \in Up(l.up, y) :
           Ahead(NodeOf, l.kids[s], c, d) => Left(m, c, d)
  PROVE  Keeps(l, m, S)
<1> SUFFICES ASSUME NEW x \in S, NEW y \in S, Left(l, x, y) PROVE Left(m, x, y)
  BY DEF Keeps
<1>0. Links(l.up) /\ Links(m.up) /\ B \subseteq DOMAIN l.up
  BY GroveLinks DEF Upward
<1>1. x \in B /\ y \in B /\ x \in DOMAIN m.up /\ y \in DOMAIN m.up
  OBVIOUS
<1>2. PICK c \in Up(l.up, x), d \in Up(l.up, y) :
        /\ c \in DOMAIN l.up /\ d \in DOMAIN l.up /\ c # d
        /\ l.up[c] \in DOMAIN l.kids /\ l.up[d] = l.up[c] /\ l.up[c] # NoNode
        /\ Ahead(NodeOf, l.kids[l.up[c]], c, d)
  BY <1>0, <1>1, LeftParts
<1>3. c \in B /\ c \in Up(m.up, x)
  BY <1>0, <1>1, <1>2, UpKept
<1>4. d \in B /\ d \in Up(m.up, y)
  BY <1>0, <1>1, <1>2, UpKept
<1>5. Left(m, c, d)
  BY <1>2
<1> QED BY <1>1, <1>3, <1>4, <1>5, LeftBelow

\* Children of one split in a row: the shortest way to stand left.
LEMMA LeftKids ==
  ASSUME NEW m, NEW tops, NEW thin, Grove(m, tops, thin), NEW s \in DOMAIN m.kids, NEW c, NEW d,
         Ahead(NodeOf, m.kids[s], c, d)
  PROVE  c \in DOMAIN m.up /\ d \in DOMAIN m.up /\ Left(m, c, d)
<1>1. m.kids[s] \in Seq(KidRec) /\ NodesOf(m.kids[s]) = Children(m.up, s)
  BY GroveKids
<1>2. c \in Children(m.up, s) /\ d \in Children(m.up, s)
  BY <1>1, KidsAhead
<1>3. Links(m.up) /\ c \in DOMAIN m.up /\ d \in DOMAIN m.up
  BY <1>2, GroveLinks DEF Children
<1>4. c \in Up(m.up, c) /\ d \in Up(m.up, d)
  BY <1>3, UpIsUpward
<1> QED BY <1>3, <1>4 DEF Left

\* The same from children further up.
LEMMA LeftFrom ==
  ASSUME NEW m, NEW tops, NEW thin, Grove(m, tops, thin), NEW s \in DOMAIN m.kids,
         NEW x, NEW y, NEW c \in Up(m.up, x), NEW d \in Up(m.up, y),
         Ahead(NodeOf, m.kids[s], c, d)
  PROVE  Left(m, x, y)
  BY DEF Left

\* Trees with the same nodes, links and orders of children have the same order.
LEMMA SameKeeps ==
  ASSUME NEW l, NEW m, Grove(l, {l.root}, {}), Grove(m, {m.root}, {}), m.up = l.up,
         DOMAIN m.kids = DOMAIN l.kids,
         \A s \in DOMAIN l.kids : \A c, d : Ahead(NodeOf, l.kids[s], c, d)
                                               => Ahead(NodeOf, m.kids[s], c, d)
  PROVE  \A S : Keeps(l, m, S)
  BY DEF Keeps, Left

\* An edit of nothing but shares keeps the order.
LEMMA SameTreeKeeps ==
  ASSUME NEW l, NEW m, Grove(l, {l.root}, {}), SameTree(l, m)
  PROVE  \A S : Keeps(l, m, S)
<1>1. /\ Grove(m, {m.root}, {}) /\ m.up = l.up /\ DOMAIN m.kids = DOMAIN l.kids
      /\ \A s \in DOMAIN l.kids : KidNodes(m.kids[s]) = KidNodes(l.kids[s])
  BY DEF SameTree
<1>2. ASSUME NEW s \in DOMAIN l.kids, NEW c, NEW d, Ahead(NodeOf, l.kids[s], c, d)
      PROVE  Ahead(NodeOf, m.kids[s], c, d)
  <2>1. l.kids[s] \in Seq(KidRec) /\ m.kids[s] \in Seq(KidRec)
    BY <1>1, GroveKids
  <2> QED BY <1>1, <1>2, <2>1, AheadSame
<1> QED BY <1>1, <1>2, SameKeeps

\* The nodes, links and lists after each of the edits.
LEMMA AdoptAt ==
  ASSUME NEW l, l = Lay(l.root, l.axis, l.kids, l.up), NEW s, NEW K \in Seq(KidRec),
         NEW m, m = Adopt(l, s, K)
  PROVE  /\ m = Lay(m.root, m.axis, m.kids, m.up) /\ m.root = l.root /\ m.axis = l.axis
         /\ DOMAIN m.up = DOMAIN l.up \cup NodesOf(K)
         /\ \A n \in DOMAIN m.up : m.up[n] = IF n \in NodesOf(K) THEN s ELSE l.up[n]
         /\ DOMAIN m.kids = DOMAIN l.kids \cup {s} /\ m.kids[s] = K
         /\ \A q \in DOMAIN l.kids : q # s => m.kids[q] = l.kids[q]
<1> DEFINE r == l.root a == l.axis k == l.kids u == l.up
<1>1. l = Lay(r, a, k, u)
  OBVIOUS
<1> HIDE DEF r, a, k, u
<1>2. m = Lay(r, a, Set(k, s, K), Parented(u, s, NodesOf(K)))
  BY <1>1, AdoptParts
<1>3. m.root = r /\ m.axis = a /\ m.kids = Set(k, s, K) /\ m.up = Parented(u, s, NodesOf(K))
  BY <1>2, LayParts
<1>4. /\ DOMAIN m.up = DOMAIN u \cup NodesOf(K)
      /\ \A n \in DOMAIN m.up : m.up[n] = IF n \in NodesOf(K) THEN s ELSE u[n]
  BY <1>3 DEF Parented
<1>5. /\ DOMAIN m.kids = DOMAIN k \cup {s} /\ m.kids[s] = K
      /\ \A q \in DOMAIN k : q # s => m.kids[q] = k[q]
  BY <1>3 DEF Set
<1> QED BY <1>2, <1>3, <1>4, <1>5 DEF r, a, k, u

\* m is l without the nodes X.
Erased(l, X, m) ==
  /\ m.root = l.root
  /\ DOMAIN m.up = DOMAIN l.up \ X
  /\ \A n \in DOMAIN m.up : m.up[n] = l.up[n]
  /\ DOMAIN m.kids = DOMAIN l.kids \cap (DOMAIN l.up \ X)
  /\ \A q \in DOMAIN m.kids : m.kids[q] = l.kids[q]

\* Erase takes the nodes of X out.
LEMMA EraseAt ==
  ASSUME NEW l, l = Lay(l.root, l.axis, l.kids, l.up), NEW X
  PROVE  Erased(l, X, Erase(l, X)) /\ LET m == Erase(l, X) IN m = Lay(m.root, m.axis, m.kids, m.up)
<1> DEFINE r == l.root a == l.axis k == l.kids u == l.up D == DOMAIN u \ X m == Erase(l, X)
<1>1. l = Lay(r, a, k, u)
  OBVIOUS
<1> HIDE DEF r, a, k, u
<1>2. m = Lay(r, Keep(a, D), Keep(k, D), Keep(u, D))
  BY <1>1, EraseParts
<1> HIDE DEF m
<1>3. m.root = r /\ m.axis = Keep(a, D) /\ m.kids = Keep(k, D) /\ m.up = Keep(u, D)
  BY <1>2, LayParts
<1>4. DOMAIN m.up = D /\ \A n \in DOMAIN m.up : m.up[n] = u[n]
  BY <1>3 DEF Keep
<1>5. DOMAIN m.kids = DOMAIN k \cap D /\ \A q \in DOMAIN m.kids : m.kids[q] = k[q]
  BY <1>3 DEF Keep
<1>6. Erased(l, X, m)
  BY <1>3, <1>4, <1>5 DEF r, a, k, u, Erased
<1>7. m = Lay(m.root, m.axis, m.kids, m.up)
  BY <1>2, <1>3
<1> QED BY <1>6, <1>7 DEF m

\* TakePlace puts w where t was.
LEMMA TakePlaceAt ==
  ASSUME NEW l, l = Lay(l.root, l.axis, l.kids, l.up), NEW t \in DOMAIN l.up,
         l.up[t] = NoNode => l.root = t, l.root = t => l.up[t] = NoNode, NEW w,
         NEW m, m = TakePlace(l, t, w)
  PROVE  /\ m = Lay(m.root, m.axis, m.kids, m.up) /\ m.axis = l.axis
         /\ DOMAIN m.up = DOMAIN l.up \cup {w}
         /\ \A n \in DOMAIN m.up : m.up[n] = IF n = w THEN l.up[t] ELSE l.up[n]
         /\ DOMAIN m.kids = DOMAIN l.kids
         /\ \A q \in DOMAIN l.kids :
              m.kids[q] = IF l.up[t] = q /\ q # NoNode THEN WithNode(l.kids[q], t, w) ELSE l.kids[q]
<1> DEFINE r == l.root a == l.axis k == l.kids u == l.up
<1>1. l = Lay(r, a, k, u) /\ (u[t] = NoNode => r = t) /\ (r = t => u[t] = NoNode) /\ t \in DOMAIN u
  OBVIOUS
<1> HIDE DEF r, a, k, u
<1>2. m = Lay(IF r = t THEN w ELSE r, a, Renamed(k, u, t, w), Set(u, w, u[t]))
  BY <1>1, TakePlaceParts
<1>3. m.axis = a /\ m.kids = Renamed(k, u, t, w) /\ m.up = Set(u, w, u[t])
      /\ m.root = IF r = t THEN w ELSE r
  BY <1>2, LayParts
<1>4. /\ DOMAIN m.up = DOMAIN u \cup {w}
      /\ \A n \in DOMAIN m.up : m.up[n] = IF n = w THEN u[t] ELSE u[n]
  BY <1>3 DEF Set
<1>5. /\ DOMAIN m.kids = DOMAIN k
      /\ \A q \in DOMAIN k :
           m.kids[q] = IF u[t] = q /\ q # NoNode THEN WithNode(k[q], t, w) ELSE k[q]
  BY <1>3 DEF Renamed
<1> QED BY <1>2, <1>3, <1>4, <1>5 DEF r, a, k, u

\* The order of children when one of them, e, gives its place to another.
LEMMA AheadRenamed ==
  ASSUME NEW K \in Seq(KidRec), Distinct(K), NEW e \in NodesOf(K),
         NEW n \in Pane \cup Split, n \notin NodesOf(K), NEW c, NEW d
  PROVE  Ahead(NodeOf, WithNode(K, e, n), c, d)
           <=> \/ Ahead(NodeOf, K, c, d) /\ c # e /\ d # e
               \/ Ahead(NodeOf, K, e, d) /\ c = n
               \/ Ahead(NodeOf, K, c, e) /\ d = n
<1> DEFINE i == IndexIn(K, e) R == PutNode(K, i, n)
<1>1. i \in 1 .. Len(K) /\ K[i].node = e
  BY KidIndex DEF IndexIn
<1>a. R = WithNode(K, e, n)
  BY DEF WithNode
<1> HIDE DEF i
<1>2. R \in Seq(KidRec) /\ Len(R) = Len(K)
  <2> HIDE DEF R
  <2> QED BY <1>1, KidRenamed DEF R
<1>b. Len(K) \in Nat /\ DOMAIN K = 1 .. Len(K) /\ \A j \in 1 .. Len(K) : K[j].node \in NodesOf(K)
      /\ K[j] \in KidRec
  BY KidsAt
<1>3. R[i].node = n /\ \A j \in 1 .. Len(K) : j # i => R[j] = K[j]
  <2>1. [K[i] EXCEPT !.node = n].node = n
    BY <1>1, <1>b, KidWithNode
  <2> QED BY <1>1, <1>b, <2>1 DEF PutNode
<1> HIDE DEF R
<1>4. \A j \in 1 .. Len(K) : K[j].node = e => j = i
  BY <1>1 DEF Distinct
<1>5. Ahead(NodeOf, R, c, d) <=> \E j, k \in 1 .. Len(K) : j < k /\ R[j].node = c /\ R[k].node = d
  BY <1>2, KidsAhead
<1>6. \A x, y : Ahead(NodeOf, K, x, y)
        <=> \E j, k \in 1 .. Len(K) : j < k /\ K[j].node = x /\ K[k].node = y
  BY KidsAhead
<1>7. Ahead(NodeOf, R, c, d)
           <=> \/ Ahead(NodeOf, K, c, d) /\ c # e /\ d # e
               \/ Ahead(NodeOf, K, e, d) /\ c = n
               \/ Ahead(NodeOf, K, c, e) /\ d = n
  <2>1. ASSUME NEW j \in 1 .. Len(K), NEW k \in 1 .. Len(K), j < k, R[j].node = c, R[k].node = d
        PROVE  \/ Ahead(NodeOf, K, c, d) /\ c # e /\ d # e
               \/ Ahead(NodeOf, K, e, d) /\ c = n
               \/ Ahead(NodeOf, K, c, e) /\ d = n
    <3>0. j # k
      BY <1>b, <2>1
    <3>1. CASE j = i
      <4>1. c = n /\ K[k].node = d
        BY <1>3, <2>1, <3>0, <3>1
      <4> QED BY <1>1, <1>6, <2>1, <3>1, <4>1
    <3>2. CASE k = i
      <4>1. d = n /\ K[j].node = c
        BY <1>3, <2>1, <3>0, <3>2
      <4> QED BY <1>1, <1>6, <2>1, <3>2, <4>1
    <3>3. CASE j # i /\ k # i
      <4>1. K[j].node = c /\ K[k].node = d
        BY <1>3, <2>1, <3>3
      <4> QED BY <1>4, <1>6, <2>1, <3>3, <4>1
    <3> QED BY <3>1, <3>2, <3>3
  <2>2. ASSUME Ahead(NodeOf, K, c, d), c # e, d # e PROVE Ahead(NodeOf, R, c, d)
    <3>1. PICK j \in 1 .. Len(K), k \in 1 .. Len(K) : j < k /\ K[j].node = c /\ K[k].node = d
      BY <1>6, <2>2
    <3>2. j # i /\ k # i
      BY <1>1, <2>2, <3>1
    <3> QED BY <1>3, <1>5, <3>1, <3>2
  <2>3. ASSUME Ahead(NodeOf, K, e, d), c = n PROVE Ahead(NodeOf, R, c, d)
    <3>1. PICK j \in 1 .. Len(K), k \in 1 .. Len(K) : j < k /\ K[j].node = e /\ K[k].node = d
      BY <1>6, <2>3
    <3>2. j = i /\ k # i
      BY <1>b, <1>4, <3>1
    <3> QED BY <1>3, <1>5, <2>3, <3>1, <3>2
  <2>4. ASSUME Ahead(NodeOf, K, c, e), d = n PROVE Ahead(NodeOf, R, c, d)
    <3>1. PICK j \in 1 .. Len(K), k \in 1 .. Len(K) : j < k /\ K[j].node = c /\ K[k].node = e
      BY <1>6, <2>4
    <3>2. k = i /\ j # i
      BY <1>b, <1>4, <3>1
    <3> QED BY <1>3, <1>5, <2>4, <3>1, <3>2
  <2> QED BY <1>5, <2>1, <2>2, <2>3, <2>4
<1> QED BY <1>a, <1>7

-----------------------------------------------------------------------------
(* dissolve_unary_split, split_leaf and remove_leaf keep the order *)

\* An only child that takes the place of its split.
LEMMA ChildLifted ==
  ASSUME NEW l, NEW thin, Grove(l, {l.root}, thin), NEW s \in DOMAIN l.kids, NEW c,
         Children(l.up, s) = {c}, NEW m, m = Erase(TakePlace(l, s, c), {s}),
         NEW thin2, Grove(m, {m.root}, thin2)
  PROVE  \A S : S \subseteq DOMAIN m.up => Keeps(m, l, S)
<1> DEFINE g == l.up[s] t == TakePlace(l, s, c)
<1>1. /\ l = Lay(l.root, l.axis, l.kids, l.up) /\ DOMAIN l.kids = DOMAIN l.up \cap Split
      /\ s \in DOMAIN l.up /\ NoNode \notin DOMAIN l.up /\ DOMAIN l.up \subseteq Pane \cup Split
      /\ s # NoNode
  BY GroveParts
<1>2. c \in DOMAIN l.up /\ l.up[c] = s /\ \A n \in DOMAIN l.up : l.up[n] = s => n = c
  BY DEF Children
<1>3. (l.up[s] = NoNode => l.root = s) /\ (l.root = s => l.up[s] = NoNode)
  BY <1>1, OneTop
<1>4. Links(l.up)
  BY GroveLinks
<1>5. g # NoNode => g \in DOMAIN l.kids /\ s \in Children(l.up, g)
  BY <1>1, GroveIndex
<1>6. g # s /\ c # s
  <2>1. s \notin Children(l.up, s)
    BY GroveKids
  <2> QED BY <1>1, <1>2, <2>1 DEF Children
<1>7. /\ t = Lay(t.root, t.axis, t.kids, t.up)
      /\ DOMAIN t.up = DOMAIN l.up \cup {c}
      /\ \A n \in DOMAIN t.up : t.up[n] = IF n = c THEN g ELSE l.up[n]
      /\ DOMAIN t.kids = DOMAIN l.kids
      /\ \A q \in DOMAIN l.kids :
              t.kids[q] = IF g = q /\ q # NoNode THEN WithNode(l.kids[q], s, c) ELSE l.kids[q]
  BY <1>1, <1>3, TakePlaceAt
<1> HIDE DEF t
<1>8. /\ DOMAIN m.up = DOMAIN t.up \ {s}
      /\ \A n \in DOMAIN m.up : m.up[n] = t.up[n]
      /\ DOMAIN m.kids = DOMAIN t.kids \cap (DOMAIN t.up \ {s})
      /\ \A q \in DOMAIN m.kids : m.kids[q] = t.kids[q]
  <2> DEFINE X == {s}
  <2>1. m = Erase(t, X)
    BY DEF t
  <2> HIDE DEF X
  <2>2. Erased(t, X, m)
    BY <1>7, <2>1, EraseAt
  <2> QED BY <2>2 DEF X, Erased
<1>9. DOMAIN m.up = DOMAIN l.up \ {s} /\ DOMAIN m.kids = DOMAIN l.kids \ {s}
  <2>1. DOMAIN t.up = DOMAIN l.up /\ DOMAIN t.kids = DOMAIN l.kids
    BY <1>2, <1>7
  <2>2. DOMAIN l.kids \subseteq DOMAIN l.up
    BY <1>1
  <2>3. DOMAIN m.up = DOMAIN l.up \ {s} /\ DOMAIN m.kids = DOMAIN l.kids \cap (DOMAIN l.up \ {s})
    BY <1>8, <2>1
  <2> QED BY <2>2, <2>3
<1>10. ASSUME NEW n \in DOMAIN m.up, m.up[n] # NoNode PROVE m.up[n] \in Up(l.up, n)
  <2>1. n \in DOMAIN l.up /\ m.up[n] = IF n = c THEN g ELSE l.up[n]
    BY <1>7, <1>8, <1>9
  <2>2. CASE n = c
    BY <1>1, <1>2, <1>4, <1>10, <2>1, <2>2, UpOne
  <2>3. CASE n # c
    BY <1>4, <1>10, <2>1, <2>3, UpOne
  <2> QED BY <2>2, <2>3
<1>11. ASSUME NEW q \in DOMAIN m.kids, NEW x, NEW y, Ahead(NodeOf, m.kids[q], x, y)
       PROVE  Left(l, x, y)
  <2>1. q \in DOMAIN l.kids /\ q # s /\ q # NoNode
    BY <1>1, <1>9
  <2>2. CASE q # g
    <3>1. m.kids[q] = l.kids[q]
      BY <1>7, <1>8, <2>1, <2>2
    <3> QED BY <1>11, <2>1, <3>1, LeftKids
  <2>3. CASE q = g
    <3>1. m.kids[q] = WithNode(l.kids[q], s, c)
      BY <1>7, <1>8, <2>1, <2>3
    <3>2. l.kids[q] \in Seq(KidRec) /\ Distinct(l.kids[q]) /\ NodesOf(l.kids[q]) = Children(l.up, q)
      BY <2>1, GroveKids
    <3>3. s \in NodesOf(l.kids[q]) /\ c \notin NodesOf(l.kids[q]) /\ c \in Pane \cup Split
      BY <1>1, <1>2, <1>5, <1>6, <2>1, <2>3, <3>2 DEF Children
    <3>4. \/ Ahead(NodeOf, l.kids[q], x, y)
          \/ Ahead(NodeOf, l.kids[q], s, y) /\ x = c
          \/ Ahead(NodeOf, l.kids[q], x, s) /\ y = c
      BY <1>11, <3>1, <3>2, <3>3, AheadRenamed
    <3>5. s \in Up(l.up, c)
      BY <1>1, <1>2, <1>4, UpOne
    <3>6. CASE Ahead(NodeOf, l.kids[q], x, y)
      BY <2>1, <3>6, LeftKids
    <3>7. CASE Ahead(NodeOf, l.kids[q], s, y) /\ x = c
      <4>1. y \in DOMAIN l.up
        BY <2>1, <3>7, LeftKids
      <4>2. y \in Up(l.up, y)
        BY <1>4, <4>1, UpIsUpward
      <4> QED BY <2>1, <3>5, <3>7, <4>2, LeftFrom
    <3>8. CASE Ahead(NodeOf, l.kids[q], x, s) /\ y = c
      <4>1. x \in DOMAIN l.up
        BY <2>1, <3>8, LeftKids
      <4>2. x \in Up(l.up, x)
        BY <1>4, <4>1, UpIsUpward
      <4> QED BY <2>1, <3>5, <3>8, <4>2, LeftFrom
    <3> QED BY <3>4, <3>6, <3>7, <3>8
  <2> QED BY <2>2, <2>3
<1>12. Upward(m.up, DOMAIN m.up) /\ DOMAIN m.up \subseteq DOMAIN l.up
  BY <1>9, GroveParts
<1> HIDE DEF g
<1>13. ASSUME NEW S, S \subseteq DOMAIN m.up PROVE Keeps(m, l, S)
  <2>1. S \subseteq DOMAIN m.up \cap DOMAIN l.up
    BY <1>12, <1>13
  <2> QED BY <1>10, <1>11, <1>12, <2>1, Edited
<1> QED BY <1>13

\* An only child whose children take the place of its split.
LEMMA ChildrenLifted ==
  ASSUME NEW l, NEW thin, Grove(l, {l.root}, thin), NEW s \in DOMAIN l.kids, NEW c \in DOMAIN l.kids,
         Children(l.up, s) = {c}, NEW g, g = l.up[s], g # NoNode, NEW M \in Seq(KidRec), Distinct(M),
         KidNodes(M) = KidNodes(l.kids[c]),
         NEW m, m = Erase(Adopt(l, g, Replace(l.kids[g], ChildIndex(l, g, s), 1, M)), {c, s}),
         NEW thin2, Grove(m, {m.root}, thin2)
  PROVE  \A S : S \subseteq DOMAIN m.up => Keeps(m, l, S)
<1> DEFINE i == ChildIndex(l, g, s) K == l.kids[g] R == Replace(K, i, 1, M) t == Adopt(l, g, R)
<1>1. /\ l = Lay(l.root, l.axis, l.kids, l.up) /\ DOMAIN l.kids = DOMAIN l.up \cap Split
      /\ s \in DOMAIN l.up /\ NoNode \notin DOMAIN l.up /\ DOMAIN l.up \subseteq Pane \cup Split
      /\ s # NoNode /\ c # NoNode
  BY GroveParts
<1>2. c \in DOMAIN l.up /\ l.up[c] = s /\ \A n \in DOMAIN l.up : l.up[n] = s => n = c
  BY DEF Children
<1>4. Links(l.up)
  BY GroveLinks
<1>5. g \in DOMAIN l.kids /\ s \in Children(l.up, g) /\ i \in 1 .. Len(K) /\ K[i].node = s
  BY <1>1, GroveIndex
<1>6. K \in Seq(KidRec) /\ Distinct(K) /\ NodesOf(K) = Children(l.up, g)
  BY <1>5, GroveKids
<1>7. /\ l.kids[c] \in Seq(KidRec) /\ NodesOf(l.kids[c]) = Children(l.up, c)
  BY GroveKids
<1>8. NodesOf(M) = Children(l.up, c)
  BY <1>7, KidNodesOf
<1>9. s \in Up(l.up, c) /\ c \in Up(l.up, c) /\ g \in Up(l.up, c)
  BY <1>1, <1>2, <1>4, UpOne
<1>10. ASSUME NEW n \in Children(l.up, c) PROVE Up(l.up, c) \subseteq Up(l.up, n)
  <2>1. n \in DOMAIN l.up /\ l.up[n] = c
    BY DEF Children
  <2>2. c \in Up(l.up, n)
    BY <1>1, <1>4, <2>1, UpOne
  <2> QED BY <1>4, <2>1, <2>2, UpTransitive
<1>11. Children(l.up, c) \cap Children(l.up, g) \subseteq {s}
  <2>1. g # c
    <3>1. c \notin Up(l.up, s)
      BY <1>1, <1>2, <1>4, UpNotBack
    <3>2. g \in Up(l.up, s)
      BY <1>1, <1>4, UpOne
    <3> QED BY <3>1, <3>2
  <2> QED BY <2>1 DEF Children
<1> HIDE DEF i, K
<1>12. R \in Seq(KidRec) /\ NodesOf(R) = (Children(l.up, g) \ {s}) \cup Children(l.up, c)
  BY <1>5, <1>6, <1>8, <1>11, KidReplaced
<1> HIDE DEF R
<1>13. /\ t = Lay(t.root, t.axis, t.kids, t.up)
       /\ DOMAIN t.up = DOMAIN l.up \cup NodesOf(R)
       /\ \A n \in DOMAIN t.up : t.up[n] = IF n \in NodesOf(R) THEN g ELSE l.up[n]
       /\ DOMAIN t.kids = DOMAIN l.kids \cup {g} /\ t.kids[g] = R
       /\ \A q \in DOMAIN l.kids : q # g => t.kids[q] = l.kids[q]
  BY <1>1, <1>12, AdoptAt
<1>14. m = Erase(t, {c, s})
  BY DEF t, R, K, i
<1> HIDE DEF t
<1>15. /\ DOMAIN m.up = DOMAIN t.up \ {c, s}
       /\ \A n \in DOMAIN m.up : m.up[n] = t.up[n]
       /\ DOMAIN m.kids = DOMAIN t.kids \cap (DOMAIN t.up \ {c, s})
       /\ \A q \in DOMAIN m.kids : m.kids[q] = t.kids[q]
  <2> DEFINE X == {c, s}
  <2>1. m = Erase(t, X)
    BY <1>14
  <2> HIDE DEF X
  <2>2. Erased(t, X, m)
    BY <1>13, <2>1, EraseAt
  <2> QED BY <2>2 DEF X, Erased
<1>16. NodesOf(R) \subseteq DOMAIN l.up
  BY <1>12 DEF Children
<1>17. DOMAIN m.up = DOMAIN l.up \ {c, s} /\ DOMAIN m.kids \subseteq DOMAIN l.kids
  BY <1>5, <1>13, <1>15, <1>16
<1>18. ASSUME NEW n \in DOMAIN m.up, m.up[n] # NoNode PROVE m.up[n] \in Up(l.up, n)
  <2>1. n \in DOMAIN l.up /\ m.up[n] = IF n \in NodesOf(R) THEN g ELSE l.up[n]
    BY <1>13, <1>15, <1>17, ZenonT(60)
  <2>2. CASE n \in Children(l.up, c)
    <3>1. m.up[n] = g
      BY <1>12, <2>1, <2>2
    <3> QED BY <1>9, <1>10, <2>2, <3>1
  <2>3. CASE n \notin Children(l.up, c)
    <3>1. m.up[n] = l.up[n]
      BY <1>12, <2>1, <2>3 DEF Children
    <3> QED BY <1>4, <1>18, <2>1, <3>1, UpOne
  <2> QED BY <2>2, <2>3
<1>19. ASSUME NEW q \in DOMAIN m.kids, NEW x, NEW y, Ahead(NodeOf, m.kids[q], x, y)
       PROVE  Left(l, x, y)
  <2>1. q \in DOMAIN l.kids
    BY <1>17
  <2>2. CASE q # g
    <3>1. m.kids[q] = l.kids[q]
      BY <1>13, <1>15, <2>1, <2>2
    <3> QED BY <1>19, <2>1, <3>1, LeftKids
  <2>3. CASE q = g
    <3>1. m.kids[q] = R
      BY <1>13, <1>15, <2>3
    <3>2. \/ Ahead(NodeOf, K, x, y)
          \/ Ahead(NodeOf, M, x, y)
          \/ Ahead(NodeOf, K, s, y) /\ x \in NodesOf(M)
          \/ Ahead(NodeOf, K, x, s) /\ y \in NodesOf(M)
      <4>1. Ahead(NodeOf, Replace(K, i, 1, M), x, y)
        BY <1>19, <3>1 DEF R
      <4> QED BY <1>5, <1>6, <4>1, AheadReplaced
    <3>6. CASE Ahead(NodeOf, K, x, y)
      BY <1>5, <3>6, LeftKids DEF K
    <3>7. CASE Ahead(NodeOf, K, s, y) /\ x \in NodesOf(M)
      <4>1. y \in DOMAIN l.up
        BY <1>5, <3>7, LeftKids DEF K
      <4>2. y \in Up(l.up, y)
        BY <1>4, <4>1, UpIsUpward
      <4>3. s \in Up(l.up, x)
        BY <1>8, <1>9, <1>10, <3>7
      <4> QED BY <1>5, <3>7, <4>2, <4>3, LeftFrom DEF K
    <3>8. CASE Ahead(NodeOf, K, x, s) /\ y \in NodesOf(M)
      <4>1. x \in DOMAIN l.up
        BY <1>5, <3>8, LeftKids DEF K
      <4>2. x \in Up(l.up, x)
        BY <1>4, <4>1, UpIsUpward
      <4>3. s \in Up(l.up, y)
        BY <1>8, <1>9, <1>10, <3>8
      <4> QED BY <1>5, <3>8, <4>2, <4>3, LeftFrom DEF K
    <3>9. CASE Ahead(NodeOf, M, x, y)
      <4>1. Ahead(NodeOf, l.kids[c], x, y)
        BY <1>7, <3>9, AheadSame
      <4> QED BY <4>1, LeftKids
    <3> QED BY <3>2, <3>6, <3>7, <3>8, <3>9
  <2> QED BY <2>2, <2>3
<1>20. Upward(m.up, DOMAIN m.up) /\ DOMAIN m.up \subseteq DOMAIN l.up
  BY <1>17, GroveParts
<1>21. ASSUME NEW S, S \subseteq DOMAIN m.up PROVE Keeps(m, l, S)
  <2>1. S \subseteq DOMAIN m.up \cap DOMAIN l.up
    BY <1>20, <1>21
  <2> QED BY <1>18, <1>19, <1>20, <2>1, Edited, ZenonT(60)
<1> QED BY <1>21

\* dissolve_unary_split keeps the order of the panes, both ways.
LEMMA DissolveKeeps ==
  ASSUME NEW l, NEW thin, Grove(l, {l.root}, thin), NEW s \in DOMAIN l.kids, thin \subseteq {s},
         NEW m, m = DissolveIfUnary(l, s)
  PROVE  \A S : S \subseteq DOMAIN l.up \cap Pane => Keeps(l, m, S) /\ Keeps(m, l, S)
<1>1. Grove(m, {m.root}, {}) /\ Nodes(m) \cap Pane = Nodes(l) \cap Pane
  BY DissolveIfUnaryGrove
<1>2. DOMAIN m.up \cap Pane = DOMAIN l.up \cap Pane
  BY <1>1, GroveParts
<1>3. ASSUME NEW S, S \subseteq DOMAIN l.up \cap Pane PROVE Keeps(m, l, S)
  <2>1. CASE Len(l.kids[s]) # 1
    <3>1. m = l
      BY <2>1 DEF DissolveIfUnary
    <3> QED BY <3>1 DEF Keeps
  <2>2. CASE Len(l.kids[s]) = 1
    <3> DEFINE c == l.kids[s][1].node g == l.up[s] i == ChildIndex(l, g, s)
    <3>1. m = Dissolve(l, s)
      BY <2>2 DEF DissolveIfUnary
    <3>2. l.kids[s] \in Seq(KidRec) /\ Distinct(l.kids[s]) /\ NodesOf(l.kids[s]) = Children(l.up, s)
      BY GroveKids
    <3>3. Children(l.up, s) = {c}
      BY <2>2, <3>2, KidsLength
    <3>4. s \in DOMAIN l.up /\ S \subseteq DOMAIN m.up
      BY <1>2, <1>3, GroveParts
    <3>5. CASE g # NoNode /\ ~IsLeaf(l, c) /\ l.axis[c] = l.axis[g]
      <4> DEFINE M == ScaledTo(l.kids[c], l.kids[g][i].share)
      <4>1. m = Erase(Adopt(l, g, Replace(l.kids[g], i, 1, M)), {c, s})
        BY <3>1, <3>5, Zenon DEF Dissolve
      <4>2. c \in DOMAIN l.kids
        BY <3>5, GroveParts
      <4>3. l.kids[c] \in Seq(KidRec) /\ Distinct(l.kids[c]) /\ NodesOf(l.kids[c]) # {}
        BY <4>2, GroveKids
      <4>4. Len(l.kids[c]) # 0
        BY <4>3, KidsNone
      <4>5. l.kids[g][i].share \in Nat
        BY <3>4, <3>5, GroveIndex
      <4>6. M \in Seq(KidRec) /\ KidNodes(M) = KidNodes(l.kids[c]) /\ Distinct(M)
        BY <4>3, <4>4, <4>5, KidsScaled
      <4> HIDE DEF M, c
      <4>7. \A T : T \subseteq DOMAIN m.up => Keeps(m, l, T)
        BY <1>1, <3>3, <3>5, <4>1, <4>2, <4>6, ChildrenLifted
      <4> QED BY <3>4, <4>7
    <3>6. CASE ~(g # NoNode /\ ~IsLeaf(l, c) /\ l.axis[c] = l.axis[g])
      <4>1. m = Erase(TakePlace(l, s, c), {s})
        BY <3>1, <3>6, Zenon DEF Dissolve
      <4> HIDE DEF c
      <4>2. \A T : T \subseteq DOMAIN m.up => Keeps(m, l, T)
        BY <1>1, <3>3, <4>1, ChildLifted
      <4> QED BY <3>4, <4>2
    <3> QED BY <3>5, <3>6
  <2> QED BY <2>1, <2>2
<1>4. ASSUME NEW S, S \subseteq DOMAIN l.up \cap Pane PROVE Keeps(l, m, S)
  <2>1. Keeps(m, l, S)
    BY <1>3, <1>4
  <2>2. m.root \in DOMAIN m.up /\ PanesBelow(m, m.root) = DOMAIN m.up \cap Pane
    BY <1>1, LeftInTree
  <2>3. S \subseteq PanesBelow(m, m.root) \cap DOMAIN l.up
    BY <1>2, <1>4, <2>2
  <2> QED BY <1>1, <2>1, <2>2, <2>3, KeepsBack
<1> QED BY <1>3, <1>4

\* NewSplit gives s the children K.
LEMMA NewSplitAt ==
  ASSUME NEW l, l = Lay(l.root, l.axis, l.kids, l.up), NEW s, NEW axis, NEW K \in Seq(KidRec),
         NEW m, m = NewSplit(l, s, axis, K)
  PROVE  /\ DOMAIN m.up = DOMAIN l.up \cup NodesOf(K)
         /\ \A n \in DOMAIN m.up : m.up[n] = IF n \in NodesOf(K) THEN s ELSE l.up[n]
         /\ DOMAIN m.kids = DOMAIN l.kids \cup {s} /\ m.kids[s] = K
         /\ \A q \in DOMAIN l.kids : q # s => m.kids[q] = l.kids[q]
<1> DEFINE r == l.root a == l.axis k == l.kids u == l.up
<1>1. l = Lay(r, a, k, u)
  OBVIOUS
<1> HIDE DEF r, a, k, u
<1>2. m = Lay(r, Set(a, s, axis), Set(k, s, K), Parented(u, s, NodesOf(K)))
  BY <1>1, NewSplitParts
<1>3. m.kids = Set(k, s, K) /\ m.up = Parented(u, s, NodesOf(K))
  BY <1>2, LayParts
<1>4. /\ DOMAIN m.up = DOMAIN u \cup NodesOf(K)
      /\ \A n \in DOMAIN m.up : m.up[n] = IF n \in NodesOf(K) THEN s ELSE u[n]
  BY <1>3 DEF Parented
<1>5. /\ DOMAIN m.kids = DOMAIN k \cup {s} /\ m.kids[s] = K
      /\ \A q \in DOMAIN k : q # s => m.kids[q] = k[q]
  BY <1>3 DEF Set
<1> QED BY <1>4, <1>5 DEF k, u

\* The nodes new come from outside or from tops of l that go, in their order there, or are t.
Arrivals(l, X, t, new) ==
  /\ X \subseteq {n \in DOMAIN l.up : l.up[n] = NoNode}
  /\ t \in NodesOf(new)
  /\ \A n \in NodesOf(new) \cap DOMAIN l.up :
       n = t \/ l.up[n] = NoNode \/ l.up[l.up[n]] = NoNode
  /\ \A n \in X \cap DOMAIN l.kids : \A x, y : Ahead(NodeOf, l.kids[n], x, y)
                                                => Ahead(NodeOf, new, x, y)

\* Nodes that arrive beside t leave the order of the others.
LEMMA BesideKeeps ==
  ASSUME NEW l, NEW tops, NEW thin, Grove(l, tops, thin), NEW X, NEW l1, Erased(l, X, l1),
         l1 = Lay(l1.root, l1.axis, l1.kids, l1.up),
         NEW p \in DOMAIN l.kids, p \notin X, NEW i \in 1 .. Len(l.kids[p]), NEW t,
         t = l.kids[p][i].node, NEW new \in Seq(KidRec), Distinct(new), Arrivals(l, X, t, new),
         NodesOf(new) \cap Children(l.up, p) \subseteq {t},
         NEW m, m = Adopt(l1, p, Replace(l.kids[p], i, 1, new)),
         NEW tops2, NEW thin2, Grove(m, tops2, thin2)
  PROVE  \A S : S \subseteq DOMAIN l.up \cap DOMAIN m.up => Keeps(l, m, S)
<1> DEFINE K == l.kids[p] R == Replace(K, i, 1, new)
<1>1. /\ DOMAIN l.kids = DOMAIN l.up \cap Split /\ Upward(l.up, DOMAIN l.up)
      /\ NoNode \notin DOMAIN l.up
  BY GroveParts
<1>2. Links(l.up) /\ Links(m.up)
  BY GroveLinks
<1>3. K \in Seq(KidRec) /\ Distinct(K) /\ NodesOf(K) = Children(l.up, p)
  BY GroveKids
<1>4. t \in Children(l.up, p)
  BY <1>3, KidsAt
<1> HIDE DEF K
<1>5. R \in Seq(KidRec) /\ NodesOf(R) = (Children(l.up, p) \ {t}) \cup NodesOf(new)
  BY <1>3, KidReplaced DEF K
<1>6. \A x, y : Ahead(NodeOf, R, x, y)
           <=> \/ Ahead(NodeOf, K, x, y) /\ x # t /\ y # t
               \/ Ahead(NodeOf, new, x, y)
               \/ Ahead(NodeOf, K, t, y) /\ x \in NodesOf(new)
               \/ Ahead(NodeOf, K, x, t) /\ y \in NodesOf(new)
  <2>1. i \in 1 .. Len(K) /\ t = K[i].node
    BY DEF K
  <2> QED BY <1>3, <2>1, AheadReplaced
<1>7. m = Adopt(l1, p, R)
  BY DEF K
<1> HIDE DEF R
<1>8. /\ DOMAIN m.up = DOMAIN l1.up \cup NodesOf(R)
      /\ \A n \in DOMAIN m.up : m.up[n] = IF n \in NodesOf(R) THEN p ELSE l1.up[n]
      /\ DOMAIN m.kids = DOMAIN l1.kids \cup {p} /\ m.kids[p] = R
      /\ \A q \in DOMAIN l1.kids : q # p => m.kids[q] = l1.kids[q]
  BY <1>5, <1>7, AdoptAt
<1>9. /\ DOMAIN l1.up = DOMAIN l.up \ X /\ \A n \in DOMAIN l1.up : l1.up[n] = l.up[n]
      /\ DOMAIN l1.kids = DOMAIN l.kids \cap (DOMAIN l.up \ X)
      /\ \A q \in DOMAIN l1.kids : l1.kids[q] = l.kids[q]
  BY DEF Erased
<1>10. ASSUME NEW n \in DOMAIN l.up, n \in DOMAIN m.up, l.up[n] # NoNode, l.up[l.up[n]] # NoNode
       PROVE  l.up[n] \in Up(m.up, n)
  <2>1. m.up[n] = l.up[n]
    <3>1. CASE n \in NodesOf(R)
      <4>1. n \in Children(l.up, p) \/ n \in NodesOf(new)
        BY <1>5, <3>1
      <4>2. n \in NodesOf(new) => n = t
        BY <1>10 DEF Arrivals
      <4> QED BY <1>4, <1>8, <1>10, <3>1, <4>1, <4>2 DEF Children
    <3>2. CASE n \notin NodesOf(R)
      BY <1>8, <1>9, <1>10, <3>2
    <3> QED BY <3>1, <3>2
  <2> QED BY <1>2, <1>10, <2>1, UpOne
<1>11. ASSUME NEW s \in DOMAIN l.kids, NEW c, NEW d, Ahead(NodeOf, l.kids[s], c, d)
       PROVE  Left(m, c, d)
  <2>1. p \in DOMAIN m.kids /\ m.kids[p] = R
    BY <1>8
  <2>2. CASE s \in X
    <3>1. Ahead(NodeOf, R, c, d)
      BY <1>6, <1>11, <2>2 DEF Arrivals
    <3> QED BY <2>1, <3>1, LeftKids
  <2>3. CASE s = p
    <3>1. Ahead(NodeOf, K, c, d)
      BY <1>11, <2>3 DEF K
    <3>2. t \in NodesOf(new)
      BY DEF Arrivals
    <3>3. Ahead(NodeOf, R, c, d)
      BY <1>6, <3>1, <3>2
    <3> QED BY <2>1, <3>3, LeftKids
  <2>4. CASE s # p /\ s \notin X
    <3>1. s \in DOMAIN l1.kids
      BY <1>1, <1>9, <2>4
    <3>2. s \in DOMAIN m.kids /\ m.kids[s] = l.kids[s]
      BY <1>8, <1>9, <2>4, <3>1
    <3> QED BY <1>11, <3>2, LeftKids
  <2> QED BY <2>2, <2>3, <2>4
<1>12. ASSUME NEW S, S \subseteq DOMAIN l.up \cap DOMAIN m.up PROVE Keeps(l, m, S)
  BY <1>1, <1>10, <1>11, <1>12, Edited
<1> QED BY <1>12

\* Nodes that arrive beside t in a new split in its place leave the order of the others.
LEMMA OverKeeps ==
  ASSUME NEW l, NEW tops, NEW thin, Grove(l, tops, thin), NEW X, NEW l1, Erased(l, X, l1),
         l1 = Lay(l1.root, l1.axis, l1.kids, l1.up),
         NEW t \in DOMAIN l.up, t \notin X, l.up[t] # NoNode => l.up[t] \notin X,
         l.up[t] = NoNode => l.root = t, l.root = t => l.up[t] = NoNode,
         NEW w \in Split, w \notin DOMAIN l.up,
         NEW K \in Seq(KidRec), Arrivals(l, X, t, K), w \notin NodesOf(K),
         NEW axis, NEW m, m = NewSplit(TakePlace(l1, t, w), w, axis, K),
         NEW tops2, NEW thin2, Grove(m, tops2, thin2)
  PROVE  \A S : S \subseteq DOMAIN l.up \cap DOMAIN m.up => Keeps(l, m, S)
<1> DEFINE l2 == TakePlace(l1, t, w) p == l.up[t]
<1>1. /\ DOMAIN l.kids = DOMAIN l.up \cap Split /\ Upward(l.up, DOMAIN l.up)
      /\ NoNode \notin DOMAIN l.up
  BY GroveParts
<1>2. Links(l.up) /\ Links(m.up) /\ t # w
  BY GroveLinks
<1>3. /\ DOMAIN l1.up = DOMAIN l.up \ X /\ \A n \in DOMAIN l1.up : l1.up[n] = l.up[n]
      /\ DOMAIN l1.kids = DOMAIN l.kids \cap (DOMAIN l.up \ X)
      /\ \A q \in DOMAIN l1.kids : l1.kids[q] = l.kids[q]
      /\ l1.root = l.root
  BY DEF Erased
<1>4. t \in DOMAIN l1.up /\ l1.up[t] = p
  BY <1>3
<1>5. /\ l2 = Lay(l2.root, l2.axis, l2.kids, l2.up)
      /\ DOMAIN l2.up = DOMAIN l1.up \cup {w}
      /\ \A n \in DOMAIN l2.up : l2.up[n] = IF n = w THEN p ELSE l1.up[n]
      /\ DOMAIN l2.kids = DOMAIN l1.kids
      /\ \A q \in DOMAIN l1.kids :
              l2.kids[q] = IF p = q /\ q # NoNode THEN WithNode(l1.kids[q], t, w) ELSE l1.kids[q]
  <2>1. (l1.up[t] = NoNode => l1.root = t) /\ (l1.root = t => l1.up[t] = NoNode)
    BY <1>3, <1>4
  <2> QED BY <1>4, <2>1, TakePlaceAt
<1> HIDE DEF l2
<1>6. /\ DOMAIN m.up = DOMAIN l2.up \cup NodesOf(K)
      /\ \A n \in DOMAIN m.up : m.up[n] = IF n \in NodesOf(K) THEN w ELSE l2.up[n]
      /\ DOMAIN m.kids = DOMAIN l2.kids \cup {w} /\ m.kids[w] = K
      /\ \A q \in DOMAIN l2.kids : q # w => m.kids[q] = l2.kids[q]
  <2>1. m = NewSplit(l2, w, axis, K)
    BY DEF l2
  <2> QED BY <1>5, <2>1, NewSplitAt
<1>7. t \in DOMAIN m.up /\ m.up[t] = w /\ w \in DOMAIN m.up /\ m.up[w] = p /\ w # NoNode
  BY <1>4, <1>5, <1>6, NoNodeAssumption DEF Arrivals
<1>8. w \in Up(m.up, t) /\ (p # NoNode => p \in Up(m.up, t))
  BY <1>2, <1>7, UpOne
<1>10. ASSUME NEW n \in DOMAIN l.up, n \in DOMAIN m.up, l.up[n] # NoNode, l.up[l.up[n]] # NoNode
       PROVE  l.up[n] \in Up(m.up, n)
  <2>1. CASE n = t
    BY <1>8, <1>10, <2>1
  <2>2. CASE n # t
    <3>1. n \notin NodesOf(K)
      BY <1>10, <2>2 DEF Arrivals
    <3>2. m.up[n] = l.up[n]
      BY <1>3, <1>5, <1>6, <1>10, <3>1
    <3> QED BY <1>2, <1>10, <3>2, UpOne
  <2> QED BY <2>1, <2>2
<1>11. ASSUME NEW s \in DOMAIN l.kids, NEW c, NEW d, Ahead(NodeOf, l.kids[s], c, d)
       PROVE  Left(m, c, d)
  <2>1. CASE s \in X
    <3>1. w \in DOMAIN m.kids /\ Ahead(NodeOf, m.kids[w], c, d)
      BY <1>6, <1>11, <2>1 DEF Arrivals
    <3> QED BY <3>1, LeftKids
  <2>2. CASE s \notin X
    <3>0. s \in DOMAIN l1.kids /\ l1.kids[s] = l.kids[s] /\ s \in DOMAIN l2.kids /\ s # w /\ s # NoNode
      BY <1>1, <1>3, <1>5, <2>2
    <3>1. s \in DOMAIN m.kids /\ m.kids[s] = l2.kids[s]
      BY <1>6, <3>0
    <3>2. CASE s # p
      <4>1. m.kids[s] = l.kids[s]
        BY <1>5, <3>0, <3>1, <3>2
      <4> QED BY <1>11, <3>1, <4>1, LeftKids
    <3>3. CASE s = p
      <4>1. m.kids[s] = WithNode(l.kids[s], t, w)
        BY <1>5, <3>0, <3>1, <3>3
      <4>2. l.kids[s] \in Seq(KidRec) /\ Distinct(l.kids[s]) /\ NodesOf(l.kids[s]) = Children(l.up, s)
        BY GroveKids
      <4>3. t \in NodesOf(l.kids[s]) /\ w \notin NodesOf(l.kids[s])
        BY <3>3, <4>2 DEF Children
      <4>4. \A x, y : Ahead(NodeOf, m.kids[s], x, y)
               <=> \/ Ahead(NodeOf, l.kids[s], x, y) /\ x # t /\ y # t
                   \/ Ahead(NodeOf, l.kids[s], t, y) /\ x = w
                   \/ Ahead(NodeOf, l.kids[s], x, t) /\ y = w
        BY <4>1, <4>2, <4>3, AheadRenamed
      <4>5. CASE c # t /\ d # t
        BY <1>11, <3>1, <4>4, <4>5, LeftKids
      <4>6. CASE c = t
        <5>1. Ahead(NodeOf, m.kids[s], w, d)
          BY <1>11, <4>4, <4>6
        <5>2. d \in DOMAIN m.up
          BY <3>1, <5>1, LeftKids
        <5>3. d \in Up(m.up, d)
          BY <1>2, <5>2, UpIsUpward
        <5> QED BY <1>8, <3>1, <4>6, <5>1, <5>3, LeftFrom
      <4>7. CASE d = t
        <5>1. Ahead(NodeOf, m.kids[s], c, w)
          BY <1>11, <4>4, <4>7
        <5>2. c \in DOMAIN m.up
          BY <3>1, <5>1, LeftKids
        <5>3. c \in Up(m.up, c)
          BY <1>2, <5>2, UpIsUpward
        <5> QED BY <1>8, <3>1, <4>7, <5>1, <5>3, LeftFrom
      <4> QED BY <4>5, <4>6, <4>7
    <3> QED BY <3>2, <3>3
  <2> QED BY <2>1, <2>2
<1>12. ASSUME NEW S, S \subseteq DOMAIN l.up \cap DOMAIN m.up PROVE Keeps(l, m, S)
  BY <1>1, <1>10, <1>11, <1>12, Edited
<1> QED BY <1>12

\* Nothing erased.
LEMMA NoneErased == ASSUME NEW l, NEW tops, NEW thin, Grove(l, tops, thin) PROVE Erased(l, {}, l)
<1>1. DOMAIN l.kids = DOMAIN l.up \cap Split
  BY GroveParts
<1> QED BY <1>1 DEF Erased

\* split_leaf keeps the order of the panes that are there.
LEMMA SplitLeafKeeps ==
  ASSUME NEW l, Grove(l, {l.root}, {}), SplitsNeverRunOut, NEW target \in DOMAIN l.up,
         NEW axis \in Axis, NEW pane \in Pane, pane \notin DOMAIN l.up, NEW insertion,
         NEW m, m = SplitLeaf(l, target, axis, pane, insertion)
  PROVE  \A S : S \subseteq DOMAIN l.up \cap Pane => Keeps(l, m, S)
<1> DEFINE p == l.up[target]
           Pair(whole) == IF insertion = "BEFORE"
                          THEN <<Kid(pane, EarlierHalf(whole)), Kid(target, LaterHalf(whole))>>
                          ELSE <<Kid(target, EarlierHalf(whole)), Kid(pane, LaterHalf(whole))>>
<1>1. /\ l = Lay(l.root, l.axis, l.kids, l.up) /\ Nodes(l) = DOMAIN l.up
      /\ DOMAIN l.up \subseteq Pane \cup Split /\ NoNode \notin DOMAIN l.up
  BY GroveParts
<1>2. Grove(m, {m.root}, {}) /\ Nodes(m) \cap Pane = (Nodes(l) \cap Pane) \cup {pane}
  BY SplitLeafGrove, SMTT(30)
<1>3. DOMAIN l.up \cap Pane \subseteq DOMAIN m.up
  BY <1>1, <1>2, GroveParts
<1>4. ASSUME NEW whole \in Nat
      PROVE  /\ Pair(whole) \in Seq(KidRec) /\ Distinct(Pair(whole))
             /\ NodesOf(Pair(whole)) = {pane, target}
             /\ Arrivals(l, {}, target, Pair(whole))
  <2> DEFINE K == Pair(whole)
  <2>1. \/ K = <<Kid(pane, EarlierHalf(whole)), Kid(target, LaterHalf(whole))>>
        \/ K = <<Kid(target, EarlierHalf(whole)), Kid(pane, LaterHalf(whole))>>
    OBVIOUS
  <2> HIDE DEF K
  <2>2. pane # target /\ pane \in Pane \cup Split /\ target \in Pane \cup Split
    BY <1>1
  <2>3. K \in Seq(KidRec) /\ Distinct(K) /\ NodesOf(K) = {pane, target}
    BY <2>1, <2>2, PairOf
  <2>4. Arrivals(l, {}, target, K)
    BY <2>3 DEF Arrivals
  <2> QED BY <2>3, <2>4 DEF K
<1> HIDE DEF Pair
<1>5. Erased(l, {}, l)
  BY NoneErased
<1>6. CASE p # NoNode /\ l.axis[p] = axis
  <2> DEFINE i == ChildIndex(l, p, target)
             N == Pair(l.kids[p][i].share)
  <2>1. m = Adopt(l, p, Replace(l.kids[p], i, 1, N))
    BY <1>6, Zenon DEF SplitLeaf, Pair
  <2>2. /\ p \in DOMAIN l.kids /\ target \in Children(l.up, p) /\ i \in 1 .. Len(l.kids[p])
        /\ l.kids[p][i].node = target /\ l.kids[p][i].share \in Nat
    BY <1>6, GroveIndex
  <2> HIDE DEF i
  <2>3. /\ N \in Seq(KidRec) /\ Distinct(N) /\ NodesOf(N) = {pane, target}
        /\ Arrivals(l, {}, target, N)
    BY <1>4, <2>2
  <2> HIDE DEF N
  <2>4. NodesOf(N) \cap Children(l.up, p) \subseteq {target}
    BY <2>3 DEF Children
  <2>5. \A S : S \subseteq DOMAIN l.up \cap DOMAIN m.up => Keeps(l, m, S)
    <3>1. PICK X : X = {}
      OBVIOUS
    <3>2. Erased(l, X, l) /\ Arrivals(l, X, target, N) /\ p \notin X
      BY <1>5, <2>3, <3>1
    <3> QED BY <1>1, <1>2, <2>1, <2>2, <2>3, <2>4, <3>2, BesideKeeps
  <2> QED BY <1>3, <2>5
<1>7. CASE ~(p # NoNode /\ l.axis[p] = axis)
  <2> DEFINE w == FreshSplit(l) K == Pair(Full)
  <2>1. w \in Split /\ w \notin DOMAIN l.up /\ w # pane
    BY <1>1, FreshSplitIsNew, SplitAssumption
  <2>2. m = NewSplit(TakePlace(l, target, w), w, axis, K)
    BY <1>7, Zenon DEF SplitLeaf, Pair
  <2> HIDE DEF w
  <2>3. K \in Seq(KidRec) /\ NodesOf(K) = {pane, target} /\ Arrivals(l, {}, target, K)
    BY <1>4, FullAssumption
  <2> HIDE DEF K
  <2>4. (l.up[target] = NoNode => l.root = target) /\ (l.root = target => l.up[target] = NoNode)
    BY OneTop
  <2>5. \A S : S \subseteq DOMAIN l.up \cap DOMAIN m.up => Keeps(l, m, S)
    <3>1. PICK X : X = {}
      OBVIOUS
    <3>2. /\ Erased(l, X, l) /\ Arrivals(l, X, target, K) /\ target \notin X
          /\ (l.up[target] # NoNode => l.up[target] \notin X)
      BY <1>5, <2>3, <3>1
    <3>3. w \notin NodesOf(K)
      BY <2>1, <2>3
    <3> QED BY <1>1, <1>2, <2>1, <2>2, <2>3, <2>4, <3>2, <3>3, OverKeeps
  <2> QED BY <1>3, <2>5
<1> QED BY <1>6, <1>7

\* An edit that leaves a tree of fewer nodes, each of them below what it is below after the
\* edit and the children in their order, keeps the order of the panes that are left.
LEMMA EditedBack ==
  ASSUME NEW l, NEW tops, NEW thin, Grove(l, tops, thin),
         NEW m, NEW thin2, Grove(m, {m.root}, thin2), DOMAIN m.up \subseteq DOMAIN l.up,
         \A n \in DOMAIN m.up : m.up[n] # NoNode /\ m.up[m.up[n]] # NoNode
                                  => m.up[n] \in Up(l.up, n),
         \A s \in DOMAIN m.kids : \A c, d : Ahead(NodeOf, m.kids[s], c, d) => Left(l, c, d)
  PROVE  \A S : S \subseteq DOMAIN m.up \cap Pane => Keeps(l, m, S) /\ Keeps(m, l, S)
<1> SUFFICES ASSUME NEW S, S \subseteq DOMAIN m.up \cap Pane
             PROVE  Keeps(l, m, S) /\ Keeps(m, l, S)
  OBVIOUS
<1>1. Upward(m.up, DOMAIN m.up)
  BY GroveParts
<1>2. Keeps(m, l, S)
  <2> DEFINE B == DOMAIN m.up
  <2>1. /\ Upward(m.up, B) /\ S \subseteq B \cap DOMAIN l.up
        /\ \A n \in B : n \in DOMAIN l.up /\ m.up[n] # NoNode /\ m.up[m.up[n]] # NoNode
                          => m.up[n] \in Up(l.up, n)
        /\ \A s \in DOMAIN m.kids : \A c, d \in B : Ahead(NodeOf, m.kids[s], c, d)
                                                      => Left(l, c, d)
    BY <1>1
  <2> HIDE DEF B
  <2> QED BY <2>1, Edited
<1>3. m.root \in DOMAIN m.up /\ PanesBelow(m, m.root) = DOMAIN m.up \cap Pane
  BY LeftInTree
<1>4. S \subseteq PanesBelow(m, m.root) \cap DOMAIN l.up
  BY <1>3
<1>5. Keeps(l, m, S)
  BY <1>2, <1>3, <1>4, KeepsBack
<1> QED BY <1>2, <1>5

\* remove_leaf keeps the order of the other panes.
LEMMA RemoveLeafKeeps ==
  ASSUME NEW l, Grove(l, {l.root}, {}), NEW leaf \in DOMAIN l.up, leaf \in Pane,
         l.up[leaf] # NoNode, NEW m, m = RemoveLeaf(l, leaf)
  PROVE  \A S : S \subseteq (DOMAIN l.up \cap Pane) \ {leaf} => Keeps(l, m, S)
<1> DEFINE e == LeafTaken(l, leaf) p == l.up[leaf] i == ChildIndex(l, p, leaf)
<1>1. /\ Grove(e, {e.root}, {p}) /\ p \in DOMAIN e.kids
      /\ DOMAIN e.up = DOMAIN l.up \ {leaf} /\ DOMAIN e.kids = DOMAIN l.kids
      /\ \A n \in DOMAIN e.up : e.up[n] = l.up[n]
      /\ \A q \in DOMAIN e.kids : q # p => e.kids[q] = l.kids[q]
      /\ e.kids[p] \in Seq(KidRec) /\ KidNodes(e.kids[p]) = KidNodes(RemoveAt(l.kids[p], i))
  BY LeafTakenGrove
<1>2. m = DissolveIfUnary(e, p)
  BY Zenon DEF RemoveLeaf, LeafTaken
<1>3. p \in DOMAIN l.kids /\ i \in 1 .. Len(l.kids[p])
  BY GroveIndex
<1>4. l.kids[p] \in Seq(KidRec) /\ Distinct(l.kids[p])
  BY <1>3, GroveKids
<1>5. Links(l.up)
  BY GroveLinks
<1> HIDE DEF e, i, p
<1>6. ASSUME NEW s \in DOMAIN e.kids, NEW c, NEW d, Ahead(NodeOf, e.kids[s], c, d)
      PROVE  Left(l, c, d)
  <2>1. Ahead(NodeOf, l.kids[s], c, d)
    <3>1. CASE s # p
      BY <1>1, <1>6, <3>1
    <3>2. CASE s = p
      <4> DEFINE R == RemoveAt(l.kids[p], i) e1 == l.kids[p][i].node
      <4>1. R \in Seq(KidRec)
        BY <1>3, <1>4, KidRemoved
      <4>2. Ahead(NodeOf, R, c, d) <=> Ahead(NodeOf, l.kids[p], c, d) /\ c # e1 /\ d # e1
        BY <1>3, <1>4, AheadRemoved
      <4> HIDE DEF R, e1
      <4>3. KidNodes(e.kids[p]) = KidNodes(R)
        BY <1>1 DEF R
      <4>4. Ahead(NodeOf, R, c, d)
        BY <1>1, <1>6, <3>2, <4>1, <4>3, AheadSame
      <4> QED BY <3>2, <4>2, <4>4
    <3> QED BY <3>1, <3>2
  <2>2. s \in DOMAIN l.kids
    BY <1>1
  <2> QED BY <2>1, <2>2, LeftKids
<1>7. \A S : S \subseteq DOMAIN e.up \cap Pane => Keeps(l, e, S) /\ Keeps(e, l, S)
  <2>1. DOMAIN e.up \subseteq DOMAIN l.up
    BY <1>1
  <2>2. \A n \in DOMAIN e.up : e.up[n] # NoNode /\ e.up[e.up[n]] # NoNode
                                 => e.up[n] \in Up(l.up, n)
    BY <1>1, <1>5, UpOne
  <2> QED BY <1>1, <1>6, <2>1, <2>2, EditedBack
<1>8. \A S : S \subseteq DOMAIN e.up \cap Pane => Keeps(e, m, S) /\ Keeps(m, e, S)
  BY <1>1, <1>2, DissolveKeeps
<1> SUFFICES ASSUME NEW S, S \subseteq (DOMAIN l.up \cap Pane) \ {leaf} PROVE Keeps(l, m, S)
  OBVIOUS
<1>9. S \subseteq DOMAIN e.up \cap Pane
  BY <1>1
<1> QED BY <1>7, <1>8, <1>9, KeepsOn

\* flatten_matching_split_children keeps the order of the panes, both ways.
LEMMA FlattenKeeps ==
  ASSUME NEW l, Grove(l, {l.root}, {}), NEW s \in DOMAIN l.kids, NEW m, m = Flatten(l, s)
  PROVE  \A S : S \subseteq DOMAIN l.up \cap Pane => Keeps(l, m, S) /\ Keeps(m, l, S)
<1> DEFINE X == SameAxisKids(l, s) K == l.kids[s]
<1>1. /\ Grove(m, {m.root}, {}) /\ Nodes(m) = Nodes(l) \ X
      /\ X = {n \in Children(l.up, s) : n \in DOMAIN l.kids /\ l.axis[n] = l.axis[s]}
      /\ m.up = Lifted(l.up, X, s) /\ DOMAIN m.kids = DOMAIN l.kids \ X
      /\ \A q \in DOMAIN m.kids : q # s => m.kids[q] = l.kids[q]
      /\ s \in DOMAIN m.kids /\ Expanded(l, s, X, m.kids[s])
  <2>1. m.root = l.root /\ Grove(m, {l.root}, {})
    BY FlattenLists
  <2> QED BY <2>1, FlattenLists
<1> HIDE DEF X
<1>2. /\ K \in Seq(KidRec) /\ Distinct(K) /\ NodesOf(K) = Children(l.up, s)
  BY GroveKids
<1>3. Links(l.up) /\ DOMAIN l.kids = DOMAIN l.up \cap Split
  BY GroveLinks, GroveParts
<1> HIDE DEF K
<1>4. ASSUME NEW n \in DOMAIN m.up, m.up[n] # NoNode PROVE m.up[n] \in Up(l.up, n)
  <2>1. n \in DOMAIN l.up \ X /\ m.up[n] = IF l.up[n] \in X THEN s ELSE l.up[n]
    BY <1>1, <1>4 DEF Lifted
  <2>2. CASE l.up[n] \in X
    <3>1. l.up[l.up[n]] = s /\ l.up[n] # NoNode /\ s # NoNode
      BY <1>1, <1>3, <2>2 DEF Children, Links
    <3> QED BY <1>3, <2>1, <2>2, <3>1, UpOne
  <2>3. CASE l.up[n] \notin X
    BY <1>3, <1>4, <2>1, <2>3, UpOne
  <2> QED BY <2>2, <2>3
<1>5. ASSUME NEW c, NEW d, Ahead(NodeOf, m.kids[s], c, d) PROVE Left(l, c, d)
  <2>1. PICK ss \in Seq(Seq(KidRec)) :
          /\ m.kids[s] = FlattenSeq(ss) /\ Len(ss) = Len(K)
          /\ \A i \in 1 .. Len(ss) :
               IF K[i].node \in X THEN KidNodes(ss[i]) = KidNodes(l.kids[K[i].node])
               ELSE ss[i] = <<K[i]>>
    BY <1>1 DEF Expanded, K
  <2>2. Spread(NodeOf, ss, Len(ss), c, d)
    BY <1>5, <2>1, AheadFlattened
  <2>3. ASSUME NEW i \in 1 .. Len(ss)
        PROVE  ss[i] \in Seq(KidRec) /\ K[i] \in KidRec /\ K[i].node \in DOMAIN l.up
               /\ l.up[K[i].node] = s
    <3>1. i \in 1 .. Len(K)
      BY <2>1
    <3>2. K[i] \in KidRec /\ K[i].node \in NodesOf(K)
      BY <1>2, <3>1, KidsAt DEF NodesOf
    <3> QED BY <1>2, <3>2 DEF Children
  <2>4. ASSUME NEW i \in 1 .. Len(ss), NEW x \in Image(NodeOf, ss[i])
        PROVE  K[i].node \in Up(l.up, x)
    <3>1. CASE K[i].node \in X
      <4>1. KidNodes(ss[i]) = KidNodes(l.kids[K[i].node]) /\ K[i].node \in DOMAIN l.kids
        BY <1>1, <2>1, <3>1
      <4>2. /\ l.kids[K[i].node] \in Seq(KidRec)
            /\ NodesOf(l.kids[K[i].node]) = Children(l.up, K[i].node)
        BY <4>1, GroveKids
      <4>3. NodesOf(ss[i]) = NodesOf(l.kids[K[i].node])
        BY <2>3, <4>1, <4>2, KidNodesOf
      <4>4. x \in Children(l.up, K[i].node)
        BY <2>3, <2>4, <4>2, <4>3, NodesAreImage
      <4>5. x \in DOMAIN l.up /\ l.up[x] = K[i].node /\ K[i].node # NoNode
        BY <1>3, <2>3, <4>4 DEF Children, Links
      <4> QED BY <1>3, <4>5, UpOne
    <3>2. CASE K[i].node \notin X
      <4>1. ss[i] = <<K[i]>>
        BY <2>1, <3>2
      <4>2. x = K[i].node
        BY <2>3, <2>4, <4>1 DEF Image, NodeOf
      <4> QED BY <1>3, <2>3, <4>2, UpIsUpward
    <3> QED BY <3>1, <3>2
  <2>5. CASE \E a \in 1 .. Len(ss) : Ahead(NodeOf, ss[a], c, d)
    <3>1. PICK a \in 1 .. Len(ss) : Ahead(NodeOf, ss[a], c, d)
      BY <2>5
    <3>2. K[a].node \in X
      <4>1. ASSUME K[a].node \notin X PROVE FALSE
        <5>1. ss[a] = <<K[a]>>
          BY <2>1, <4>1
        <5>2. Len(<<K[a]>>) = 1
          BY <2>3, OneListed
        <5> QED BY <3>1, <5>1, <5>2 DEF Ahead
      <4> QED BY <4>1
    <3>3. KidNodes(ss[a]) = KidNodes(l.kids[K[a].node]) /\ K[a].node \in DOMAIN l.kids
      BY <1>1, <2>1, <3>2
    <3>4. l.kids[K[a].node] \in Seq(KidRec)
      BY <3>3, GroveKids
    <3>5. Ahead(NodeOf, l.kids[K[a].node], c, d)
      BY <2>3, <3>1, <3>3, <3>4, AheadSame
    <3> QED BY <3>3, <3>5, LeftKids
  <2>6. CASE \E a, b \in 1 .. Len(ss) : a < b /\ c \in Image(NodeOf, ss[a])
                                          /\ d \in Image(NodeOf, ss[b])
    <3>1. PICK a \in 1 .. Len(ss), b \in 1 .. Len(ss) :
            a < b /\ c \in Image(NodeOf, ss[a]) /\ d \in Image(NodeOf, ss[b])
      BY <2>6
    <3>2. K[a].node \in Up(l.up, c) /\ K[b].node \in Up(l.up, d)
      BY <2>4, <3>1
    <3>3. Ahead(NodeOf, K, K[a].node, K[b].node)
      BY <1>2, <2>1, <3>1, KidsAhead
    <3> QED BY <3>2, <3>3, LeftFrom DEF K
  <2> QED BY <2>2, <2>5, <2>6 DEF Spread
<1>6. ASSUME NEW q \in DOMAIN m.kids, NEW c, NEW d, Ahead(NodeOf, m.kids[q], c, d)
      PROVE  Left(l, c, d)
  <2>1. CASE q = s
    BY <1>5, <1>6, <2>1
  <2>2. CASE q # s
    <3>1. q \in DOMAIN l.kids /\ Ahead(NodeOf, l.kids[q], c, d)
      BY <1>1, <1>6, <2>2
    <3> QED BY <3>1, LeftKids
  <2> QED BY <2>1, <2>2
<1>7. DOMAIN m.up = DOMAIN l.up \ X
  BY <1>1 DEF Nodes
<1>8. \A S : S \subseteq DOMAIN m.up \cap Pane => Keeps(l, m, S) /\ Keeps(m, l, S)
  <2>1. DOMAIN m.up \subseteq DOMAIN l.up
    BY <1>7
  <2>2. \A n \in DOMAIN m.up : m.up[n] # NoNode /\ m.up[m.up[n]] # NoNode
                                 => m.up[n] \in Up(l.up, n)
    BY <1>4
  <2> QED BY <1>1, <1>6, <2>1, <2>2, EditedBack
<1>9. DOMAIN l.up \cap Pane = DOMAIN m.up \cap Pane
  BY <1>1, <1>3, <1>7, SplitAssumption
<1> QED BY <1>8, <1>9

-----------------------------------------------------------------------------
(* Rotation keeps the order *)

\* Turning axes keeps the order.
LEMMA ToggleKeeps ==
  ASSUME NEW l, Grove(l, {l.root}, {}), NEW X, NEW m, m = ToggleAxes(l, X)
  PROVE  \A S : Keeps(l, m, S)
<1>1. Grove(m, {l.root}, {}) /\ m.root = l.root /\ m.kids = l.kids /\ m.up = l.up
  BY ToggleGrove
<1> QED BY <1>1, SameKeeps

\* rotate_split keeps the order of the panes.
LEMMA RotateSplitKeeps ==
  ASSUME NEW l, Grove(l, {l.root}, {}), NEW s \in DOMAIN l.kids, NEW m, m = RotateSplit(l, s)
  PROVE  \A S : S \subseteq DOMAIN l.up \cap Pane => Keeps(l, m, S)
<1> DEFINE t == ToggleAxes(l, Below(l, s)) p == l.up[s]
<1>1. Grove(t, {l.root}, {}) /\ t.root = l.root /\ t.kids = l.kids /\ t.up = l.up
  BY ToggleGrove
<1>2. m = IF p # NoNode /\ t.axis[p] = t.axis[s] THEN Flatten(t, p) ELSE t
  BY Zenon DEF RotateSplit
<1>3. \A S : Keeps(l, t, S)
  BY ToggleKeeps
<1>4. p \in DOMAIN l.kids \cup {NoNode}
  BY GroveParts
<1> HIDE DEF t
<1>5. CASE p # NoNode /\ t.axis[p] = t.axis[s]
  <2>1. m = Flatten(t, p) /\ p \in DOMAIN t.kids /\ Grove(t, {t.root}, {})
    BY <1>1, <1>2, <1>4, <1>5
  <2>2. \A S : S \subseteq DOMAIN t.up \cap Pane => Keeps(t, m, S)
    BY <2>1, FlattenKeeps
  <2> QED BY <1>1, <1>3, <2>2, KeepsOn
<1>6. CASE ~(p # NoNode /\ t.axis[p] = t.axis[s])
  BY <1>2, <1>3, <1>6
<1> QED BY <1>5, <1>6

\* rotate_sibling_range keeps the order of the panes.
LEMMA RotateRangeKeeps ==
  ASSUME NEW l, Grove(l, {l.root}, {}), SplitsNeverRunOut, NEW sel, NEW i, NEW j,
         Ranged(l, sel.parent, sel.nodes, i, j), ~WholeLevel(l, sel), Len(sel.nodes) # 1,
         NEW m, m = RotateRange(l, sel).layout
  PROVE  \A S : S \subseteq DOMAIN l.up => Keeps(l, m, S)
<1> DEFINE p == sel.parent g == RotateRange(l, sel).group K == l.kids[p] r == Cut(K, i, j)
<1>1. Grove(m, {m.root}, {}) /\ RangeGrouped(l, p, i, j, g, m)
  BY RotateRangeLists
<1> HIDE DEF g
<1>2. /\ g \in Split /\ g \notin DOMAIN l.up /\ r \in Seq(KidRec)
      /\ NodesOf(r) \subseteq Children(l.up, p) /\ m.up[g] = p
      /\ DOMAIN m.up = DOMAIN l.up \cup {g} /\ DOMAIN m.kids = DOMAIN l.kids \cup {g}
      /\ \A n \in DOMAIN l.up : m.up[n] = IF n \in NodesOf(r) THEN g ELSE l.up[n]
      /\ \A q \in DOMAIN l.kids : q # p => m.kids[q] = l.kids[q]
      /\ m.kids[g] \in Seq(KidRec) /\ KidNodes(m.kids[g]) = KidNodes(r)
      /\ Len(r) \in Nat /\ i \in 1 .. Len(K) + 1 /\ (i + Len(r)) - 1 = j /\ j <= Len(K)
  BY <1>1 DEF RangeGrouped
<1>3. PICK new \in Seq(KidRec) : NodesOf(new) = {g} /\ m.kids[p] = Replace(K, i, Len(r), new)
  BY <1>1 DEF RangeGrouped
<1>4. p \in DOMAIN l.kids
  BY DEF Ranged
<1>5. K \in Seq(KidRec) /\ Distinct(K) /\ NodesOf(K) = Children(l.up, p)
  BY <1>4, GroveKids
<1>6. Links(l.up) /\ Links(m.up) /\ Upward(l.up, DOMAIN l.up) /\ DOMAIN l.kids \subseteq DOMAIN l.up
      /\ NoNode \notin DOMAIN l.up /\ g # NoNode
  BY <1>1, <1>2, GroveLinks, GroveParts, NoNodeAssumption
<1>7. PICK A \in Seq(KidRec), C \in Seq(KidRec) :
        /\ K = Join(Join(A, r), C) /\ m.kids[p] = Join(Join(A, new), C)
  <2>1. (i + Len(r)) - 1 <= Len(K) /\ Cut(K, i, (i + Len(r)) - 1) = r
    BY <1>2
  <2> HIDE DEF K, r
  <2>2. SameEnds(K, Cut(K, i, (i + Len(r)) - 1), Replace(K, i, Len(r), new), new)
    BY <1>2, <1>5, <2>1, SharedEnds
  <2> QED BY <1>3, <2>1, <2>2 DEF SameEnds
<1> HIDE DEF K, r, p
<1>8. ASSUME NEW n \in DOMAIN l.up, l.up[n] # NoNode PROVE l.up[n] \in Up(m.up, n)
  <2>1. CASE n \in NodesOf(r)
    <3>1. m.up[n] = g /\ l.up[n] = p /\ m.up[g] = p /\ p # NoNode /\ n \in DOMAIN m.up
      BY <1>2, <1>4, <1>6, <2>1 DEF Children
    <3> QED BY <1>6, <3>1, UpOne
  <2>2. CASE n \notin NodesOf(r)
    <3>1. m.up[n] = l.up[n] /\ n \in DOMAIN m.up
      BY <1>2, <2>2
    <3> QED BY <1>6, <1>8, <3>1, UpOne
  <2> QED BY <2>1, <2>2
<1>9. ASSUME NEW n \in NodesOf(r) PROVE n \in DOMAIN m.up /\ g \in Up(m.up, n)
  <2>1. n \in DOMAIN m.up /\ m.up[n] = g
    BY <1>2 DEF Children
  <2> QED BY <1>6, <2>1, UpOne
<1>10. ASSUME NEW n \in DOMAIN l.up PROVE n \in Up(m.up, n)
  BY <1>2, <1>6, UpIsUpward
<1>11. ASSUME NEW c, NEW d, Ahead(NodeOf, K, c, d) PROVE Left(m, c, d)
  <2>1. /\ Ahead(NodeOf, K, c, d)
             <=> \/ Ahead(NodeOf, A, c, d) \/ Ahead(NodeOf, r, c, d) \/ Ahead(NodeOf, C, c, d)
                 \/ c \in NodesOf(A) /\ d \in NodesOf(r)
                 \/ c \in NodesOf(A) /\ d \in NodesOf(C)
                 \/ c \in NodesOf(r) /\ d \in NodesOf(C)
    BY <1>2, <1>7, AheadThree
  <2>2. ASSUME NEW x, NEW y
        PROVE  /\ Ahead(NodeOf, A, x, y) \/ Ahead(NodeOf, C, x, y) => Ahead(NodeOf, m.kids[p], x, y)
               /\ x \in NodesOf(A) /\ y \in NodesOf(C) => Ahead(NodeOf, m.kids[p], x, y)
               /\ x \in NodesOf(A) /\ y = g => Ahead(NodeOf, m.kids[p], x, y)
               /\ x = g /\ y \in NodesOf(C) => Ahead(NodeOf, m.kids[p], x, y)
    BY <1>3, <1>7, AheadThree
  <2>3. p \in DOMAIN m.kids /\ g \in DOMAIN m.kids
    BY <1>2, <1>4
  <2>4. c \in DOMAIN l.up /\ d \in DOMAIN l.up
    BY <1>5, <1>11, KidsAhead DEF Children
  <2>5. CASE Ahead(NodeOf, m.kids[p], c, d)
    BY <1>1, <2>3, <2>5, LeftKids
  <2>6. CASE Ahead(NodeOf, r, c, d)
    <3>1. Ahead(NodeOf, m.kids[g], c, d)
      BY <1>2, <2>6, AheadSame
    <3> QED BY <1>1, <2>3, <3>1, LeftKids
  <2>7. CASE c \in NodesOf(A) /\ d \in NodesOf(r)
    <3>1. c \in Up(m.up, c) /\ g \in Up(m.up, d) /\ Ahead(NodeOf, m.kids[p], c, g)
      BY <1>9, <1>10, <2>2, <2>4, <2>7
    <3> QED BY <1>1, <2>3, <3>1, LeftFrom
  <2>8. CASE c \in NodesOf(r) /\ d \in NodesOf(C)
    <3>1. g \in Up(m.up, c) /\ d \in Up(m.up, d) /\ Ahead(NodeOf, m.kids[p], g, d)
      BY <1>9, <1>10, <2>2, <2>4, <2>8
    <3> QED BY <1>1, <2>3, <3>1, LeftFrom
  <2> QED BY <1>11, <2>1, <2>2, <2>5, <2>6, <2>7, <2>8
<1>12. ASSUME NEW s \in DOMAIN l.kids, NEW c, NEW d, Ahead(NodeOf, l.kids[s], c, d)
       PROVE  Left(m, c, d)
  <2>1. CASE s = p
    BY <1>11, <1>12, <2>1 DEF K
  <2>2. CASE s # p
    <3>1. s \in DOMAIN m.kids /\ Ahead(NodeOf, m.kids[s], c, d)
      BY <1>2, <1>12, <2>2
    <3> QED BY <1>1, <3>1, LeftKids
  <2> QED BY <2>1, <2>2
<1> SUFFICES ASSUME NEW S, S \subseteq DOMAIN l.up PROVE Keeps(l, m, S)
  OBVIOUS
<1> DEFINE B == DOMAIN l.up
<1>13. /\ Upward(l.up, B) /\ S \subseteq B \cap DOMAIN m.up
       /\ \A n \in B : n \in DOMAIN m.up /\ l.up[n] # NoNode /\ l.up[l.up[n]] # NoNode
                         => l.up[n] \in Up(m.up, n)
       /\ \A s \in DOMAIN l.kids : \A c, d \in B : Ahead(NodeOf, l.kids[s], c, d) => Left(m, c, d)
  BY <1>2, <1>6, <1>8, <1>12
<1> HIDE DEF B
<1> QED BY <1>1, <1>13, Edited

\* rotate_pane_selection_level keeps the order of the panes.
LEMMA RotateLevelKeeps ==
  ASSUME NEW l, Grove(l, {l.root}, {}), SplitsNeverRunOut, NEW sel, SelOK(l, sel),
         NEW m, m = RotateLevel(l, sel).layout
  PROVE  \A S : S \subseteq DOMAIN l.up \cap Pane => Keeps(l, m, S)
<1>1. /\ sel.nodes \in Seq(Pane \cup Split) /\ Len(sel.nodes) \in Nat \ {0}
      /\ (sel.parent = NoNode => sel.nodes = <<l.root>>)
      /\ (sel.parent # NoNode => sel.parent \in DOMAIN l.kids
                                 /\ \E i, j : Ranged(l, sel.parent, sel.nodes, i, j))
  BY SelParts
<1>2. ASSUME NEW x, NEW y PROVE Rotated(x, y).layout = x
  BY DEF Rotated
<1>3. CASE Len(sel.nodes) > 1
  <2>a. \A y \in Nat : y > 1 => y # 1
    OBVIOUS
  <2>b. Len(sel.nodes) # 1
    BY <1>1, <1>3, <2>a, Zenon
  <2>1. sel.parent # NoNode
    <3>1. Len(<<l.root>>) = 1
      OBVIOUS
    <3>2. sel.parent = NoNode => Len(sel.nodes) = 1
      BY <1>1, <3>1
    <3> QED BY <2>b, <3>2, Zenon
  <2>2. RotateLevel(l, sel) = RotateRangeLevel(l, sel)
    BY <1>3 DEF RotateLevel
  <2>3. CASE WholeLevel(l, sel)
    <3>1. RotateRangeLevel(l, sel)
            = Rotated(RotateSplit(l, sel.parent),
                      SelectNodes(RotateSplit(l, sel.parent), sel.nodes,
                      sel.anchor = sel.nodes[1]))
      BY <2>3, Zenon DEF RotateRangeLevel
    <3>2. m = RotateSplit(l, sel.parent)
      BY <1>2, <2>2, <3>1
    <3> QED BY <1>1, <2>1, <3>2, RotateSplitKeeps
  <2>4. CASE ~WholeLevel(l, sel)
    <3>1. RotateRangeLevel(l, sel)
            = Rotated(RotateRange(l, sel).layout,
                      SingleSelection(RotateRange(l, sel).layout, RotateRange(l, sel).group))
      BY <2>4, Zenon DEF RotateRangeLevel
    <3>2. m = RotateRange(l, sel).layout
      BY <1>2, <2>2, <3>1
    <3>3. PICK i, j : Ranged(l, sel.parent, sel.nodes, i, j)
      BY <1>1, <2>1
    <3>4. Len(sel.nodes) # 1
      BY <2>b
    <3>5. \A S : S \subseteq DOMAIN l.up => Keeps(l, m, S)
      BY <2>4, <3>2, <3>3, <3>4, RotateRangeKeeps
    <3> QED BY <3>5
  <2> QED BY <2>3, <2>4
<1>4. CASE ~(Len(sel.nodes) > 1) /\ ~IsLeaf(l, sel.nodes[1])
  <2> DEFINE s == sel.nodes[1]
  <2>1. RotateLevel(l, sel) = RotateGroup(l, s)
    BY <1>4 DEF RotateLevel
  <2>2. s \in DOMAIN l.kids
    BY <1>4, GroveParts
  <2>3. RotateGroup(l, s)
          = Rotated(RotateSplit(l, s),
                    IF l.up[s] = NoNode THEN SingleSelection(RotateSplit(l, s), s)
                    ELSE SelectNodes(RotateSplit(l, s), KidNodes(l.kids[s]), TRUE))
    BY Zenon DEF RotateGroup
  <2>4. m = RotateSplit(l, s)
    BY <1>2, <2>1, <2>3
  <2> QED BY <2>2, <2>4, RotateSplitKeeps
<1>5. CASE ~(Len(sel.nodes) > 1) /\ IsLeaf(l, sel.nodes[1]) /\ sel.parent # NoNode
  <2>1. RotateLevel(l, sel) = RotateLeafLevel(l, sel)
    BY <1>5 DEF RotateLevel
  <2>2. RotateLeafLevel(l, sel)
          = Rotated(RotateSplit(l, sel.parent),
                    SelectNodes(RotateSplit(l, sel.parent), KidNodes(l.kids[sel.parent]), TRUE))
    BY Zenon DEF RotateLeafLevel
  <2>3. m = RotateSplit(l, sel.parent)
    BY <1>2, <2>1, <2>2
  <2> QED BY <1>1, <1>5, <2>3, RotateSplitKeeps
<1>6. CASE ~(Len(sel.nodes) > 1) /\ IsLeaf(l, sel.nodes[1]) /\ sel.parent = NoNode
  <2>1. RotateLevel(l, sel) = [changed |-> FALSE, layout |-> l, selection |-> sel]
    BY <1>6 DEF RotateLevel
  <2>2. m = l
    BY <2>1
  <2> QED BY <2>2 DEF Keeps
<1> QED BY <1>3, <1>4, <1>5, <1>6

-----------------------------------------------------------------------------
(* Taking the source of a move out *)

\* m is l with the nodes S hanging below top or being top, which hangs nowhere.
Taken(l, S, top, m) ==
  /\ DOMAIN m.up = DOMAIN l.up \cup {top} /\ m.up[top] = NoNode
  /\ \A n \in DOMAIN l.up : n # top => m.up[n] = l.up[n] \/ (n \in S /\ m.up[n] = top)
  /\ \A n \in S : n \in DOMAIN l.up /\ (n = top \/ m.up[n] = top)
  /\ \A n \in DOMAIN l.up : m.up[n] = top => n \in S \/ (top \in S /\ l.up[n] = top)
  /\ top \in Pane => top \in S
  /\ \A s \in DOMAIN m.kids : \A c, d :
       Ahead(NodeOf, m.kids[s], c, d) => \E q \in DOMAIN l.kids : Ahead(NodeOf, l.kids[q], c, d)

\* A layout with other lists and with n hanging nowhere.
LEMMA OrphanAt ==
  ASSUME NEW l, l = Lay(l.root, l.axis, l.kids, l.up), NEW k2, NEW n \in DOMAIN l.up,
         NEW m, m = Orphan(WithKids(l, k2), n)
  PROVE  /\ DOMAIN m.up = DOMAIN l.up /\ m.kids = k2
         /\ \A x \in DOMAIN l.up : m.up[x] = IF x = n THEN NoNode ELSE l.up[x]
<1> DEFINE r == l.root a == l.axis k == l.kids u == l.up
           u2 == [u EXCEPT ![n] = NoNode]
<1>1. m = WithUp(WithKids(l, k2), [WithKids(l, k2).up EXCEPT ![n] = NoNode])
  BY Zenon DEF Orphan, WithUp
<1>2. /\ DOMAIN u2 = DOMAIN u
      /\ \A x \in DOMAIN u : u2[x] = IF x = n THEN NoNode ELSE u[x]
  OBVIOUS
<1>3. l = Lay(r, a, k, u)
  OBVIOUS
<1> HIDE DEF r, a, k, u
<1>4. m = Lay(r, a, k2, u2)
  <2>1. WithKids(Lay(r, a, k, u), k2) = Lay(r, a, k2, u)
    BY LayWithKids
  <2>2. Lay(r, a, k2, u).up = u
    BY LayParts
  <2>3. WithUp(Lay(r, a, k2, u), u2) = Lay(r, a, k2, u2)
    BY LayWithUp
  <2> QED BY <1>1, <1>3, <2>1, <2>2, <2>3, Zenon DEF u2
<1> HIDE DEF u2
<1>5. m.kids = k2 /\ m.up = u2
  BY <1>4, LayParts
<1>6. /\ DOMAIN m.up = DOMAIN u /\ m.kids = k2
      /\ \A x \in DOMAIN u : m.up[x] = IF x = n THEN NoNode ELSE u[x]
  BY <1>2, <1>5
<1> QED BY <1>6, Zenon DEF u

\* extract takes the selected nodes out and leaves the order of children.
LEMMA ExtractTaken ==
  ASSUME NEW l, Grove(l, {l.root}, {}), SplitsNeverRunOut, NEW sel, SelOK(l, sel),
         NEW t \in DOMAIN l.up, \A s \in ToSet(sel.nodes) : Apart(l, s, t)
  PROVE  LET e == Extract(l, sel) IN Taken(l, ToSet(sel.nodes), e.node, e.layout)
<1> DEFINE p == sel.parent u == l.up k == l.kids S == ToSet(sel.nodes)
           g == u[p]
           C == SelectedKids(l, sel)
           D == OtherKids(l, sel)
           rest == Normalized(D)
           e == Extract(l, sel)
           w == FreshSplit(l)
           K == k[p]
<1>1. /\ sel.nodes \in Seq(Pane \cup Split) /\ Len(sel.nodes) \in Nat \ {0}
         /\ S \subseteq DOMAIN u
      /\ sel.nodes[1] \in S /\ (\A n \in S : u[n] = p) /\ (p = NoNode => sel.nodes = <<l.root>>)
      /\ (Len(sel.nodes) = 1 => S = {sel.nodes[1]})
      /\ (p # NoNode => p \in DOMAIN k /\ \E i, j : Ranged(l, p, sel.nodes, i, j))
  BY SelParts
<1>2. /\ Links(u) /\ Nodes(l) = DOMAIN u /\ {l.root} = {n \in DOMAIN u : u[n] = NoNode}
      /\ DOMAIN k = DOMAIN u \cap Split /\ DOMAIN u \subseteq Pane \cup Split
      /\ NoNode \notin DOMAIN u /\ l = Lay(l.root, l.axis, k, u)
  BY GroveLinks, GroveParts
<1>3. \A n \in S : n \notin Up(u, t) /\ n # t
  BY <1>1, ApartUp
<1>4. l.root \in Up(u, t)
  BY <1>2, UpToTheTop
<1>5. p # NoNode
  <2> SUFFICES ASSUME p = NoNode PROVE FALSE
    OBVIOUS
  <2>1. sel.nodes[1] = l.root
    BY <1>1
  <2> QED BY <1>1, <1>3, <1>4, <2>1
<1>6. p \in DOMAIN k
  BY <1>1, <1>5
<1>7. PICK i, j : Ranged(l, p, sel.nodes, i, j)
  BY <1>1, <1>5
<1>8. /\ C \in Seq(KidRec) /\ Distinct(C) /\ NodesOf(C) = S /\ Len(C) = Len(sel.nodes)
      /\ D \in Seq(KidRec) /\ Distinct(D) /\ NodesOf(D) = Children(u, p) \ S
      /\ (~WholeLevel(l, sel) => Len(D) # 0)
  BY <1>7, Partitioned
<1>9. /\ S \subseteq Children(u, p) /\ (Len(sel.nodes) = Len(k[p]) => S = Children(u, p))
      /\ (Len(sel.nodes) # Len(k[p]) => Children(u, p) \ S # {})
  BY <1>7, RangedParts
<1>10. K \in Seq(KidRec) /\ Distinct(K) /\ NodesOf(K) = Children(u, p)
  BY <1>6, GroveKids
<1>11. ASSUME NEW c, NEW d PROVE /\ Ahead(NodeOf, C, c, d) => Ahead(NodeOf, K, c, d)
                                 /\ Ahead(NodeOf, D, c, d) => Ahead(NodeOf, K, c, d)
  <2>1. ToSet(KidNodes(K)) = NodesOf(K)
    BY <1>10, KidNodesOf
  <2>2. C = Among(K, S) /\ D = Among(K, NodesOf(K) \ S)
    BY <2>1, Zenon DEF SelectedKids, OtherKids
  <2> HIDE DEF C, D, K
  <2> QED BY <1>10, <2>2, AheadAmong
<1>12. ASSUME NEW M \in Seq(KidRec), Distinct(M), NodesOf(M) # {}, NEW c, NEW d,
              Ahead(NodeOf, Normalized(M), c, d)
       PROVE  Ahead(NodeOf, M, c, d)
  <2>1. Normalized(M) \in Seq(KidRec) /\ KidNodes(Normalized(M)) = KidNodes(M)
    BY <1>12, NormalizedKids DEF KidsFor
  <2> QED BY <1>12, <2>1, AheadSame
<1>13. ASSUME ~WholeLevel(l, sel), NEW c, NEW d, Ahead(NodeOf, rest, c, d)
       PROVE  Ahead(NodeOf, K, c, d)
  <2>1. NodesOf(D) # {}
    BY <1>8, <1>9, <1>13 DEF WholeLevel
  <2> HIDE DEF C, D, K, S
  <2>2. Ahead(NodeOf, D, c, d)
    BY <1>8, <1>12, <1>13, <2>1
  <2> QED BY <1>11, <2>2
<1> SUFFICES Taken(l, S, e.node, e.layout)
  OBVIOUS
<1> HIDE DEF e
<1>14. CASE WholeLevel(l, sel)
  <2> DEFINE y == ChildIndex(l, g, p) R == RemoveAt(k[g], y) N == Normalized(R)
             k2 == [k EXCEPT ![g] = N] m == Orphan(WithKids(l, k2), p)
  <2>1. e = [node |-> p, left |-> g, layout |-> m]
    <3>1. [l EXCEPT !.kids[g] = N] = WithKids(l, k2)
      BY Zenon DEF WithKids
    <3> QED BY <1>14, <3>1, Zenon DEF e, Extract
  <2>2. S = Children(u, p)
    BY <1>9, <1>14 DEF WholeLevel
  <2>3. p \notin Up(u, t)
    <3>1. \A c \in Children(u, p) : Apart(l, c, t)
      BY <2>2
    <3> QED BY <1>6, <3>1, NotAboveChildren
  <2>4. p \in DOMAIN u /\ g # NoNode
    BY <1>2, <1>4, <1>6, <2>3
  <2>5. g \in DOMAIN k /\ p \in Children(u, g) /\ y \in 1 .. Len(k[g]) /\ k[g][y].node = p
    BY <2>4, GroveIndex
  <2>6. k[g] \in Seq(KidRec) /\ Distinct(k[g]) /\ NodesOf(k[g]) = Children(u, g)
        /\ Several(Children(u, g))
    BY <2>5, GroveKids
  <2> HIDE DEF y
  <2>7. R \in Seq(KidRec) /\ Distinct(R) /\ NodesOf(R) = Children(u, g) \ {p}
    BY <2>5, <2>6, KidRemoved
  <2>8. NodesOf(R) # {}
    BY <2>5, <2>6, <2>7, SMTT(30) DEF Several
  <2>9. ASSUME NEW c, NEW d, Ahead(NodeOf, N, c, d) PROVE Ahead(NodeOf, k[g], c, d)
    <3> DEFINE q == k[g][y].node
    <3>1. Ahead(NodeOf, R, c, d) <=> Ahead(NodeOf, k[g], c, d) /\ c # q /\ d # q
      BY <2>5, <2>6, AheadRemoved
    <3> HIDE DEF R, q
    <3>2. Ahead(NodeOf, R, c, d)
      BY <1>12, <2>7, <2>8, <2>9
    <3> QED BY <3>1, <3>2
  <2> HIDE DEF R, N
  <2>10. /\ DOMAIN m.up = DOMAIN u /\ DOMAIN m.kids = DOMAIN k
         /\ \A x \in DOMAIN u : m.up[x] = IF x = p THEN NoNode ELSE u[x]
         /\ \A s \in DOMAIN k : m.kids[s] = IF s = g THEN N ELSE k[s]
    <3>1. l = Lay(l.root, l.axis, l.kids, l.up) /\ g \in DOMAIN l.kids /\ p \in DOMAIN l.up
      BY <1>2, <2>4, <2>5
    <3>2. DOMAIN k2 = DOMAIN k /\ \A s \in DOMAIN k : k2[s] = IF s = g THEN N ELSE k[s]
      BY <3>1
    <3> HIDE DEF k2
    <3>3. /\ DOMAIN m.up = DOMAIN l.up /\ m.kids = k2
          /\ \A x \in DOMAIN l.up : m.up[x] = IF x = p THEN NoNode ELSE l.up[x]
      BY <3>1, OrphanAt
    <3> HIDE DEF m
    <3> QED BY <3>2, <3>3
  <2> HIDE DEF m
  <2>11. p \notin Pane /\ p \notin Children(u, p) /\ p # NoNode
    BY <1>2, <1>5, <1>6, SplitAssumption, GroveKids
  <2>12. \A s \in DOMAIN m.kids : \A c, d :
           Ahead(NodeOf, m.kids[s], c, d) => \E q \in DOMAIN l.kids : Ahead(NodeOf, l.kids[q], c, d)
    BY <2>5, <2>9, <2>10
  <2>13. e.node = p /\ e.layout = m
    BY <2>1
  <2>14. Taken(l, Children(u, p), p, m)
    <3>1. /\ DOMAIN m.up = DOMAIN l.up \cup {p} /\ m.up[p] = NoNode
          /\ \A n \in DOMAIN l.up : n # p => m.up[n] = l.up[n]
      BY <2>4, <2>10
    <3>2. \A n \in Children(u, p) : n \in DOMAIN l.up /\ n # p /\ m.up[n] = p
      BY <2>10, <2>11 DEF Children
    <3>3. \A n \in DOMAIN l.up : m.up[n] = p => n \in Children(u, p)
      BY <2>10, <2>11 DEF Children
    <3> QED BY <2>11, <2>12, <3>1, <3>2, <3>3, Zenon DEF Taken
  <2> QED BY <2>2, <2>13, <2>14
<1>15. CASE ~WholeLevel(l, sel) /\ Len(C) = 1
  <2> DEFINE n == sel.nodes[1] k2 == [k EXCEPT ![p] = rest]
             m == Orphan(WithKids(l, k2), n)
  <2>1. e = [node |-> n, left |-> p, layout |-> m]
    <3>1. [l EXCEPT !.kids[p] = rest] = WithKids(l, k2)
      BY Zenon DEF WithKids
    <3> QED BY <1>15, <3>1, Zenon DEF e, Extract
  <2>2. S = {n} /\ n \in Children(u, p)
    BY <1>1, <1>8, <1>9, <1>15
  <2>3. \A c, d : Ahead(NodeOf, rest, c, d) => Ahead(NodeOf, k[p], c, d)
    BY <1>13, <1>15
  <2>4. n \in DOMAIN u
    BY <2>2 DEF Children
  <2> HIDE DEF n, rest
  <2>5. /\ DOMAIN m.up = DOMAIN u /\ DOMAIN m.kids = DOMAIN k
        /\ \A x \in DOMAIN u : m.up[x] = IF x = n THEN NoNode ELSE u[x]
        /\ \A s \in DOMAIN k : m.kids[s] = IF s = p THEN rest ELSE k[s]
    <3>1. l = Lay(l.root, l.axis, l.kids, l.up) /\ p \in DOMAIN l.kids /\ n \in DOMAIN l.up
      BY <1>2, <1>6, <2>4
    <3>2. DOMAIN k2 = DOMAIN k /\ \A s \in DOMAIN k : k2[s] = IF s = p THEN rest ELSE k[s]
      BY <3>1
    <3> HIDE DEF k2
    <3>3. /\ DOMAIN m.up = DOMAIN l.up /\ m.kids = k2
          /\ \A x \in DOMAIN l.up : m.up[x] = IF x = n THEN NoNode ELSE l.up[x]
      BY <3>1, OrphanAt
    <3> HIDE DEF m
    <3> QED BY <3>2, <3>3
  <2> HIDE DEF m
  <2>6. e.node = n /\ e.layout = m
    BY <2>1
  <2>7. \A s \in DOMAIN m.kids : \A c, d :
          Ahead(NodeOf, m.kids[s], c, d) => \E q \in DOMAIN l.kids : Ahead(NodeOf, l.kids[q], c, d)
    BY <1>6, <2>3, <2>5
  <2> HIDE DEF S
  <2>8. Taken(l, {n}, n, m)
    <3>1. /\ DOMAIN m.up = DOMAIN l.up \cup {n} /\ m.up[n] = NoNode
          /\ \A y \in DOMAIN l.up : y # n => m.up[y] = l.up[y]
      BY <2>4, <2>5
    <3>2. n # NoNode /\ \A y \in DOMAIN l.up : m.up[y] = n => l.up[y] = n
      BY <1>2, <2>4, <2>5
    <3>3. \A y \in {n} : y \in DOMAIN l.up /\ y = n
      BY <2>4
    <3>4. n \in {n}
      OBVIOUS
    <3> QED BY <2>7, <3>1, <3>2, <3>3, <3>4, Zenon DEF Taken
  <2> QED BY <2>2, <2>6, <2>8
<1>16. CASE ~WholeLevel(l, sel) /\ Len(C) # 1
  <2> DEFINE x == l.axis[p] N == Normalized(C)
             shrunk == [l EXCEPT !.kids[p] = rest]
             grouped == NewSplit(shrunk, w, x, N)
             m == [grouped EXCEPT !.up = Set(@, w, NoNode)]
  <2>1. e = [node |-> w, left |-> p, layout |-> m]
    BY <1>16, Zenon DEF e, Extract
  <2>2. w \in Split /\ w \notin DOMAIN u
    BY <1>2, FreshSplitIsNew
  <2>3. N \in Seq(KidRec) /\ NodesOf(N) = S
        /\ \A c, d : Ahead(NodeOf, N, c, d) => Ahead(NodeOf, K, c, d)
    <3>1. NodesOf(C) # {}
      BY <1>1, <1>8
    <3> HIDE DEF C, K, S
    <3>2. N \in Seq(KidRec) /\ NodesOf(N) = NodesOf(C)
      BY <1>8, <3>1, NormalizedKids DEF KidsFor
    <3> QED BY <1>8, <1>11, <1>12, <3>1, <3>2
  <2>4. \A c, d : Ahead(NodeOf, rest, c, d) => Ahead(NodeOf, K, c, d)
    BY <1>13, <1>16
  <2> HIDE DEF w, x, N, rest, C
  <2> DEFINE k2 == [k EXCEPT ![p] = rest] k3 == Set(k2, w, N)
             v == Parented(u, w, S) u3 == Set(v, w, NoNode) a3 == Set(l.axis, w, x)
  <2>5. DOMAIN k2 = DOMAIN k /\ k2[p] = rest /\ \A s \in DOMAIN k : s # p => k2[s] = k[s]
    BY <1>6
  <2> HIDE DEF k2
  <2>6. m.kids = k3 /\ m.up = u3
    <3>1. shrunk = WithKids(l, k2)
      BY Zenon DEF WithKids, k2
    <3>2. WithKids(Lay(l.root, l.axis, k, u), k2) = Lay(l.root, l.axis, k2, u)
      BY LayWithKids
    <3>3. shrunk = Lay(l.root, l.axis, k2, u)
      BY <1>2, <3>1, <3>2
    <3> HIDE DEF shrunk
    <3>4. NewSplit(Lay(l.root, l.axis, k2, u), w, x, N)
          = Lay(l.root, a3, k3, Parented(u, w, NodesOf(N)))
      BY <2>3, NewSplitParts
    <3>5. grouped = Lay(l.root, a3, k3, v)
      BY <2>3, <3>3, <3>4
    <3> HIDE DEF grouped, a3, k3, v
    <3>6. m = WithUp(grouped, Set(grouped.up, w, NoNode))
      BY Zenon DEF WithUp
    <3>7. Lay(l.root, a3, k3, v).up = v
      BY LayParts
    <3>8. WithUp(Lay(l.root, a3, k3, v), Set(v, w, NoNode))
          = Lay(l.root, a3, k3, Set(v, w, NoNode))
      BY LayWithUp
    <3> HIDE DEF m
    <3>9. m = Lay(l.root, a3, k3, u3)
      BY <3>5, <3>6, <3>7, <3>8, Zenon
    <3> HIDE DEF u3
    <3> QED BY <3>9, LayParts
  <2>7. DOMAIN k3 = DOMAIN k \cup {w} /\ k3[p] = rest /\ k3[w] = N
        /\ \A s \in DOMAIN k : s # p => k3[s] = k[s]
    <3>1. w \notin DOMAIN k
      BY <1>2, <2>2
    <3> QED BY <1>6, <2>5, <3>1 DEF Set
  <2> HIDE DEF S
  <2>8. DOMAIN u3 = DOMAIN u \cup {w} /\ u3[w] = NoNode
        /\ \A q \in DOMAIN u : u3[q] = IF q \in S THEN w ELSE u[q]
    BY <1>1, <2>2 DEF Set, Parented
  <2> HIDE DEF k3, u3, m
  <2>9. e.node = w /\ e.layout = m
    BY <2>1
  <2>10. \A s \in DOMAIN m.kids : \A c, d :
           Ahead(NodeOf, m.kids[s], c, d) => \E q \in DOMAIN l.kids : Ahead(NodeOf, l.kids[q], c, d)
    BY <1>6, <2>3, <2>4, <2>6, <2>7
  <2>11. w \notin Pane /\ \A n \in DOMAIN u : u[n] # w
    BY <1>2, <2>2, SplitAssumption, NoNodeAssumption DEF Links
  <2>12. Taken(l, S, w, m)
    <3>1. /\ DOMAIN m.up = DOMAIN l.up \cup {w} /\ m.up[w] = NoNode
          /\ \A n \in DOMAIN l.up : m.up[n] = l.up[n] \/ (n \in S /\ m.up[n] = w)
          /\ \A n \in DOMAIN l.up : m.up[n] = w => n \in S
      BY <2>6, <2>8, <2>11
    <3>2. \A n \in S : n \in DOMAIN l.up /\ m.up[n] = w
      BY <1>1, <2>6, <2>8
    <3> QED BY <2>10, <2>11, <3>1, <3>2, Zenon DEF Taken
  <2> QED BY <2>9, <2>12
<1> QED BY <1>14, <1>15, <1>16

\* A node has a top above it.
LEMMA TopAbove ==
  ASSUME NEW u, Links(u), NEW x \in DOMAIN u
  PROVE  \E n \in Up(u, x) : u[n] = NoNode
<1> SUFFICES ASSUME \A n \in Up(u, x) : u[n] # NoNode PROVE FALSE
  OBVIOUS
<1> DEFINE C == Up(u, x)
<1>1. C \in SUBSET DOMAIN u /\ x \in C /\ Upward(u, C)
  BY UpIsUpward
<1> HIDE DEF C
<1>2. \A n \in C : u[n] # NoNode
  BY DEF C
<1>3. \A n \in C : u[n] \in C
  BY <1>1, <1>2 DEF Upward
<1>4. C = {}
  BY <1>1, <1>3 DEF Links, Rooted
<1> QED BY <1>1, <1>4

\* The panes at or below the nodes S.
PanesUnder(l, S) == {x \in DOMAIN l.up \cap Pane : \E s \in S : s \in Up(l.up, x)}

\* What stands above a node after some nodes were taken out.
LEMMA TakenAbove ==
  ASSUME NEW l, Grove(l, {l.root}, {}), NEW m, NEW tops, NEW thin, Grove(m, tops, thin),
         NEW S, NEW top, Taken(l, S, top, m), NEW x \in DOMAIN l.up
  PROVE  /\ (\E c \in S : c \in Up(l.up, x)) => top \in Up(m.up, x)
         /\ \A c \in Up(m.up, x) : c # top => c \in Up(l.up, x)
         /\ top \notin Up(m.up, x) => Up(l.up, x) \subseteq Up(m.up, x)
<1> DEFINE u == l.up v == m.up
<1>1. Links(u) /\ Links(v)
  BY GroveLinks
<1>2. /\ DOMAIN v = DOMAIN u \cup {top} /\ v[top] = NoNode
      /\ \A n \in DOMAIN u : n # top => v[n] = u[n] \/ (n \in S /\ v[n] = top)
      /\ \A n \in S : n \in DOMAIN u /\ (n = top \/ v[n] = top)
      /\ \A n \in DOMAIN u : v[n] = top => n \in S \/ (top \in S /\ u[n] = top)
      /\ top \in Pane => top \in S
  BY DEF Taken
<1>3. top \in DOMAIN v /\ top # NoNode
  BY <1>1, <1>2 DEF Links
<1>4. ASSUME NEW c \in S, c \in Up(u, x) PROVE top \in Up(v, x)
  <2> SUFFICES ASSUME top \notin Up(v, x) PROVE FALSE
    OBVIOUS
  <2> DEFINE A == Up(v, x)
  <2>1. A \subseteq DOMAIN v /\ x \in A /\ Upward(v, A)
    BY <1>1, <1>2, UpIsUpward
  <2>2. top \notin A
    OBVIOUS
  <2> HIDE DEF A, u, v
  <2>3. A \subseteq DOMAIN u
    BY <1>2, <2>1, <2>2
  <2>4. \A n \in A : v[n] \in A \cup {NoNode}
    BY <2>1 DEF Upward
  <2>5. \A n \in A : u[n] \in A \cup {NoNode}
    BY <1>2, <1>3, <2>2, <2>3, <2>4
  <2>6. c \in A
    BY <1>4, <2>1, <2>3, <2>5 DEF Up, Upward
  <2> QED BY <1>2, <1>3, <2>2, <2>4, <2>6
<1>5. ASSUME NEW c \in Up(v, x), c # top PROVE c \in Up(u, x)
  <2> DEFINE A == Up(u, x) D == A \cup {top}
  <2>1. A \subseteq DOMAIN u /\ x \in A /\ \A n \in A : u[n] \in A \cup {NoNode}
    BY <1>1, UpIsUpward DEF Upward
  <2> HIDE DEF A, u, v
  <2>2. D \subseteq DOMAIN v /\ x \in D /\ \A n \in D : v[n] \in D \cup {NoNode}
    BY <1>2, <2>1
  <2> HIDE DEF D
  <2>3. c \in D
    BY <1>5, <2>2 DEF Up, Upward
  <2> QED BY <1>5, <2>3 DEF A, D
<1>6. ASSUME top \notin Up(v, x) PROVE Up(u, x) \subseteq Up(v, x)
  <2> DEFINE A == Up(v, x)
  <2>1. A \subseteq DOMAIN v /\ x \in A /\ Upward(v, A)
    BY <1>1, <1>2, UpIsUpward
  <2>2. top \notin A
    BY <1>6
  <2> HIDE DEF A, u, v
  <2>3. A \subseteq DOMAIN u
    BY <1>2, <2>1, <2>2
  <2>4. \A n \in A : v[n] \in A \cup {NoNode}
    BY <2>1 DEF Upward
  <2>5. \A n \in A : u[n] \in A \cup {NoNode}
    BY <1>2, <1>3, <2>2, <2>3, <2>4
  <2> QED BY <2>1, <2>3, <2>5 DEF Up, Upward, A
<1> QED BY <1>4, <1>5, <1>6

\* The panes below the top that was taken out.
LEMMA TakenBelow ==
  ASSUME NEW l, Grove(l, {l.root}, {}), NEW m, NEW tops, NEW thin, Grove(m, tops, thin),
         NEW S, NEW top, Taken(l, S, top, m)
  PROVE  PanesBelow(m, top) = PanesUnder(l, S)
<1> DEFINE u == l.up v == m.up
<1>1. Links(u) /\ Links(v)
  BY GroveLinks
<1>2. /\ DOMAIN v = DOMAIN u \cup {top} /\ v[top] = NoNode
      /\ \A n \in DOMAIN u : n # top => v[n] = u[n] \/ (n \in S /\ v[n] = top)
      /\ \A n \in S : n \in DOMAIN u /\ (n = top \/ v[n] = top)
      /\ \A n \in DOMAIN u : v[n] = top => n \in S \/ (top \in S /\ u[n] = top)
      /\ top \in Pane => top \in S
  BY DEF Taken
<1>3. top \in DOMAIN v /\ top # NoNode
  BY <1>1, <1>2 DEF Links
<1>4. ASSUME NEW x \in DOMAIN u, NEW c \in S, c \in Up(u, x) PROVE top \in Up(v, x)
  BY <1>4, TakenAbove
<1>5. ASSUME NEW x \in DOMAIN u, NEW c \in Up(v, x), c # top PROVE c \in Up(u, x)
  BY <1>5, TakenAbove
<1>6. ASSUME NEW x \in DOMAIN u, x \in Pane, top \in Up(v, x) PROVE \E s \in S : s \in Up(u, x)
  <2>1. CASE x = top
    BY <1>1, <1>2, <1>6, <2>1, UpIsUpward
  <2>2. CASE x # top
    <3>1. PICK c \in Up(v, x) : v[c] = top
      BY <1>1, <1>2, <1>6, <2>2, UpChild
    <3>2. c # top /\ c \in DOMAIN v
      BY <1>1, <1>2, <1>3, <3>1, UpIsUpward
    <3>3. c \in Up(u, x) /\ c \in DOMAIN u
      BY <1>2, <1>5, <3>2
    <3>4. CASE c \in S
      BY <3>3, <3>4
    <3>5. CASE top \in S /\ u[c] = top
      <4>1. top \in Up(u, x)
        BY <1>1, <1>3, <3>3, <3>5, UpIsUpward DEF Upward
      <4> QED BY <3>5, <4>1
    <3> QED BY <1>2, <3>1, <3>3, <3>4, <3>5
  <2> QED BY <2>1, <2>2
<1>7. ASSUME NEW x \in Pane, x \in DOMAIN v PROVE x \in DOMAIN u
  BY <1>2, <1>7
<1> HIDE DEF u, v
<1>8. \A x : x \in DOMAIN v \cap Pane /\ top \in Up(v, x)
               <=> x \in DOMAIN u \cap Pane /\ \E s \in S : s \in Up(u, x)
  BY <1>2, <1>4, <1>6, <1>7
<1>9. \A x : x \in PanesBelow(m, top) <=> x \in DOMAIN v \cap Pane /\ top \in Up(v, x)
  BY Zenon DEF PanesBelow, v
<1>10. \A x : x \in PanesUnder(l, S) <=> x \in DOMAIN u \cap Pane /\ \E s \in S : s \in Up(u, x)
  BY Zenon DEF PanesUnder, u
<1> QED BY <1>8, <1>9, <1>10

\* Taking nodes out keeps the order of the panes below them, and that of the others.
LEMMA TakenKeeps ==
  ASSUME NEW l, Grove(l, {l.root}, {}), NEW m, NEW top, NEW thin, Grove(m, {m.root, top}, thin),
         NEW S, Taken(l, S, top, m)
  PROVE  /\ DOMAIN m.up \cap Pane = DOMAIN l.up \cap Pane
         /\ PanesBelow(m, top) = PanesUnder(l, S)
         /\ \A T : T \subseteq PanesUnder(l, S) => Keeps(l, m, T)
         /\ \A T : T \subseteq (DOMAIN l.up \cap Pane) \ PanesUnder(l, S) => Keeps(l, m, T)
<1> DEFINE u == l.up v == m.up
<1>1. Links(u) /\ Links(v)
  BY GroveLinks
<1>2. /\ DOMAIN v = DOMAIN u \cup {top} /\ v[top] = NoNode
      /\ \A n \in DOMAIN u : n # top => v[n] = u[n] \/ (n \in S /\ v[n] = top)
      /\ \A n \in S : n \in DOMAIN u
      /\ top \in Pane => top \in S
      /\ \A s \in DOMAIN m.kids : \A c, d :
           Ahead(NodeOf, m.kids[s], c, d) => \E q \in DOMAIN l.kids : Ahead(NodeOf, l.kids[q], c, d)
  BY DEF Taken
<1>3. DOMAIN v \cap Pane = DOMAIN u \cap Pane
  BY <1>2
<1>4. PanesBelow(m, top) = PanesUnder(l, S)
  BY TakenBelow
<1>5. ASSUME NEW T, T \subseteq DOMAIN u PROVE Keeps(m, l, T)
  <2> DEFINE B == DOMAIN v
  <2>1. Upward(v, B)
    BY <1>1 DEF Upward, Links
  <2>2. \A n \in B : n \in DOMAIN u /\ v[n] # NoNode /\ v[v[n]] # NoNode => v[n] \in Up(u, n)
    BY <1>1, <1>2, UpOne
  <2>3. \A s \in DOMAIN m.kids : \A c, d \in B : Ahead(NodeOf, m.kids[s], c, d) => Left(l, c, d)
    BY <1>2, LeftKids
  <2>4. T \subseteq B \cap DOMAIN u
    BY <1>2, <1>5
  <2> HIDE DEF B
  <2> QED BY <2>1, <2>2, <2>3, <2>4, Edited
<1>6. top \in DOMAIN v /\ m.root \in DOMAIN v
  BY <1>2, GroveParts
<1>7. \A x \in DOMAIN v : m.root \in Up(v, x) \/ top \in Up(v, x)
  <2>1. \A n \in DOMAIN v : v[n] = NoNode => n \in {m.root, top}
    BY GroveParts
  <2> TAKE x \in DOMAIN v
  <2>2. PICK n \in Up(v, x) : v[n] = NoNode
    BY <1>1, TopAbove
  <2>3. n \in DOMAIN v
    BY <1>1, UpIsUpward
  <2> QED BY <2>1, <2>2, <2>3
<1>8. ASSUME NEW T, T \subseteq PanesUnder(l, S) PROVE Keeps(l, m, T)
  <2>1. T \subseteq PanesBelow(m, top) \cap DOMAIN l.up
    BY <1>4, <1>8, Zenon DEF PanesUnder
  <2>2. Keeps(m, l, T)
    BY <1>5, <2>1
  <2> QED BY <1>6, <2>1, <2>2, KeepsBack
<1>9. ASSUME NEW T, T \subseteq (DOMAIN l.up \cap Pane) \ PanesUnder(l, S) PROVE Keeps(l, m, T)
  <2>1. \A x \in T : x \in DOMAIN v \cap Pane /\ x \in DOMAIN l.up /\ x \notin PanesBelow(m, top)
    BY <1>3, <1>4, <1>9
  <2>2. \A x \in T : x \in PanesBelow(m, m.root)
    BY <1>7, <2>1 DEF PanesBelow
  <2>3. T \subseteq PanesBelow(m, m.root) \cap DOMAIN l.up
    BY <2>1, <2>2
  <2>4. Keeps(m, l, T)
    BY <1>5, <2>3
  <2> QED BY <1>6, <2>3, <2>4, KeepsBack
<1> QED BY <1>3, <1>4, <1>8, <1>9

-----------------------------------------------------------------------------
(* Putting the source beside the target *)

\* Of what is above a node in u, the part up to a member of C is above it in v too, if v
\* has the same links there.
LEMMA UpReaches ==
  ASSUME NEW u, NEW v, Links(u), Links(v), NEW x \in DOMAIN u, x \in DOMAIN v, NEW C,
         NEW c \in Up(u, x), c \in C,
         \A q \in Up(u, x) : q \in DOMAIN v /\ q \notin C => v[q] = u[q]
  PROVE  \E d \in C : d \in Up(v, x) /\ d \in Up(u, x)
<1> SUFFICES ASSUME \A d \in Up(v, x) : d \notin C \/ d \notin Up(u, x) PROVE FALSE
  OBVIOUS
<1> DEFINE A == Up(v, x) B == Up(u, x) E == A \cap B
<1>1. /\ A \subseteq DOMAIN v /\ x \in A /\ \A n \in A : v[n] \in A \cup {NoNode}
      /\ B \subseteq DOMAIN u /\ x \in B /\ \A n \in B : u[n] \in B \cup {NoNode}
  BY UpIsUpward DEF Upward
<1>2. \A q \in E : v[q] = u[q]
  BY <1>1
<1> HIDE DEF A, B
<1>3. E \subseteq DOMAIN u /\ x \in E /\ \A n \in E : u[n] \in E \cup {NoNode}
  BY <1>1, <1>2
<1> HIDE DEF E
<1>4. c \in E
  BY <1>3 DEF Up, Upward
<1> QED BY <1>4 DEF E, A

\* What is left of the nodes below one of some neighbours is left of those below another.
LEMMA Together ==
  ASSUME NEW m, NEW tops, NEW thin, Grove(m, tops, thin), NEW s \in DOMAIN m.kids,
         NEW N, N \subseteq Children(m.up, s),
         \A e \in Children(m.up, s) \ N : \A c, d \in N :
           Ahead(NodeOf, m.kids[s], e, c) => Ahead(NodeOf, m.kids[s], e, d),
         NEW x \in DOMAIN m.up, NEW y \in DOMAIN m.up, NEW z \in DOMAIN m.up,
         NEW c \in N, c \in Up(m.up, x), NEW d \in N, d \in Up(m.up, y),
         \A e \in N : e \notin Up(m.up, z), Left(m, z, x)
  PROVE  Left(m, z, y)
<1> DEFINE u == m.up
<1>1. Links(u)
  BY GroveLinks
<1>2. PICK a \in Up(u, z), b \in Up(u, x) :
        /\ a \in DOMAIN u /\ b \in DOMAIN u /\ a # b
        /\ u[a] \in DOMAIN m.kids /\ u[b] = u[a] /\ u[a] # NoNode
        /\ Ahead(NodeOf, m.kids[u[a]], a, b)
  BY LeftParts
<1>3. /\ c \in DOMAIN u /\ u[c] = s /\ d \in DOMAIN u /\ u[d] = s /\ s # NoNode
      /\ x \in DOMAIN u /\ y \in DOMAIN u /\ z \in DOMAIN u
  BY GroveParts DEF Children
<1> HIDE DEF u
<1>4. u[a] \in Up(u, z)
  BY <1>1, <1>2, <1>3, UpIsUpward DEF Upward
<1>5. Up(u, u[a]) \subseteq Up(u, z)
  BY <1>1, <1>3, <1>4, UpTransitive
<1>6. CASE b = c
  <2>1. a \in Children(u, s) \ N
    BY <1>2, <1>3, <1>6 DEF Children, u
  <2>2. Ahead(NodeOf, m.kids[s], a, d)
    BY <1>2, <1>3, <1>6, <2>1 DEF u
  <2> QED BY <1>2, <2>2, LeftFrom DEF u
<1>7. CASE b # c /\ c \in Up(u, b)
  <2>1. c \in Up(u, u[b])
    BY <1>1, <1>2, <1>7, UpStep
  <2>2. c \in Up(u, z)
    BY <1>2, <1>5, <2>1
  <2> QED BY <2>2 DEF u
<1>8. CASE b # c /\ b \in Up(u, c)
  <2>1. b \in Up(u, s)
    BY <1>1, <1>3, <1>8, UpStep
  <2>2. b \in Up(u, d)
    BY <1>1, <1>3, <2>1, UpStep
  <2>3. b \in Up(u, y)
    BY <1>1, <1>3, <2>2, UpTransitive DEF u
  <2> QED BY <1>2, <2>3, LeftFrom DEF u
<1> QED BY <1>1, <1>2, <1>6, <1>7, <1>8, UpChain DEF u

\* The children N of s and its child t stand next to each other, t after N or before.
Lined(m, s, N, t, first) ==
  /\ s \in DOMAIN m.kids /\ N \cup {t} \subseteq Children(m.up, s)
  /\ \A c \in N : IF first THEN Ahead(NodeOf, m.kids[s], c, t) ELSE Ahead(NodeOf, m.kids[s], t, c)
  /\ \A e \in Children(m.up, s) \ (N \cup {t}) : \A c, d \in N \cup {t} :
       Ahead(NodeOf, m.kids[s], e, c) => Ahead(NodeOf, m.kids[s], e, d)

\* The panes X stand next to the panes Y, with none of Z in between.
Landed(m, X, Y, Z, first) ==
  \A x \in X, y \in Y :
    /\ IF first THEN Left(m, x, y) ELSE Left(m, y, x)
    /\ \A z \in Z : Left(m, z, x) <=> Left(m, z, y)

\* Which part of a tree below which of these children: those below N, below t, below neither.
Sorted(u, X, Y, Z, N, t) ==
  /\ X \cup Y \cup Z \subseteq DOMAIN u
  /\ \A x \in X : \E c \in N : c \in Up(u, x)
  /\ \A y \in Y : t \in Up(u, y)
  /\ \A z \in Z : \A c \in N \cup {t} : c \notin Up(u, z)

\* Nodes of one split that stand next to each other have their panes next to each other.
LEMMA LinedLands ==
  ASSUME NEW m, NEW tops, NEW thin, Grove(m, tops, thin), NEW s, NEW N, NEW t, NEW first \in BOOLEAN,
         Lined(m, s, N, t, first), NEW X, NEW Y, NEW Z, Sorted(m.up, X, Y, Z, N, t)
  PROVE  Landed(m, X, Y, Z, first)
<1> DEFINE M == N \cup {t}
<1> SUFFICES ASSUME NEW x \in X, NEW y \in Y
             PROVE  /\ IF first THEN Left(m, x, y) ELSE Left(m, y, x)
                    /\ \A z \in Z : Left(m, z, x) <=> Left(m, z, y)
  BY Zenon DEF Landed
<1>1. /\ s \in DOMAIN m.kids /\ M \subseteq Children(m.up, s)
      /\ \A c \in N : IF first THEN Ahead(NodeOf, m.kids[s], c, t) ELSE Ahead(NodeOf, m.kids[s], t, c)
      /\ \A e \in Children(m.up, s) \ M : \A c, d \in M :
           Ahead(NodeOf, m.kids[s], e, c) => Ahead(NodeOf, m.kids[s], e, d)
  BY Zenon DEF Lined
<1>2. PICK c \in N : c \in Up(m.up, x)
  BY DEF Sorted
<1>3. t \in Up(m.up, y)
  BY DEF Sorted
<1>4. /\ x \in DOMAIN m.up /\ y \in DOMAIN m.up
      /\ \A z \in Z : z \in DOMAIN m.up /\ \A e \in M : e \notin Up(m.up, z)
  BY DEF Sorted
<1>5. c \in M /\ t \in M
  OBVIOUS
<1> HIDE DEF M
<1>6. CASE first
  <2>1. Left(m, x, y)
    BY <1>1, <1>2, <1>3, <1>6, LeftFrom
  <2>2. ASSUME NEW z \in Z PROVE Left(m, z, x) <=> Left(m, z, y)
    BY <1>1, <1>2, <1>3, <1>4, <1>5, Together
  <2> QED BY <1>6, <2>1, <2>2
<1>7. CASE ~first
  <2>1. Left(m, y, x)
    BY <1>1, <1>2, <1>3, <1>7, LeftFrom
  <2>2. ASSUME NEW z \in Z PROVE Left(m, z, x) <=> Left(m, z, y)
    BY <1>1, <1>2, <1>3, <1>4, <1>5, Together
  <2> QED BY <1>7, <2>1, <2>2
<1> QED BY <1>6, <1>7

\* Landed panes stay so when their order is kept.
LEMMA LandedKept ==
  ASSUME NEW l, NEW m, NEW X, NEW Y, NEW Z, NEW first, Landed(l, X, Y, Z, first),
         Keeps(l, m, X \cup Y \cup Z), Keeps(m, l, X \cup Y \cup Z)
  PROVE  Landed(m, X, Y, Z, first)
<1>1. \A x, y \in X \cup Y \cup Z : Left(l, x, y) <=> Left(m, x, y)
  BY DEF Keeps
<1> QED BY <1>1 DEF Landed

\* The links v after u[n] gave n, or the children of n, to t's new neighbourhood N.
Hung(u, n, N, t, v) ==
  /\ \/ N = {n}
     \/ N = Children(u, n) /\ n \notin Pane /\ n \notin DOMAIN v
  /\ \A q \in DOMAIN u \cap DOMAIN v : q \notin N \cup {t} => v[q] = u[q]

\* Where panes are after that.
LEMMA HungSorts ==
  ASSUME NEW u, NEW v, Links(u), Links(v), NEW n \in DOMAIN u, u[n] = NoNode, NEW t \in DOMAIN u,
         n \notin Up(u, t), NEW N, Hung(u, n, N, t, v), DOMAIN u \cap Pane \subseteq DOMAIN v,
         NEW X, NEW Y, NEW Z, X \cup Y \cup Z \subseteq DOMAIN u \cap Pane,
         \A x \in X : n \in Up(u, x), \A y \in Y : t \in Up(u, y),
         \A z \in Z : n \notin Up(u, z) /\ t \notin Up(u, z)
  PROVE  Sorted(v, X, Y, Z, N, t)
<1>1. NoNode \notin DOMAIN u /\ n # NoNode /\ Up(u, n) = {n}
  BY UpStep DEF Links
<1>2. \/ N = {n}
      \/ N = Children(u, n) /\ n \notin Pane /\ n \notin DOMAIN v
  BY DEF Hung
<1>3. \A q \in DOMAIN u \cap DOMAIN v : q \notin N \cup {t} => v[q] = u[q]
  BY DEF Hung
<1>4. ASSUME NEW x \in DOMAIN u PROVE ~(n \in Up(u, x) /\ t \in Up(u, x))
  <2> SUFFICES ASSUME n \in Up(u, x), t \in Up(u, x) PROVE FALSE
    OBVIOUS
  <2>1. n \in Up(u, t) \/ t \in Up(u, n)
    BY UpChain
  <2>2. t = n
    BY <1>1, <2>1
  <2> QED BY <1>1, <2>2
<1>5. ASSUME NEW x \in DOMAIN u
      PROVE  Up(u, x) \subseteq DOMAIN u /\ \A q \in Up(u, x) : u[q] # NoNode => u[q] \in Up(u, x)
  BY UpIsUpward DEF Upward
<1>6. ASSUME NEW x \in DOMAIN u, NEW d \in N, d \in Up(u, x) PROVE n \in Up(u, x)
  BY <1>1, <1>2, <1>5, <1>6 DEF Children
<1>7. ASSUME NEW x \in X PROVE x \in DOMAIN v /\ \E c \in N : c \in Up(v, x)
  <2>1. x \in DOMAIN u /\ x \in DOMAIN v /\ x \in Pane /\ n \in Up(u, x)
    OBVIOUS
  <2>2. PICK c \in Up(u, x) : c \in N
    <3>1. CASE N = {n}
      BY <2>1, <3>1
    <3>2. CASE N = Children(u, n) /\ n \notin Pane
      <4>1. n # x
        BY <2>1, <3>2
      <4>2. PICK c \in Up(u, x) : u[c] = n
        BY <2>1, <4>1, UpChild
      <4> QED BY <1>5, <2>1, <3>2, <4>2 DEF Children
    <3> QED BY <1>2, <3>1, <3>2
  <2>3. \A q \in Up(u, x) : q \in DOMAIN v /\ q \notin N => v[q] = u[q]
    BY <1>3, <1>4, <1>5, <2>1
  <2>4. \E d \in N : d \in Up(v, x) /\ d \in Up(u, x)
    BY <2>1, <2>2, <2>3, UpReaches
  <2> QED BY <2>1, <2>4
<1>8. ASSUME NEW y \in Y PROVE y \in DOMAIN v /\ t \in Up(v, y)
  <2>1. y \in DOMAIN u /\ y \in DOMAIN v /\ t \in Up(u, y)
    OBVIOUS
  <2>a. PICK C : C = {t}
    OBVIOUS
  <2>2. \A q \in Up(u, y) : q \in DOMAIN v /\ q \notin C => v[q] = u[q]
    BY <1>3, <1>4, <1>5, <1>6, <2>1, <2>a
  <2>3. t \in C
    BY <2>a
  <2>4. \E d \in C : d \in Up(v, y) /\ d \in Up(u, y)
    BY <2>1, <2>2, <2>3, UpReaches
  <2> QED BY <2>1, <2>4, <2>a
<1>9. ASSUME NEW z \in Z PROVE z \in DOMAIN v /\ \A c \in N \cup {t} : c \notin Up(v, z)
  <2>1. z \in DOMAIN u /\ z \in DOMAIN v /\ n \notin Up(u, z) /\ t \notin Up(u, z)
    OBVIOUS
  <2> SUFFICES ASSUME NEW c \in N \cup {t}, c \in Up(v, z) PROVE FALSE
    BY <2>1
  <2> DEFINE C == N \cup {t}
  <2>2. Up(v, z) \subseteq DOMAIN v
    BY <2>1, UpIsUpward
  <2>3. \A q \in Up(v, z) : q \in DOMAIN u /\ q \notin C => u[q] = v[q]
    BY <1>3, <2>2
  <2>4. c \in C
    OBVIOUS
  <2> HIDE DEF C
  <2>5. \E d \in C : d \in Up(u, z) /\ d \in Up(v, z)
    BY <2>1, <2>3, <2>4, UpReaches
  <2> QED BY <1>6, <2>1, <2>5 DEF C
<1> QED BY <1>7, <1>8, <1>9, Zenon DEF Sorted

\* What a stretch of new children in the place of one of a list is to the others.
LEMMA ReplacedLined ==
  ASSUME NEW K \in Seq(KidRec), Distinct(K), NEW i \in 1 .. Len(K), NEW t, t = K[i].node,
         NEW new \in Seq(KidRec), Distinct(new), NodesOf(new) \cap NodesOf(K) \subseteq {t},
         NEW R, R = Replace(K, i, 1, new)
  PROVE  /\ R \in Seq(KidRec) /\ Distinct(R) /\ NodesOf(R) = (NodesOf(K) \ {t}) \cup NodesOf(new)
         /\ \A c, d : Ahead(NodeOf, new, c, d) => Ahead(NodeOf, R, c, d)
         /\ \A e \in NodesOf(R) \ NodesOf(new) : \A c, d \in NodesOf(new) :
              Ahead(NodeOf, R, e, c) => Ahead(NodeOf, R, e, d)
<1>1. R \in Seq(KidRec) /\ Distinct(R) /\ NodesOf(R) = (NodesOf(K) \ {t}) \cup NodesOf(new)
  BY KidReplaced
<1>2. \A c, d : Ahead(NodeOf, R, c, d)
           <=> \/ Ahead(NodeOf, K, c, d) /\ c # t /\ d # t
               \/ Ahead(NodeOf, new, c, d)
               \/ Ahead(NodeOf, K, t, d) /\ c \in NodesOf(new)
               \/ Ahead(NodeOf, K, c, t) /\ d \in NodesOf(new)
  BY AheadReplaced
<1>3. \A c, d : /\ Ahead(NodeOf, K, c, d) => d \in NodesOf(K)
                /\ Ahead(NodeOf, new, c, d) => c \in NodesOf(new)
  BY KidsAhead
<1> QED BY <1>1, <1>2, <1>3

\* What Movable says of the links.
LEMMA MovableParts ==
  ASSUME NEW l, NEW n, NEW t, NEW left, Movable(l, n, t, left)
  PROVE  /\ Grove(l, {l.root, n}, {left}) /\ n # l.root /\ n \in DOMAIN l.up /\ l.up[n] = NoNode
         /\ left \in DOMAIN l.kids /\ left # n /\ t \in DOMAIN l.up /\ t # n
         /\ n \notin Up(l.up, t) /\ (l.up[t] # NoNode => l.up[t] # n)
         /\ (l.up[t] = NoNode => l.root = t) /\ (l.root = t => l.up[t] = NoNode)
<1>1. /\ Grove(l, {l.root, n}, {left}) /\ n # l.root /\ n \in DOMAIN l.up /\ l.up[n] = NoNode
      /\ left \in DOMAIN l.kids /\ left # n /\ t \in DOMAIN l.up
  BY DEF Movable
<1>2. PICK A : Upward(l.up, A) /\ t \in A /\ n \notin A
  BY DEF Movable
<1>3. n \notin Up(l.up, t)
  BY <1>1, <1>2 DEF Up, Upward
<1>4. t # n /\ (l.up[t] # NoNode => l.up[t] # n)
  BY <1>2 DEF Upward
<1>5. l.up[t] = NoNode => t \in {l.root, n}
  BY <1>1, GroveParts
<1>6. l.up[l.root] = NoNode
  BY <1>1, GroveParts
<1> QED BY <1>1, <1>3, <1>4, <1>5, <1>6

\* K lists t and the nodes of W, all of W on the side of t that the insertion says.
Facing(K, W, t, insertion) ==
  /\ K \in Seq(KidRec) /\ Distinct(K) /\ NodesOf(K) = {t} \cup W
  /\ \A c \in W : IF insertion = "BEFORE" THEN Ahead(NodeOf, K, c, t) ELSE Ahead(NodeOf, K, t, c)

\* The source and the target side by side, in order.
LEMMA PlacedOrder ==
  ASSUME NEW l, NEW n, NEW t, NEW left, Movable(l, n, t, left), NEW axis, NEW x \in Nat,
         NEW y \in Nat, NEW insertion, NEW K,
         K = IF insertion = "BEFORE" THEN Join(SourceKids(l, n, axis, x), <<Kid(t, y)>>)
             ELSE Join(<<Kid(t, y)>>, SourceKids(l, n, axis, x)),
         NEW X, X = IF SourceDissolves(l, n, axis) THEN {n} ELSE {}
  PROVE  Facing(K, SourceNodes(l, n, axis), t, insertion) /\ Arrivals(l, X, t, K)
<1> DEFINE first == insertion = "BEFORE"
           W == SourceNodes(l, n, axis) A == SourceKids(l, n, axis, x) T == <<Kid(t, y)>>
<1>1. /\ Grove(l, {l.root, n}, {left}) /\ n \in DOMAIN l.up /\ l.up[n] = NoNode
      /\ t \in DOMAIN l.up /\ t # n
  BY MovableParts
<1>2. K \in Seq(KidRec) /\ Distinct(K) /\ NodesOf(K) = {t} \cup W
  <2>1. K \in {Join(SourceKids(l, n, axis, x), <<Kid(t, y)>>),
               Join(<<Kid(t, y)>>, SourceKids(l, n, axis, x))}
    <3> HIDE DEF A, T
    <3>1. K \in {Join(A, T), Join(T, A)}
      BY Zenon DEF A, T
    <3> QED BY <3>1, Zenon DEF A, T
  <2> QED BY <2>1, PlacedKids
<1>3. /\ A \in Seq(KidRec) /\ NodesOf(A) = W
      /\ (SourceDissolves(l, n, axis) => n \in DOMAIN l.kids)
  BY <1>1, SourceKidsAre
<1>4. DOMAIN l.up \subseteq Pane \cup Split /\ NoNode \notin DOMAIN l.up
      /\ DOMAIN l.kids = DOMAIN l.up \cap Split
  BY <1>1, GroveParts
<1>5. T \in Seq(KidRec) /\ NodesOf(T) = {t}
  BY <1>1, <1>4, KidsOne
<1> HIDE DEF A, T
<1>6. K = IF first THEN Join(A, T) ELSE Join(T, A)
  BY Zenon DEF A, T
<1>7. \A c \in W : IF first THEN Ahead(NodeOf, K, c, t) ELSE Ahead(NodeOf, K, t, c)
  <2>1. CASE first
    BY <1>3, <1>5, <1>6, <2>1, AheadKids
  <2>2. CASE ~first
    BY <1>3, <1>5, <1>6, <2>2, AheadKids
  <2> QED BY <2>1, <2>2
<1>8. \A c, d : Ahead(NodeOf, A, c, d) => Ahead(NodeOf, K, c, d)
  <2>1. CASE first
    BY <1>3, <1>5, <1>6, <2>1, AheadKids
  <2>2. CASE ~first
    BY <1>3, <1>5, <1>6, <2>2, AheadKids
  <2> QED BY <2>1, <2>2
<1>9. SourceDissolves(l, n, axis)
        => \A c, d : Ahead(NodeOf, l.kids[n], c, d) => Ahead(NodeOf, A, c, d)
  <2> SUFFICES ASSUME SourceDissolves(l, n, axis), NEW c, NEW d, Ahead(NodeOf, l.kids[n], c, d)
               PROVE  Ahead(NodeOf, A, c, d)
    OBVIOUS
  <2>1. A = ScaledTo(l.kids[n], x)
    BY Zenon DEF A, SourceKids
  <2>2. l.kids[n] \in Seq(KidRec) /\ Distinct(l.kids[n]) /\ NodesOf(l.kids[n]) # {}
    BY <1>1, <1>3, GroveKids
  <2>3. Len(l.kids[n]) # 0
    BY <2>2, KidsNone
  <2>4. KidNodes(ScaledTo(l.kids[n], x)) = KidNodes(l.kids[n])
    BY <2>2, <2>3, KidsScaled
  <2> QED BY <1>3, <2>1, <2>2, <2>4, AheadSame
<1>10. Arrivals(l, X, t, K)
  <2>1. X \subseteq {q \in DOMAIN l.up : l.up[q] = NoNode}
    BY <1>1
  <2>2. \A q \in NodesOf(K) \cap DOMAIN l.up : q = t \/ l.up[q] = NoNode \/ l.up[l.up[q]] = NoNode
    BY <1>1, <1>2 DEF SourceNodes, Children
  <2>3. \A q \in X \cap DOMAIN l.kids : \A c, d : Ahead(NodeOf, l.kids[q], c, d)
                                                     => Ahead(NodeOf, K, c, d)
    BY <1>8, <1>9
  <2>4. t \in NodesOf(K)
    BY <1>2
  <2> HIDE DEF W
  <2> QED BY <2>1, <2>2, <2>3, <2>4, Zenon DEF Arrivals
<1> QED BY <1>2, <1>7, <1>10 DEF Facing

\* The layout without a source that dissolves.
LEMMA WithoutSourceIs ==
  ASSUME NEW l, NEW tops, NEW thin, Grove(l, tops, thin), NEW n, NEW axis,
         NEW X, X = IF SourceDissolves(l, n, axis) THEN {n} ELSE {},
         NEW l1, l1 = WithoutSource(l, n, axis)
  PROVE  Erased(l, X, l1) /\ l1 = Lay(l1.root, l1.axis, l1.kids, l1.up)
<1>1. l = Lay(l.root, l.axis, l.kids, l.up)
  BY GroveParts
<1>2. CASE SourceDissolves(l, n, axis)
  <2>1. l1 = Erase(l, X) 
    BY <1>2 DEF WithoutSource
  <2>2. Erased(l, X, Erase(l, X)) /\ LET m == Erase(l, X) IN m = Lay(m.root, m.axis, m.kids, m.up)
    BY <1>1, EraseAt
  <2> QED BY <2>1, <2>2
<1>3. CASE ~SourceDissolves(l, n, axis)
  <2>1. l1 = l
    BY <1>3 DEF WithoutSource
  <2>2. Erased(l, {}, l)
    BY NoneErased
  <2>3. X = {}
    BY <1>3
  <2>4. Erased(l, X, l)
    BY <2>2, <2>3
  <2> QED BY <1>1, <2>1, <2>4
<1> QED BY <1>2, <1>3

\* The source n arrives beside the target t: what was in order stays so, and what hung
\* below them comes to stand side by side.
Arrived(l, n, t, first, m) ==
  /\ \A T : T \subseteq DOMAIN l.up \cap Pane => Keeps(l, m, T)
  /\ \A X, Y, Z :
       /\ X \cup Y \cup Z \subseteq DOMAIN l.up \cap Pane
       /\ \A x \in X : n \in Up(l.up, x)
       /\ \A y \in Y : t \in Up(l.up, y)
       /\ \A z \in Z : n \notin Up(l.up, z) /\ t \notin Up(l.up, z)
       => Landed(m, X, Y, Z, first)

\* The source has arrived once it stands next to the target in one split.
LEMMA ArrivedWhenLined ==
  ASSUME NEW l, NEW n, NEW t, NEW left, Movable(l, n, t, left), NEW first \in BOOLEAN,
         NEW m, NEW thin, Grove(m, {m.root}, thin), DOMAIN l.up \cap Pane \subseteq DOMAIN m.up,
         \A T : T \subseteq DOMAIN l.up \cap DOMAIN m.up => Keeps(l, m, T),
         NEW N, Hung(l.up, n, N, t, m.up), NEW s, Lined(m, s, N, t, first)
  PROVE  Arrived(l, n, t, first, m)
<1>1. /\ Grove(l, {l.root, n}, {left}) /\ n \in DOMAIN l.up /\ l.up[n] = NoNode
      /\ t \in DOMAIN l.up /\ n \notin Up(l.up, t)
  BY MovableParts
<1>2. Links(l.up) /\ Links(m.up)
  BY <1>1, GroveLinks
<1>3. \A T : T \subseteq DOMAIN l.up \cap Pane => Keeps(l, m, T)
  <2>1. \A T : T \subseteq DOMAIN l.up \cap Pane => T \subseteq DOMAIN l.up \cap DOMAIN m.up
    OBVIOUS
  <2> QED BY <2>1
<1>4. ASSUME NEW X, NEW Y, NEW Z, X \cup Y \cup Z \subseteq DOMAIN l.up \cap Pane,
             \A x \in X : n \in Up(l.up, x), \A y \in Y : t \in Up(l.up, y),
             \A z \in Z : n \notin Up(l.up, z) /\ t \notin Up(l.up, z)
      PROVE  Landed(m, X, Y, Z, first)
  <2>1. Sorted(m.up, X, Y, Z, N, t)
    BY <1>1, <1>2, <1>4, HungSorts
  <2> QED BY <2>1, LinedLands
<1> QED BY <1>3, <1>4, Zenon DEF Arrived

\* insert_into_matching_split
LEMMA InsertBesideLands ==
  ASSUME NEW l, NEW n, NEW t, NEW left, Movable(l, n, t, left), l.up[t] # NoNode, NEW axis,
         NEW insertion, NEW m, m = InsertBeside(l, n, t, axis, insertion)
  PROVE  Arrived(l, n, t, insertion = "BEFORE", m)
<1> DEFINE p == l.up[t]
           i == ChildIndex(l, p, t)
           whole == l.kids[p][i].share
           first == insertion = "BEFORE"
           e == IF first THEN EarlierHalf(whole) ELSE LaterHalf(whole)
           f == IF first THEN LaterHalf(whole) ELSE EarlierHalf(whole)
           new == IF insertion = "BEFORE"
                  THEN SourceKids(l, n, axis, EarlierHalf(whole)) \o <<Kid(t, LaterHalf(whole))>>
                  ELSE <<Kid(t, EarlierHalf(whole))>> \o SourceKids(l, n, axis, LaterHalf(whole))
           K == l.kids[p]
           R == Replace(K, i, 1, new)
           W == SourceNodes(l, n, axis)
           l1 == WithoutSource(l, n, axis)
           X == IF SourceDissolves(l, n, axis) THEN {n} ELSE {}
<1>1. /\ Grove(l, {l.root, n}, {left}) /\ n # l.root /\ n \in DOMAIN l.up /\ l.up[n] = NoNode
      /\ t \in DOMAIN l.up /\ t # n /\ p # n
  BY MovableParts
<1>2. m = Adopt(l1, p, R)
  BY Zenon DEF InsertBeside
<1>3. /\ p \in DOMAIN l.kids /\ t \in Children(l.up, p) /\ i \in 1 .. Len(K)
      /\ K[i].node = t /\ whole \in Nat
  BY <1>1, GroveIndex
<1>4. /\ DOMAIN l.up \subseteq Pane \cup Split /\ DOMAIN l.kids = DOMAIN l.up \cap Split
      /\ NoNode \notin DOMAIN l.up
      /\ \A q : IsLeaf(l, q) <=> q \notin DOMAIN l.kids
  BY <1>1, GroveParts
<1>5. K \in Seq(KidRec) /\ Distinct(K) /\ NodesOf(K) = Children(l.up, p)
  BY <1>1, <1>3, GroveKids
<1>6. Grove(m, {m.root}, {left}) /\ Nodes(m) \cap Pane = Nodes(l) \cap Pane
  BY InsertBesideGrove
<1>7. first \in BOOLEAN
  OBVIOUS
<1>8. /\ new \in Seq(KidRec) /\ Distinct(new) /\ NodesOf(new) = {t} \cup W
      /\ \A c \in W : IF first THEN Ahead(NodeOf, new, c, t) ELSE Ahead(NodeOf, new, t, c)
      /\ Arrivals(l, X, t, new)
  <2>1. e \in Nat /\ f \in Nat
    BY <1>3, Halves
  <2>2. new = IF insertion = "BEFORE" THEN Join(SourceKids(l, n, axis, e), <<Kid(t, f)>>)
              ELSE Join(<<Kid(t, f)>>, SourceKids(l, n, axis, e))
    <3>1. CASE first
      BY <3>1, Zenon DEF Join
    <3>2. CASE ~first
      BY <3>2, Zenon DEF Join
    <3> QED BY <3>1, <3>2
  <2> HIDE DEF new, e, f, X, W
  <2>3. X = IF SourceDissolves(l, n, axis) THEN {n} ELSE {}
    BY DEF X
  <2>4. Facing(new, SourceNodes(l, n, axis), t, insertion) /\ Arrivals(l, X, t, new)
    BY <1>7, <2>1, <2>2, <2>3, Zenon, PlacedOrder
  <2> QED BY <2>4 DEF W, first, Facing
<1>9. Erased(l, X, l1) /\ l1 = Lay(l1.root, l1.axis, l1.kids, l1.up)
  BY <1>1, WithoutSourceIs
<1>10. p \notin X /\ t \notin X /\ X \subseteq {n} /\ X \subseteq DOMAIN l.up
  BY <1>1
<1>11. \/ W = {n}
       \/ W = Children(l.up, n) /\ X = {n} /\ n \in DOMAIN l.kids
  BY <1>4 DEF SourceNodes, SourceDissolves
<1>12. NodesOf(new) \cap Children(l.up, p) \subseteq {t}
  BY <1>1, <1>4, <1>8, <1>11 DEF Children
<1> HIDE DEF l1, i, new, W, X, first
<1>13. \A T : T \subseteq DOMAIN l.up \cap DOMAIN m.up => Keeps(l, m, T)
  <2>1. t = K[i].node
    BY <1>3
  <2> HIDE DEF p
  <2> QED BY <1>1, <1>2, <1>3, <1>6, <1>8, <1>9, <1>10, <1>12, <2>1, BesideKeeps
<1> DEFINE r == Replace(K, i, 1, new)
<1>14. /\ r \in Seq(KidRec) /\ Distinct(r) /\ NodesOf(r) = (NodesOf(K) \ {t}) \cup NodesOf(new)
       /\ \A c, d : Ahead(NodeOf, new, c, d) => Ahead(NodeOf, r, c, d)
       /\ \A q \in NodesOf(r) \ NodesOf(new) : \A c, d \in NodesOf(new) :
            Ahead(NodeOf, r, q, c) => Ahead(NodeOf, r, q, d)
  <2>1. t = K[i].node /\ i \in 1 .. Len(K) /\ NodesOf(new) \cap NodesOf(K) \subseteq {t}
    BY <1>3, <1>5, <1>12
  <2> HIDE DEF K
  <2> QED BY <1>5, <1>8, <2>1, ReplacedLined
<1>15. m = Adopt(l1, p, r)
  BY <1>2
<1> HIDE DEF r, K
<1>16. /\ DOMAIN m.up = DOMAIN l1.up \cup NodesOf(r)
       /\ \A q \in DOMAIN m.up : m.up[q] = IF q \in NodesOf(r) THEN p ELSE l1.up[q]
       /\ p \in DOMAIN m.kids /\ m.kids[p] = r
  <2>1. r \in Seq(KidRec)
    BY <1>14
  <2> HIDE DEF p
  <2>2. /\ DOMAIN m.up = DOMAIN l1.up \cup NodesOf(r)
        /\ \A q \in DOMAIN m.up : m.up[q] = IF q \in NodesOf(r) THEN p ELSE l1.up[q]
        /\ DOMAIN m.kids = DOMAIN l1.kids \cup {p} /\ m.kids[p] = r
    BY <1>9, <1>15, <2>1, AdoptAt
  <2> QED BY <2>2
<1>17. DOMAIN l1.up = DOMAIN l.up \ X /\ \A q \in DOMAIN l1.up : l1.up[q] = l.up[q]
  BY <1>9 DEF Erased
<1>18. Lined(m, p, W, t, first)
  <2>1. NodesOf(r) = Children(m.up, p)
    BY <1>6, <1>16, GroveKids
  <2>2. W \cup {t} \subseteq Children(m.up, p)
    BY <1>8, <1>14, <2>1
  <2>3. \A c \in W : IF first THEN Ahead(NodeOf, m.kids[p], c, t) ELSE Ahead(NodeOf, m.kids[p], t, c)
    BY <1>8, <1>14, <1>16
  <2>4. \A q \in Children(m.up, p) \ (W \cup {t}) : \A c, d \in W \cup {t} :
          Ahead(NodeOf, m.kids[p], q, c) => Ahead(NodeOf, m.kids[p], q, d)
    BY <1>8, <1>14, <1>16, <2>1
  <2> HIDE DEF p
  <2> QED BY <1>16, <2>2, <2>3, <2>4, Zenon DEF Lined
<1>19. Hung(l.up, n, W, t, m.up)
  <2>1. W = Children(l.up, n) /\ X = {n} /\ n \in DOMAIN l.kids => n \notin Pane /\ n \notin DOMAIN m.up
    <3> SUFFICES ASSUME W = Children(l.up, n), X = {n}, n \in DOMAIN l.kids
                 PROVE  n \notin Pane /\ n \notin DOMAIN m.up
      OBVIOUS
    <3>1. n \notin Pane
      BY <1>4, SplitAssumption
    <3>2. n \notin NodesOf(r)
      BY <1>1, <1>4, <1>5, <1>8, <1>14 DEF Children
    <3> QED BY <1>16, <1>17, <3>1, <3>2
  <2>2. \A q \in DOMAIN l.up \cap DOMAIN m.up : q \notin W \cup {t} => m.up[q] = l.up[q]
    BY <1>5, <1>8, <1>14, <1>16, <1>17 DEF Children
  <2> QED BY <1>11, <2>1, <2>2, Zenon DEF Hung
<1>20. DOMAIN l.up \cap Pane \subseteq DOMAIN m.up
  BY <1>1, <1>6, GroveParts
<1> QED BY <1>6, <1>7, <1>13, <1>18, <1>19, <1>20, ArrivedWhenLined DEF first

\* wrap_target
LEMMA WrapTargetLands ==
  ASSUME NEW l, NEW n, NEW t, NEW left, Movable(l, n, t, left), SplitsNeverRunOut,
         NEW axis \in Axis, NEW insertion, NEW m, m = WrapTarget(l, n, t, axis, insertion)
  PROVE  Arrived(l, n, t, insertion = "BEFORE", m)
<1> DEFINE w == FreshSplit(l)
           half == Full \div 2
           first == insertion = "BEFORE"
           A == SourceKids(l, n, axis, half)
           T == <<Kid(t, half)>>
           K == IF insertion = "BEFORE" THEN SourceKids(l, n, axis, half) \o <<Kid(t, half)>>
                ELSE <<Kid(t, half)>> \o SourceKids(l, n, axis, half)
           W == SourceNodes(l, n, axis)
           l1 == WithoutSource(l, n, axis)
           l2 == TakePlace(l1, t, w)
           X == IF SourceDissolves(l, n, axis) THEN {n} ELSE {}
<1>1. /\ Grove(l, {l.root, n}, {left}) /\ n # l.root /\ n \in DOMAIN l.up /\ l.up[n] = NoNode
      /\ t \in DOMAIN l.up /\ t # n /\ (l.up[t] # NoNode => l.up[t] # n)
      /\ (l.up[t] = NoNode => l.root = t) /\ (l.root = t => l.up[t] = NoNode)
  BY MovableParts
<1>2. m = NewSplit(l2, w, axis, K)
  BY Zenon DEF WrapTarget
<1>3. half \in Nat
  BY FullAssumption
<1>4. /\ DOMAIN l.up \subseteq Pane \cup Split /\ DOMAIN l.kids = DOMAIN l.up \cap Split
      /\ NoNode \notin DOMAIN l.up /\ Nodes(l) = DOMAIN l.up
      /\ \A q : IsLeaf(l, q) <=> q \notin DOMAIN l.kids
  BY <1>1, GroveParts
<1>5. w \in Split /\ w \notin DOMAIN l.up
  BY <1>1, <1>4, FreshSplitIsNew
<1>6. Grove(m, {m.root}, {left}) /\ Nodes(m) \cap Pane = Nodes(l) \cap Pane
  BY WrapTargetGrove, ZenonT(60)
<1>7. first \in BOOLEAN
  OBVIOUS
<1>8. /\ K \in Seq(KidRec) /\ Distinct(K) /\ NodesOf(K) = {t} \cup W
      /\ \A c \in W : IF first THEN Ahead(NodeOf, K, c, t) ELSE Ahead(NodeOf, K, t, c)
      /\ Arrivals(l, X, t, K)
  <2>2. K = IF insertion = "BEFORE" THEN Join(SourceKids(l, n, axis, half), <<Kid(t, half)>>)
            ELSE Join(<<Kid(t, half)>>, SourceKids(l, n, axis, half))
    <3>1. CASE first
      BY <3>1, Zenon DEF Join
    <3>2. CASE ~first
      BY <3>2, Zenon DEF Join
    <3> QED BY <3>1, <3>2
  <2> HIDE DEF K, half, X, W
  <2>3. X = IF SourceDissolves(l, n, axis) THEN {n} ELSE {}
    BY DEF X
  <2>4. Facing(K, SourceNodes(l, n, axis), t, insertion) /\ Arrivals(l, X, t, K)
    BY <1>3, <1>7, <2>2, <2>3, Zenon, PlacedOrder
  <2> QED BY <2>4 DEF W, first, Facing
<1>9. Erased(l, X, l1) /\ l1 = Lay(l1.root, l1.axis, l1.kids, l1.up)
  BY <1>1, WithoutSourceIs
<1>10. t \notin X /\ X \subseteq {n} /\ (l.up[t] # NoNode => l.up[t] \notin X)
  BY <1>1
<1>11. \/ W = {n}
       \/ W = Children(l.up, n) /\ X = {n} /\ n \in DOMAIN l.kids
  BY <1>4 DEF SourceNodes, SourceDissolves
<1> HIDE DEF l1, K, W, X, first, w, half
<1>12. w \notin NodesOf(K)
  BY <1>1, <1>5, <1>8, <1>11 DEF Children
<1>13. \A Q : Q \subseteq DOMAIN l.up \cap DOMAIN m.up => Keeps(l, m, Q)
  <2>1. m = NewSplit(TakePlace(l1, t, w), w, axis, K)
    BY <1>2
  <2> HIDE DEF l2
  <2> QED BY <1>1, <1>5, <1>6, <1>8, <1>9, <1>10, <1>12, <2>1, OverKeeps
<1>14. /\ l1.root = l.root /\ DOMAIN l1.up = DOMAIN l.up \ X
       /\ \A q \in DOMAIN l1.up : l1.up[q] = l.up[q]
  BY <1>9 DEF Erased
<1>15. /\ t \in DOMAIN l1.up /\ l1.up[t] = l.up[t]
       /\ (l1.up[t] = NoNode => l1.root = t) /\ (l1.root = t => l1.up[t] = NoNode)
  BY <1>1, <1>10, <1>14
<1>16. /\ l2 = Lay(l2.root, l2.axis, l2.kids, l2.up)
       /\ DOMAIN l2.up = DOMAIN l1.up \cup {w}
       /\ \A q \in DOMAIN l2.up : l2.up[q] = IF q = w THEN l1.up[t] ELSE l1.up[q]
  BY <1>9, <1>15, TakePlaceAt
<1> HIDE DEF l2
<1>17. /\ DOMAIN m.up = DOMAIN l2.up \cup NodesOf(K)
       /\ \A q \in DOMAIN m.up : m.up[q] = IF q \in NodesOf(K) THEN w ELSE l2.up[q]
       /\ w \in DOMAIN m.kids /\ m.kids[w] = K
  <2>1. /\ DOMAIN m.up = DOMAIN l2.up \cup NodesOf(K)
        /\ \A q \in DOMAIN m.up : m.up[q] = IF q \in NodesOf(K) THEN w ELSE l2.up[q]
        /\ DOMAIN m.kids = DOMAIN l2.kids \cup {w} /\ m.kids[w] = K
    BY <1>2, <1>8, <1>16, NewSplitAt
  <2> QED BY <2>1
<1>18. Lined(m, w, W, t, first)
  <2>1. NodesOf(K) = Children(m.up, w)
    BY <1>6, <1>17, GroveKids
  <2>2. W \cup {t} = Children(m.up, w)
    BY <1>8, <2>1
  <2>3. \A c \in W : IF first THEN Ahead(NodeOf, m.kids[w], c, t) ELSE Ahead(NodeOf, m.kids[w], t, c)
    BY <1>8, <1>17
  <2>4. W \cup {t} \subseteq Children(m.up, w)
    BY <2>2
  <2>5. \A q \in Children(m.up, w) \ (W \cup {t}) : \A c, d \in W \cup {t} :
          Ahead(NodeOf, m.kids[w], q, c) => Ahead(NodeOf, m.kids[w], q, d)
    BY <2>2
  <2> QED BY <1>17, <2>3, <2>4, <2>5, Zenon DEF Lined
<1>19. Hung(l.up, n, W, t, m.up)
  <2>1. W = Children(l.up, n) /\ X = {n} /\ n \in DOMAIN l.kids => n \notin Pane /\ n \notin DOMAIN m.up
    <3> SUFFICES ASSUME W = Children(l.up, n), X = {n}, n \in DOMAIN l.kids
                 PROVE  n \notin Pane /\ n \notin DOMAIN m.up
      OBVIOUS
    <3>1. n \notin Pane
      BY <1>4, SplitAssumption
    <3>2. n \notin NodesOf(K)
      BY <1>1, <1>4, <1>8 DEF Children
    <3>3. n # w
      BY <1>1, <1>5
    <3> QED BY <1>14, <1>16, <1>17, <3>1, <3>2, <3>3
  <2>2. \A q \in DOMAIN l.up \cap DOMAIN m.up : q \notin W \cup {t} => m.up[q] = l.up[q]
    BY <1>5, <1>8, <1>14, <1>16, <1>17
  <2> QED BY <1>11, <2>1, <2>2, Zenon DEF Hung
<1>20. DOMAIN l.up \cap Pane \subseteq DOMAIN m.up
  BY <1>1, <1>6, GroveParts
<1> QED BY <1>6, <1>7, <1>13, <1>18, <1>19, <1>20, ArrivedWhenLined DEF first

\* InsertAtTarget
LEMMA InsertLands ==
  ASSUME NEW l, NEW n, NEW t, NEW left, Movable(l, n, t, left), SplitsNeverRunOut,
         NEW axis \in Axis, NEW insertion, NEW m, m = InsertAtTarget(l, n, t, axis, insertion)
  PROVE  Arrived(l, n, t, insertion = "BEFORE", m)
<1>1. CASE l.up[t] # NoNode /\ l.axis[l.up[t]] = axis
  <2>1. m = InsertBeside(l, n, t, axis, insertion)
    BY <1>1 DEF InsertAtTarget
  <2> QED BY <1>1, <2>1, InsertBesideLands
<1>2. CASE ~(l.up[t] # NoNode /\ l.axis[l.up[t]] = axis)
  <2>1. m = WrapTarget(l, n, t, axis, insertion)
    BY <1>2, Zenon DEF InsertAtTarget
  <2> QED BY <2>1, WrapTargetLands
<1> QED BY <1>1, <1>2

-----------------------------------------------------------------------------
(* Moving along one split *)

\* The nodes in a stretch of a list of children, empty stretches included.
LEMMA CutNodes ==
  ASSUME NEW K \in Seq(KidRec), NEW i \in 1 .. Len(K) + 1, NEW j \in (i - 1) .. Len(K)
  PROVE  Cut(K, i, j) \in Seq(KidRec) /\ NodesOf(Cut(K, i, j)) = {K[q].node : q \in i .. j}
<1> DEFINE C == Cut(K, i, j)
<1>1. C \in Seq(KidRec) /\ Len(C) = (j - i) + 1
  BY KidsCut
<1> HIDE DEF C
<1>2. Len(K) \in Nat /\ i \in Int /\ j \in Int
  OBVIOUS
<1>3. CASE j = i - 1
  <2>1. NodesOf(C) = {}
    <3>1. (j - i) + 1 = 0
      BY <1>2, <1>3
    <3>2. Len(C) = 0
      BY <1>1, <3>1
    <3> QED BY <1>1, <3>2, KidsNone
  <2>2. \A q : q \notin i .. j
    BY <1>2, <1>3
  <2>3. {K[q].node : q \in i .. j} = {}
    BY <2>2, Zenon
  <2>4. C \in Seq(KidRec) /\ NodesOf(C) = {K[q].node : q \in i .. j}
    BY <1>1, <2>1, <2>3
  <2> QED BY <2>4 DEF C
<1>4. CASE j # i - 1
  <2>1. i \in 1 .. Len(K) /\ j \in i .. Len(K)
    BY <1>2, <1>4
  <2> QED BY <1>1, <2>1, KidsRange DEF C
<1> QED BY <1>3, <1>4

\* C put beside the k-th child of a list keeps both lists in order and stands next to it.
LEMMA InsertedLined ==
  ASSUME NEW D \in Seq(KidRec), Distinct(D), NEW k \in 1 .. Len(D), NEW t, t = D[k].node,
         NEW C \in Seq(KidRec), NodesOf(C) \cap NodesOf(D) = {}, NEW first \in BOOLEAN,
         NEW at, at = IF first THEN k ELSE k + 1, NEW R, R = Replace(D, at, 0, C)
  PROVE  /\ \A c, d : Ahead(NodeOf, D, c, d) \/ Ahead(NodeOf, C, c, d) => Ahead(NodeOf, R, c, d)
         /\ \A c \in NodesOf(C) : IF first THEN Ahead(NodeOf, R, c, t) ELSE Ahead(NodeOf, R, t, c)
         /\ \A e \in NodesOf(D) \ {t} : \A c, d \in NodesOf(C) \cup {t} :
              Ahead(NodeOf, R, e, c) => Ahead(NodeOf, R, e, d)
<1> DEFINE A == Cut(D, 1, at - 1) E == Cut(D, at, Len(D))
<1>1. Len(D) \in Nat /\ k \in Int /\ at \in 1 .. Len(D) + 1 /\ at \in Int
  OBVIOUS
<1>2. /\ at - 1 \in (1 - 1) .. Len(D) /\ Len(D) \in (at - 1) .. Len(D) /\ 1 \in 1 .. Len(D) + 1
      /\ (at - 1) + 1 = at
  BY <1>1
<1>3. A \in Seq(KidRec) /\ NodesOf(A) = {D[q].node : q \in 1 .. (at - 1)}
  <2> DEFINE b == at - 1
  <2>1. 1 \in 1 .. Len(D) + 1 /\ b \in (1 - 1) .. Len(D)
    BY <1>2
  <2> HIDE DEF b
  <2>2. Cut(D, 1, b) \in Seq(KidRec) /\ NodesOf(Cut(D, 1, b)) = {D[q].node : q \in 1 .. b}
    BY <2>1, CutNodes
  <2> QED BY <2>2 DEF b
<1>4. E \in Seq(KidRec) /\ NodesOf(E) = {D[q].node : q \in at .. Len(D)}
  BY <1>1, <1>2, CutNodes
<1>5. D = Join(Join(A, <<>>), E) /\ R = Join(Join(A, C), E)
  <2>1. D = Join(A, E)
    <3> DEFINE b == at - 1 N == Cut(D, 1, 1 - 1) B == Cut(D, 1, b) F == Cut(D, b + 1, Len(D))
    <3>1. b \in (1 - 1) .. Len(D) /\ 1 \in 1 .. Len(D) + 1 /\ b + 1 = at
      BY <1>1, <1>2
    <3> HIDE DEF b
    <3>2. /\ N \in Seq(KidRec) /\ Len(N) = 1 - 1 /\ B \in Seq(KidRec) /\ F \in Seq(KidRec)
          /\ D = Join(Join(N, B), F)
      BY <3>1, KidsCut
    <3> HIDE DEF N, B, F
    <3>3. N = <<>>
      BY <3>2
    <3>4. Join(N, B) = B
      BY <3>2, <3>3 DEF Join
    <3>5. D = Join(B, F)
      BY <3>2, <3>4
    <3> QED BY <3>1, <3>5 DEF B, F, b
  <2> HIDE DEF A, E
  <2>2. Join(A, <<>>) = A
    BY <1>3 DEF Join
  <2>3. R = Join(Join(A, C), E)
    <3>1. at + 0 = at
      BY <1>1
    <3> QED BY <3>1 DEF Replace, Join, A, E, Cut
  <2> QED BY <2>1, <2>2, <2>3
<1>6. \A x : /\ x \in NodesOf(D) /\ x # t => (Ahead(NodeOf, D, x, t) <=> x \in NodesOf(A))
             /\ first => (t \in NodesOf(E)) /\ t \notin NodesOf(A)
             /\ ~first => t \in NodesOf(A) /\ t \notin NodesOf(E)
  <2>1. /\ \A i, j \in 1 .. Len(D) : D[i].node = D[j].node => i = j
        /\ \A x : x \in NodesOf(D) => \E q \in 1 .. Len(D) : x = D[q].node
    BY DEF Distinct, NodesOf
  <2>2. \A x : Ahead(NodeOf, D, x, t)
                 <=> \E i, j \in 1 .. Len(D) : i < j /\ D[i].node = x /\ D[j].node = t
    BY KidsAhead
  <2>3. \A x : x \in NodesOf(A) <=> \E q \in 1 .. (at - 1) : x = D[q].node
    BY <1>3
  <2>4. \A x : x \in NodesOf(E) <=> \E q \in at .. Len(D) : x = D[q].node
    BY <1>4
  <2> HIDE DEF A, E
  <2>5. ASSUME NEW x, x \in NodesOf(D), x # t PROVE Ahead(NodeOf, D, x, t) <=> x \in NodesOf(A)
    <3>1. PICK q \in 1 .. Len(D) : x = D[q].node
      BY <2>1, <2>5
    <3>2. q # k /\ q \in Int
      BY <2>5, <3>1
    <3>3. Ahead(NodeOf, D, x, t) <=> q < k
      BY <1>1, <2>1, <2>2, <3>1, <3>2
    <3>4. x \in NodesOf(A) <=> q < at
      BY <1>1, <2>1, <2>3, <3>1, <3>2
    <3> QED BY <1>1, <3>2, <3>3, <3>4
  <2>6. first => (t \in NodesOf(E)) /\ t \notin NodesOf(A)
    BY <1>1, <2>1, <2>3, <2>4
  <2>7. ~first => t \in NodesOf(A) /\ t \notin NodesOf(E)
    BY <1>1, <2>1, <2>3, <2>4
  <2> QED BY <2>5, <2>6, <2>7
<1>7. <<>> \in Seq(KidRec) /\ NodesOf(<<>>) = {}
  <2>1. <<>> \in Seq(KidRec)
    OBVIOUS
  <2> QED BY <2>1, KidsNone
<1>8. NodesOf(D) = NodesOf(A) \cup NodesOf(E)
  <2>1. NodesOf(D) = {D[q].node : q \in 1 .. Len(D)}
    BY DEF NodesOf
  <2> QED BY <1>1, <1>3, <1>4, <2>1
<1> HIDE DEF A, E
<1> DEFINE N == <<>>
<1>9. N \in Seq(KidRec) /\ NodesOf(N) = {} /\ D = Join(Join(A, N), E)
  BY <1>5, <1>7
<1> HIDE DEF N
<1>10. \A c, d : Ahead(NodeOf, D, c, d)
                   <=> \/ Ahead(NodeOf, A, c, d) \/ Ahead(NodeOf, E, c, d)
                       \/ c \in NodesOf(A) /\ d \in NodesOf(E)
  <2> TAKE c, d
  <2>1. Ahead(NodeOf, Join(Join(A, N), E), c, d)
           <=> \/ Ahead(NodeOf, A, c, d) \/ Ahead(NodeOf, N, c, d) \/ Ahead(NodeOf, E, c, d)
               \/ c \in NodesOf(A) /\ d \in NodesOf(N)
               \/ c \in NodesOf(A) /\ d \in NodesOf(E)
               \/ c \in NodesOf(N) /\ d \in NodesOf(E)
    BY <1>3, <1>4, <1>9, AheadThree
  <2>2. ~Ahead(NodeOf, N, c, d)
    BY <1>9, KidsAhead
  <2> QED BY <1>9, <2>1, <2>2
<1>11. \A c, d : Ahead(NodeOf, R, c, d)
                   <=> \/ Ahead(NodeOf, A, c, d) \/ Ahead(NodeOf, C, c, d) \/ Ahead(NodeOf, E, c, d)
                       \/ c \in NodesOf(A) /\ d \in NodesOf(C)
                       \/ c \in NodesOf(A) /\ d \in NodesOf(E)
                       \/ c \in NodesOf(C) /\ d \in NodesOf(E)
  BY <1>3, <1>4, <1>5, AheadThree
<1>12. \A c, d : Ahead(NodeOf, C, c, d) => c \in NodesOf(C) /\ d \in NodesOf(C)
  BY KidsAhead
<1>13. \A c, d : Ahead(NodeOf, E, c, d) => c \in NodesOf(E) /\ d \in NodesOf(E)
  BY <1>4, KidsAhead
<1>14. \A c, d : Ahead(NodeOf, A, c, d) => c \in NodesOf(A) /\ d \in NodesOf(A)
  BY <1>3, KidsAhead
<1>15. \A e \in NodesOf(D) \ {t} : \A c \in NodesOf(C) \cup {t} :
         Ahead(NodeOf, R, e, c) <=> e \in NodesOf(A)
  <2> TAKE e \in NodesOf(D) \ {t}
  <2>1. ASSUME NEW c \in NodesOf(C) PROVE Ahead(NodeOf, R, e, c) <=> e \in NodesOf(A)
    BY <1>8, <1>11, <1>12, <1>13, <1>14
  <2>2. Ahead(NodeOf, R, e, t) <=> Ahead(NodeOf, D, e, t)
    <3>1. t \notin NodesOf(C)
      BY <1>6, <1>8
    <3>2. e \notin NodesOf(C)
      OBVIOUS
    <3> QED BY <1>10, <1>11, <1>12, <3>1, <3>2
  <2>3. Ahead(NodeOf, D, e, t) <=> e \in NodesOf(A)
    BY <1>6
  <2> QED BY <2>1, <2>2, <2>3
<1>16. \A c \in NodesOf(C) : IF first THEN Ahead(NodeOf, R, c, t) ELSE Ahead(NodeOf, R, t, c)
  BY <1>6, <1>11
<1> QED BY <1>10, <1>11, <1>15, <1>16

\* The panes under the nodes S came to stand beside those below t; the order among them and
\* the order among the others is what it was.
Moved(l, S, t, first, m) ==
  /\ \A T : T \subseteq PanesUnder(l, S) => Keeps(l, m, T)
  /\ \A T : T \subseteq (DOMAIN l.up \cap Pane) \ PanesUnder(l, S) => Keeps(l, m, T)
  /\ Landed(m, PanesUnder(l, S), PanesBelow(l, t),
            (DOMAIN l.up \cap Pane) \ (PanesUnder(l, S) \cup PanesBelow(l, t)), first)

\* Children of one split that were put beside another of its children.
LEMMA LinedMoves ==
  ASSUME NEW l, NEW thin, Grove(l, {l.root}, thin), NEW m, NEW thin2, Grove(m, {m.root}, thin2),
         m.up = l.up, NEW p \in DOMAIN l.kids, DOMAIN m.kids = DOMAIN l.kids,
         \A s \in DOMAIN l.kids : s # p => m.kids[s] = l.kids[s],
         NEW S, S \subseteq Children(l.up, p), NEW t \in Children(l.up, p), t \notin S,
         \A c, d : Ahead(NodeOf, l.kids[p], c, d) /\ (c \in S <=> d \in S)
                     => Ahead(NodeOf, m.kids[p], c, d),
         NEW first \in BOOLEAN, Lined(m, p, S, t, first)
  PROVE  Moved(l, S, t, first, m)
<1> DEFINE u == l.up
<1>1. Links(u) /\ Upward(u, DOMAIN u)
  BY GroveLinks, GroveParts
<1>2. p \in DOMAIN u /\ p # NoNode /\ S \subseteq DOMAIN u /\ t \in DOMAIN u
      /\ \A n \in S \cup {t} : u[n] = p
  BY GroveParts DEF Children
<1>3. ASSUME NEW x \in DOMAIN u, NEW c \in Up(u, x), u[c] = p
      PROVE  c \in S <=> \E s \in S : s \in Up(u, x)
  BY <1>1, <1>2, <1>3, UpOneChild
<1>4. ASSUME NEW T, T \subseteq DOMAIN u,
             \A x, y \in T : (\E s \in S : s \in Up(u, x)) <=> (\E s \in S : s \in Up(u, y))
      PROVE  Keeps(l, m, T)
  <2>1. \A n \in DOMAIN u : n \in DOMAIN m.up /\ u[n] # NoNode /\ u[u[n]] # NoNode
                              => u[n] \in Up(m.up, n)
    BY <1>1, UpOne
  <2>2. ASSUME NEW s \in DOMAIN l.kids, NEW x \in T, NEW y \in T, NEW c \in Up(u, x),
               NEW d \in Up(u, y), Ahead(NodeOf, l.kids[s], c, d)
        PROVE  Left(m, c, d)
    <3>1. s # p => Ahead(NodeOf, m.kids[s], c, d)
      BY <2>2
    <3>2. s = p => Ahead(NodeOf, m.kids[s], c, d)
      <4> SUFFICES ASSUME s = p PROVE Ahead(NodeOf, m.kids[p], c, d)
        OBVIOUS
      <4>1. l.kids[p] \in Seq(KidRec) /\ NodesOf(l.kids[p]) = Children(u, p)
        BY GroveKids
      <4>2. c \in Children(u, p) /\ d \in Children(u, p)
        BY <2>2, <4>1, KidsAhead
      <4>3. u[c] = p /\ u[d] = p
        BY <4>2 DEF Children
      <4>4. c \in S <=> d \in S
        BY <1>3, <1>4, <2>2, <4>3
      <4> QED BY <2>2, <4>4
    <3> QED BY <3>1, <3>2, LeftKids
  <2>3. T \subseteq DOMAIN u \cap DOMAIN m.up
    BY <1>4
  <2>4. \A s \in DOMAIN l.kids : \A x, y \in T : \A c \in Up(l.up, x), d \in Up(l.up, y) :
          Ahead(NodeOf, l.kids[s], c, d) => Left(m, c, d)
    BY <2>2
  <2> QED BY <1>1, <2>1, <2>3, <2>4, EditedFor
<1> DEFINE X == PanesUnder(l, S) Y == PanesBelow(l, t) P == DOMAIN u \cap Pane Z == P \ (X \cup Y)
<1>5. /\ \A x : x \in X <=> x \in P /\ \E s \in S : s \in Up(u, x)
      /\ \A x : x \in Y <=> x \in P /\ t \in Up(u, x)
  BY DEF PanesUnder, PanesBelow
<1>6. P \subseteq DOMAIN u
  OBVIOUS
<1> HIDE DEF X, Y, P
<1>7. \A T : T \subseteq X => Keeps(l, m, T)
  BY <1>4, <1>5, <1>6
<1>8. \A T : T \subseteq P \ X => Keeps(l, m, T)
  BY <1>4, <1>5, <1>6
<1>9. Sorted(m.up, X, Y, Z, S, t)
  <2>1. \A z \in Z : \A c \in S \cup {t} : c \notin Up(u, z)
    BY <1>5
  <2>2. X \cup Y \cup Z \subseteq DOMAIN u
    BY <1>5, <1>6
  <2> HIDE DEF Z
  <2> QED BY <1>5, <2>1, <2>2 DEF Sorted
<1> HIDE DEF Z
<1>10. Landed(m, X, Y, Z, first)
  BY <1>9, LinedLands
<1> QED BY <1>7, <1>8, <1>10, Zenon DEF Moved, X, Y, Z, P, u

\* reorder_at_same_level
LEMMA ReorderMoves ==
  ASSUME NEW l, Grove(l, {l.root}, {}), NEW sel, NEW i, NEW j,
         Ranged(l, sel.parent, sel.nodes, i, j),
         NEW target \in Children(l.up, sel.parent), target \notin ToSet(sel.nodes),
         NEW insertion \in {"BEFORE", "AFTER"}, NEW m, m = Reorder(l, sel, target, insertion)
  PROVE  Moved(l, ToSet(sel.nodes), target, insertion = "BEFORE", m)
<1> DEFINE p == sel.parent K == l.kids[p] S == ToSet(sel.nodes) C == SelectedKids(l, sel)
           D == OtherKids(l, sel)
           t == IndexIn(D, target)
           at == IF insertion = "AFTER" THEN t + 1 ELSE t
           R == Replace(D, at, 0, C)
<1>1. /\ C \in Seq(KidRec) /\ Distinct(C) /\ NodesOf(C) = S
      /\ D \in Seq(KidRec) /\ Distinct(D) /\ NodesOf(D) = Children(l.up, p) \ S
      /\ Len(D) \in Nat
  BY Partitioned
<1>2. p \in DOMAIN l.kids /\ S \subseteq Children(l.up, p)
  BY RangedParts DEF Ranged
<1>3. K \in Seq(KidRec) /\ Distinct(K) /\ NodesOf(K) = Children(l.up, p)
  BY <1>2, GroveKids
<1>4. \A c, d : Ahead(NodeOf, K, c, d) /\ (c \in S <=> d \in S)
                  => Ahead(NodeOf, C, c, d) \/ Ahead(NodeOf, D, c, d)
  <2>1. ToSet(KidNodes(K)) = NodesOf(K)
    BY <1>3, KidNodesOf
  <2>2. C = Among(K, S) /\ D = Among(K, NodesOf(K) \ S)
    BY <2>1, Zenon DEF SelectedKids, OtherKids
  <2> HIDE DEF C, D, K, S
  <2> DEFINE N == NodesOf(K) \ S
  <2>3. \A c, d : Ahead(NodeOf, C, c, d) <=> Ahead(NodeOf, K, c, d) /\ c \in S /\ d \in S
    BY <1>3, <2>2, AheadAmong
  <2> HIDE DEF N
  <2>4. D = Among(K, N)
    BY <2>2 DEF N
  <2>5. \A c, d : Ahead(NodeOf, D, c, d) <=> Ahead(NodeOf, K, c, d) /\ c \in N /\ d \in N
    BY <1>3, <2>4, AheadAmong
  <2>6. \A c, d : Ahead(NodeOf, K, c, d) => c \in NodesOf(K) /\ d \in NodesOf(K)
    BY <1>3, KidsAhead
  <2> QED BY <2>3, <2>5, <2>6 DEF N
<1>5. m = Adopt(l, p, R)
  BY Zenon DEF Reorder, IndexIn
<1>6. Grove(m, {m.root}, {}) /\ m.up = l.up
  BY ReorderGrove
<1>7. l = Lay(l.root, l.axis, l.kids, l.up)
  BY GroveParts
<1> HIDE DEF C, D, S, K
<1>8. t \in 1 .. Len(D) /\ D[t].node = target
  <2>1. target \in NodesOf(D)
    BY <1>1 DEF S
  <2> QED BY <1>1, <2>1, KidIndex DEF IndexIn
<1> HIDE DEF t
<1> DEFINE first == insertion = "BEFORE"
<1>9. /\ \A c, d : Ahead(NodeOf, D, c, d) \/ Ahead(NodeOf, C, c, d) => Ahead(NodeOf, R, c, d)
      /\ \A c \in NodesOf(C) :
           IF first THEN Ahead(NodeOf, R, c, target) ELSE Ahead(NodeOf, R, target, c)
      /\ \A e \in NodesOf(D) \ {target} : \A c, d \in NodesOf(C) \cup {target} :
           Ahead(NodeOf, R, e, c) => Ahead(NodeOf, R, e, d)
  <2>1. first \in BOOLEAN /\ at = IF first THEN t ELSE t + 1
    OBVIOUS
  <2>2. NodesOf(C) \cap NodesOf(D) = {}
    BY <1>1
  <2> HIDE DEF first, at
  <2> QED BY <1>1, <1>8, <2>1, <2>2, InsertedLined
<1>10. R \in Seq(KidRec)
  <2>1. 0 \in Nat /\ at \in 1 .. Len(D) + 1 /\ (at + 0) - 1 <= Len(D)
    BY <1>1, <1>8
  <2> HIDE DEF at
  <2>2. SameEnds(D, Cut(D, at, (at + 0) - 1), Replace(D, at, 0, C), C)
    BY <1>1, <2>1, SharedEnds
  <2> HIDE DEF R
  <2>3. PICK A \in Seq(KidRec), E \in Seq(KidRec) : R = Join(Join(A, C), E)
    BY <2>2 DEF SameEnds, R
  <2> QED BY <1>1, <2>3, KidsThree
<1> HIDE DEF R
<1>11. /\ DOMAIN m.kids = DOMAIN l.kids \cup {p} /\ m.kids[p] = R
       /\ \A q \in DOMAIN l.kids : q # p => m.kids[q] = l.kids[q]
  BY <1>5, <1>7, <1>10, AdoptAt
<1>12. /\ \A c, d : Ahead(NodeOf, l.kids[p], c, d) /\ (c \in S <=> d \in S)
                      => Ahead(NodeOf, m.kids[p], c, d)
       /\ DOMAIN m.kids = DOMAIN l.kids
  BY <1>2, <1>4, <1>9, <1>11 DEF K
<1>13. Lined(m, p, S, target, first)
  <2>1. \A e \in Children(m.up, p) \ (S \cup {target}) : e \in NodesOf(D) \ {target}
    BY <1>1, <1>6
  <2> HIDE DEF first
  <2>2. \A c \in S : IF first THEN Ahead(NodeOf, m.kids[p], c, target)
                     ELSE Ahead(NodeOf, m.kids[p], target, c)
    BY <1>1, <1>9, <1>11
  <2>3. \A e \in Children(m.up, p) \ (S \cup {target}) : \A c, d \in S \cup {target} :
          Ahead(NodeOf, m.kids[p], e, c) => Ahead(NodeOf, m.kids[p], e, d)
    BY <1>1, <1>9, <1>11, <2>1
  <2>4. p \in DOMAIN m.kids /\ S \cup {target} \subseteq Children(m.up, p)
    BY <1>2, <1>6, <1>12
  <2> QED BY <2>2, <2>3, <2>4, Zenon DEF Lined
<1>14. target \in Children(l.up, p) /\ target \notin S /\ first \in BOOLEAN
  BY DEF S
<1> HIDE DEF p, first
<1>15. Moved(l, S, target, first, m)
  BY <1>2, <1>6, <1>11, <1>12, <1>13, <1>14, LinedMoves
<1> QED BY <1>15 DEF S, first

-----------------------------------------------------------------------------
(* A move *)

\* What was taken out and put beside a target came to stand beside it.
LEMMA TakenMoves ==
  ASSUME NEW l, Grove(l, {l.root}, {}), NEW S, NEW n, NEW t \in DOMAIN l.up,
         S \subseteq DOMAIN l.up, \A s \in S : s \notin Up(l.up, t) /\ t \notin Up(l.up, s),
         NEW l1, NEW left, Movable(l1, n, t, left), Taken(l, S, n, l1), NEW first,
         NEW m, Arrived(l1, n, t, first, m)
  PROVE  Moved(l, S, t, first, m)
<1> DEFINE u == l.up v == l1.up
           X == PanesUnder(l, S) Y == PanesBelow(l, t) P == DOMAIN u \cap Pane Z == P \ (X \cup Y)
<1>1. Grove(l1, {l1.root, n}, {left}) /\ n \in DOMAIN v /\ t # n
  BY MovableParts
<1>2. Links(u) /\ Links(v)
  BY <1>1, GroveLinks
<1>3. /\ DOMAIN v \cap Pane = P
      /\ PanesBelow(l1, n) = X
      /\ \A T : T \subseteq X => Keeps(l, l1, T)
      /\ \A T : T \subseteq P \ X => Keeps(l, l1, T)
  BY <1>1, TakenKeeps
<1>4. /\ \A T : T \subseteq DOMAIN v \cap Pane => Keeps(l1, m, T)
      /\ X \cup Y \cup Z \subseteq DOMAIN v \cap Pane /\ (\A x \in X : n \in Up(v, x))
         /\ (\A y \in Y : t \in Up(v, y))
         /\ (\A z \in Z : n \notin Up(v, z) /\ t \notin Up(v, z))
         => Landed(m, X, Y, Z, first)
  <2>1. \A A, B, C :
          /\ A \cup B \cup C \subseteq DOMAIN v \cap Pane
          /\ \A x \in A : n \in Up(v, x)
          /\ \A y \in B : t \in Up(v, y)
          /\ \A z \in C : n \notin Up(v, z) /\ t \notin Up(v, z)
          => Landed(m, A, B, C, first)
    BY Zenon DEF Arrived
  <2>2. \A T : T \subseteq DOMAIN v \cap Pane => Keeps(l1, m, T)
    BY Zenon DEF Arrived
  <2> HIDE DEF X, Y, Z, v
  <2> QED BY <2>1, <2>2
<1>5. /\ \A x : x \in X <=> x \in P /\ \E s \in S : s \in Up(u, x)
      /\ \A x : x \in Y <=> x \in P /\ t \in Up(u, x)
      /\ \A x : x \in X <=> x \in DOMAIN v \cap Pane /\ n \in Up(v, x)
  BY <1>3 DEF PanesUnder, PanesBelow
<1>6. P \subseteq DOMAIN u
  OBVIOUS
<1>7. ASSUME NEW x \in DOMAIN u
      PROVE  /\ \A c \in Up(v, x) : c # n => c \in Up(u, x)
             /\ n \notin Up(v, x) => Up(u, x) \subseteq Up(v, x)
  <2>1. x \in DOMAIN l.up
    OBVIOUS
  <2> HIDE DEF u, v
  <2>2. /\ \A c \in Up(l1.up, x) : c # n => c \in Up(l.up, x)
        /\ n \notin Up(l1.up, x) => Up(l.up, x) \subseteq Up(l1.up, x)
    BY <1>1, <2>1, TakenAbove
  <2> QED BY <2>2 DEF u, v
<1> HIDE DEF X, Y, P, u, v
<1>8. ASSUME NEW y \in Y PROVE y \notin X
  <2> SUFFICES ASSUME y \in X PROVE FALSE
    OBVIOUS
  <2>1. PICK s \in S : s \in Up(u, y)
    BY <1>5
  <2>2. t \in Up(u, y) /\ y \in DOMAIN u
    BY <1>5, <1>6
  <2> QED BY <1>2, <2>1, <2>2, UpChain DEF u
<1>9. \A y \in Y : t \in Up(v, y)
  BY <1>3, <1>5, <1>6, <1>7, <1>8
<1>10. \A z \in Z : n \notin Up(v, z) /\ t \notin Up(v, z)
  BY <1>1, <1>3, <1>5, <1>6, <1>7
<1>11. X \cup Y \cup Z \subseteq DOMAIN v \cap Pane
  BY <1>3, <1>5
<1> HIDE DEF Z
<1>12. Landed(m, X, Y, Z, first)
  BY <1>4, <1>5, <1>9, <1>10, <1>11
<1>13. \A T : T \subseteq X => Keeps(l, m, T)
  BY <1>3, <1>4, <1>5, KeepsOn
<1>14. \A T : T \subseteq P \ X => Keeps(l, m, T)
  BY <1>3, <1>4, <1>5, KeepsOn
<1> QED BY <1>12, <1>13, <1>14, Zenon DEF Moved, X, Y, Z, P, u

\* What was moved stays so when the order is kept.
LEMMA MovedKept ==
  ASSUME NEW l, NEW S, NEW t, NEW first, NEW o, Moved(l, S, t, first, o), NEW m,
         \A T : T \subseteq DOMAIN l.up \cap Pane => Keeps(o, m, T) /\ Keeps(m, o, T)
  PROVE  Moved(l, S, t, first, m)
<1> DEFINE X == PanesUnder(l, S) Y == PanesBelow(l, t) P == DOMAIN l.up \cap Pane
           Z == P \ (X \cup Y)
<1>1. X \subseteq P /\ Y \subseteq P
  BY DEF PanesUnder, PanesBelow
<1>2. /\ \A T : T \subseteq X => Keeps(l, o, T)
      /\ \A T : T \subseteq P \ X => Keeps(l, o, T)
      /\ Landed(o, X, Y, Z, first)
  BY Zenon DEF Moved
<1> HIDE DEF X, Y
<1>3. X \cup Y \cup Z \subseteq P
  BY <1>1
<1>4. Keeps(o, m, X \cup Y \cup Z) /\ Keeps(m, o, X \cup Y \cup Z)
  BY <1>3
<1> HIDE DEF Z
<1>5. Landed(m, X, Y, Z, first)
  BY <1>2, <1>4, LandedKept
<1>6. \A T : T \subseteq X => Keeps(l, m, T)
  BY <1>1, <1>2, KeepsOn
<1>7. \A T : T \subseteq P \ X => Keeps(l, m, T)
  BY <1>2, KeepsOn
<1> QED BY <1>5, <1>6, <1>7, Zenon DEF Moved, X, Y, Z, P

\* PaneLayoutMover::move puts the selected nodes beside the target and leaves the other
\* panes in order.
THEOREM MoveMoves ==
  ASSUME NEW l, Grove(l, {l.root}, {}), SplitsNeverRunOut, NEW sel, SelOK(l, sel),
         NEW t \in DOMAIN l.up,
         \A s \in ToSet(sel.nodes) : Apart(l, s, t), NEW direction,
         NEW m, m = Move(l, sel, t, direction)
  PROVE  Moved(l, ToSet(sel.nodes), t, DropInsertion(direction) = "BEFORE", m)
<1> DEFINE axis == AxisOf(direction) insertion == DropInsertion(direction) e == Extract(l, sel)
           S == ToSet(sel.nodes)
<1>1. axis \in Axis /\ insertion \in {"BEFORE", "AFTER"}
  BY DEF AxisOf, Axis, DropInsertion
<1>2. CASE StaysOnLevel(l, sel, t, direction)
  <2>1. m = Reorder(l, sel, t, insertion)
    BY <1>2, Zenon DEF Move
  <2>2. l.up[t] = sel.parent
    BY <1>2 DEF StaysOnLevel
  <2>3. sel.parent # NoNode
    <3> SUFFICES ASSUME sel.parent = NoNode PROVE FALSE
      OBVIOUS
    <3>1. sel.nodes = <<l.root>> /\ sel.nodes[1] \in ToSet(sel.nodes)
      BY SelParts
    <3>2. t = l.root
      BY <2>2, GroveParts
    <3>3. t \in ToSet(sel.nodes)
      BY <3>1, <3>2
    <3> QED BY <3>3 DEF Apart
  <2>4. PICK i, j : Ranged(l, sel.parent, sel.nodes, i, j)
    BY <2>3, SelParts
  <2>5. t \in Children(l.up, sel.parent) /\ t \notin ToSet(sel.nodes)
    BY <2>2 DEF Children, Apart
  <2> HIDE DEF insertion
  <2>6. Moved(l, ToSet(sel.nodes), t, insertion = "BEFORE", m)
    BY <1>1, <2>1, <2>4, <2>5, ReorderMoves
  <2> QED BY <2>6 DEF insertion
<1>3. CASE ~StaysOnLevel(l, sel, t, direction)
  <2> DEFINE o == InsertAtTarget(e.layout, e.node, t, axis, insertion)
             first == insertion = "BEFORE"
  <2>1. m = DissolveIfUnary(o, e.left)
    BY <1>3, Zenon DEF Move
  <2>2. /\ Movable(e.layout, e.node, t, e.left) /\ Nodes(e.layout) \cap Pane = Nodes(l) \cap Pane
        /\ Taken(l, S, e.node, e.layout)
    BY ExtractMovable, ExtractTaken
  <2>3. S \subseteq DOMAIN l.up /\ \A s \in S : s \notin Up(l.up, t) /\ t \notin Up(l.up, s)
    <3>1. S \subseteq DOMAIN l.up
      BY SelParts
    <3> HIDE DEF S
    <3>2. \A s \in S : Apart(l, s, t)
      BY DEF S
    <3> QED BY <3>1, <3>2, ApartUp
  <2> HIDE DEF axis, insertion, e, S
  <2>4. Movable(e.layout, e.node, t, e.left)
    BY <2>2
  <2>5. /\ Grove(o, {o.root}, {e.left}) /\ e.left \in DOMAIN o.kids
        /\ Nodes(o) \cap Pane = Nodes(e.layout) \cap Pane
    <3>1. LET x == InsertAtTarget(e.layout, e.node, t, axis, insertion)
          IN  /\ Grove(x, {x.root}, {e.left}) /\ e.left \in DOMAIN x.kids
              /\ Nodes(x) \cap Pane = Nodes(e.layout) \cap Pane
      BY <1>1, <2>4, InsertAtTargetGrove, ZenonT(60)
    <3> QED BY <3>1
  <2>6. Arrived(e.layout, e.node, t, first, o)
    BY <1>1, <2>4, InsertLands, ZenonT(60)
  <2> HIDE DEF o, first
  <2>7. Moved(l, S, t, first, o)
    BY <2>2, <2>3, <2>4, <2>6, TakenMoves
  <2>8. DOMAIN o.up \cap Pane = DOMAIN l.up \cap Pane
    BY <2>2, <2>5 DEF Nodes
  <2>9. \A T : T \subseteq DOMAIN l.up \cap Pane => Keeps(o, m, T) /\ Keeps(m, o, T)
    BY <2>1, <2>5, <2>8, DissolveKeeps
  <2> QED BY <2>7, <2>9, MovedKept DEF S, first, insertion
<1> QED BY <1>2, <1>3

-----------------------------------------------------------------------------
(* Swapping two nodes *)

\* What is above a node stays above it up to the first node that hangs elsewhere.
LEMMA UpUntil ==
  ASSUME NEW u, NEW v, Links(u), Links(v), NEW x \in DOMAIN u, DOMAIN v = DOMAIN u, NEW C,
         \A q \in Up(u, x) : q \notin C => v[q] = u[q],
         NEW c \in Up(u, x), \A q \in Up(u, x) \cap C : q = c \/ c \notin Up(u, q)
  PROVE  c \in Up(v, x)
<1> DEFINE A == Up(v, x) B == Up(u, x)
           F == {n \in B : \E q \in B \cap C : n # q /\ n \in Up(u, q)}
           E == (A \cap B) \cup F
<1>1. /\ A \subseteq DOMAIN v /\ x \in A /\ \A n \in A : v[n] \in A \cup {NoNode}
      /\ B \subseteq DOMAIN u /\ x \in B /\ \A n \in B : u[n] \in B \cup {NoNode}
  BY UpIsUpward DEF Upward
<1>2. ASSUME NEW n \in A \cap B, n \notin C PROVE u[n] \in E \cup {NoNode}
  BY <1>1, <1>2
<1>3. ASSUME NEW n \in B, n \in C PROVE u[n] \in E \cup {NoNode}
  <2> SUFFICES ASSUME u[n] # NoNode PROVE u[n] \in F
    OBVIOUS
  <2>1. n \in DOMAIN u
    BY <1>1
  <2>2. u[n] \in Up(u, n) /\ n \in Up(u, n)
    BY <2>1, UpOne
  <2>3. u[n] # n
    <3>1. u[n] \in DOMAIN u /\ n \notin Up(u, u[n])
      BY <2>1, UpStep, UpNotBack
    <3>2. u[n] \in Up(u, u[n])
      BY <3>1, UpIsUpward
    <3> QED BY <3>1, <3>2
  <2> HIDE DEF A, B
  <2> QED BY <1>1, <1>3, <2>2, <2>3
<1>4. ASSUME NEW n \in F PROVE u[n] \in E \cup {NoNode}
  <2> SUFFICES ASSUME u[n] # NoNode PROVE u[n] \in F
    OBVIOUS
  <2>1. PICK q \in B \cap C : n # q /\ n \in Up(u, q)
    BY <1>4
  <2>2. n \in DOMAIN u /\ q \in DOMAIN u /\ n \in B /\ u[n] \in B
    BY <1>1, <1>4
  <2>3. u[n] \in Up(u, q)
    BY <2>1, <2>2, UpIsUpward DEF Upward
  <2>4. u[n] # q
    <3>1. n \notin Up(u, u[n])
      BY <2>2, UpNotBack
    <3> QED BY <2>1, <3>1
  <2> HIDE DEF B
  <2> QED BY <2>1, <2>2, <2>3, <2>4
<1> HIDE DEF A, B, F
<1>5. F \subseteq B
  BY DEF F
<1>6. E \subseteq DOMAIN u /\ x \in E /\ \A n \in E : u[n] \in E \cup {NoNode}
  BY <1>1, <1>2, <1>3, <1>4, <1>5
<1> HIDE DEF E
<1>7. c \in E
  BY <1>6 DEF Up, Upward
<1>8. c \notin F
  BY DEF F, B
<1> QED BY <1>7, <1>8 DEF E, A

\* What stands left of a node stands left of everything above that node that is not above it
\* too, and the same to the right.
LEMMA LeftUp ==
  ASSUME NEW l, NEW tops, NEW thin, Grove(l, tops, thin), NEW x \in DOMAIN l.up,
         NEW y \in DOMAIN l.up, NEW g \in Up(l.up, x), g \notin Up(l.up, y)
  PROVE  /\ Left(l, x, y) => Left(l, g, y)
         /\ Left(l, y, x) => Left(l, y, g)
<1> DEFINE u == l.up
<1>1. Links(u)
  BY GroveLinks
<1>2. ASSUME NEW c \in Up(u, x), NEW d \in Up(u, y), u[c] = u[d], u[c] # NoNode
      PROVE  c \in Up(u, g)
  <2> SUFFICES ASSUME c \notin Up(u, g) PROVE FALSE
    OBVIOUS
  <2>1. g \in Up(u, c)
    BY <1>1, UpChain
  <2>2. c \in DOMAIN u /\ d \in DOMAIN u /\ g \in DOMAIN u
    BY <1>1, UpIsUpward
  <2>3. g # c
    BY <1>1, <2>2, UpIsUpward
  <2>4. g \in Up(u, u[c]) /\ u[c] \in DOMAIN u
    BY <1>1, <1>2, <2>1, <2>2, <2>3, UpStep
  <2>5. u[d] \in Up(u, d)
    BY <1>1, <1>2, <2>2, UpOne
  <2>6. Up(u, u[d]) \subseteq Up(u, d) /\ Up(u, d) \subseteq Up(u, y)
    BY <1>1, <2>2, <2>5, UpTransitive
  <2> QED BY <1>2, <2>4, <2>6
<1>3. ASSUME Left(l, x, y) PROVE Left(l, g, y)
  <2>1. PICK c \in Up(u, x), d \in Up(u, y) :
          /\ u[c] \in DOMAIN l.kids /\ u[d] = u[c] /\ u[c] # NoNode
          /\ Ahead(NodeOf, l.kids[u[c]], c, d)
    BY <1>3, LeftParts
  <2>2. c \in Up(u, g)
    BY <1>2, <2>1
  <2> QED BY <2>1, <2>2, Zenon DEF Left
<1>4. ASSUME Left(l, y, x) PROVE Left(l, y, g)
  <2>1. PICK d \in Up(u, y), c \in Up(u, x) :
          /\ u[d] \in DOMAIN l.kids /\ u[c] = u[d] /\ u[d] # NoNode
          /\ Ahead(NodeOf, l.kids[u[d]], d, c)
    BY <1>4, LeftParts
  <2>2. c \in Up(u, g)
    BY <1>2, <2>1
  <2> QED BY <2>1, <2>2, Zenon DEF Left
<1> QED BY <1>3, <1>4

\* A list of children with another node at one place.
LEMMA PutNodeAt ==
  ASSUME NEW K \in Seq(KidRec), NEW i \in 1 .. Len(K), NEW n \in Pane \cup Split, NEW R,
         R = PutNode(K, i, n)
  PROVE  /\ R \in Seq(KidRec) /\ Len(R) = Len(K) /\ R[i].node = n
         /\ \A k \in 1 .. Len(K) : k # i => R[k] = K[k]
<1> DEFINE y == [K[i] EXCEPT !.node = n]
<1>1. K[i] \in KidRec
  OBVIOUS
<1>2. y \in KidRec /\ y.node = n
  BY <1>1 DEF KidRec
<1> HIDE DEF y
<1>3. R = [K EXCEPT ![i] = y]
  BY Zenon DEF PutNode, y
<1> QED BY <1>2, <1>3, ListUpdated

\* The one of two nodes for the other.
Other(a, b, n) == IF n = a THEN b ELSE IF n = b THEN a ELSE n
Others(a, b, K, R) ==
  /\ R \in Seq(KidRec) /\ Len(R) = Len(K)
  /\ \A k \in 1 .. Len(K) : R[k].node = Other(a, b, K[k].node)

\* exchange_nodes puts each of the two nodes where the other one was.
LEMMA ExchangedLists ==
  ASSUME NEW l, Grove(l, {l.root}, {}), NEW a \in DOMAIN l.up, NEW b \in DOMAIN l.up, a # b,
         l.up[a] # NoNode, l.up[b] # NoNode, NEW m, m = Exchanged(l, a, b),
         NEW s \in DOMAIN l.kids
  PROVE  Others(a, b, l.kids[s], m.kids[s])
<1> DEFINE p == l.up[a] q == l.up[b] k == l.kids
           i == ChildIndex(l, p, a) j == ChildIndex(l, q, b)
           y == PutNode(k[p], i, b) k1 == [k EXCEPT ![p] = y]
           z == PutNode(k1[q], j, a) k2 == [k1 EXCEPT ![q] = z]
<1>1. m.kids = k2
  <2>1. l = Lay(l.root, l.axis, l.kids, l.up)
    BY GroveParts
  <2>2. m = Lay(l.root, l.axis, Crossed(l.kids, p, i, b, q, j, a),
                [[l.up EXCEPT ![a] = q] EXCEPT ![b] = p])
    BY <2>1, ExchangedParts
  <2>3. Crossed(l.kids, p, i, b, q, j, a) = k2
    BY Zenon DEF Crossed
  <2> HIDE DEF k2
  <2> QED BY <2>2, <2>3, LayParts
<1>2. /\ p \in DOMAIN k /\ q \in DOMAIN k /\ i \in 1 .. Len(k[p]) /\ j \in 1 .. Len(k[q])
      /\ k[p][i].node = a /\ k[q][j].node = b
      /\ a \in Pane \cup Split /\ b \in Pane \cup Split
  BY GroveIndex, GroveParts
<1>3. /\ k[s] \in Seq(KidRec) /\ Distinct(k[s]) /\ NodesOf(k[s]) = Children(l.up, s)
      /\ k[p] \in Seq(KidRec) /\ Distinct(k[p]) /\ k[q] \in Seq(KidRec) /\ Distinct(k[q])
  BY <1>2, GroveKids
<1>4. ASSUME NEW h \in 1 .. Len(k[s]) PROVE l.up[k[s][h].node] = s
  BY <1>3 DEF NodesOf, Children
<1>5. a \in DOMAIN l.up /\ b \in DOMAIN l.up
  OBVIOUS
<1> HIDE DEF k, i, j, p, q
<1>6. y \in Seq(KidRec) /\ Len(y) = Len(k[p]) /\ y[i].node = b
      /\ \A h \in 1 .. Len(k[p]) : h # i => y[h] = k[p][h]
  <2> DEFINE K == k[p]
  <2>1. K \in Seq(KidRec) /\ i \in 1 .. Len(K) /\ b \in Pane \cup Split /\ y = PutNode(K, i, b)
    BY <1>2, <1>3
  <2> HIDE DEF K, y
  <2>2. y \in Seq(KidRec) /\ Len(y) = Len(K) /\ y[i].node = b
        /\ \A h \in 1 .. Len(K) : h # i => y[h] = K[h]
    BY <2>1, PutNodeAt
  <2> QED BY <2>2 DEF K
<1> HIDE DEF y
<1>7. DOMAIN k1 = DOMAIN k /\ k1[p] = y /\ \A r \in DOMAIN k : r # p => k1[r] = k[r]
  BY <1>2
<1> HIDE DEF k1
<1>8. k1[q] \in Seq(KidRec) /\ Len(k1[q]) = Len(k[q])
  <2>1. CASE p = q
    BY <1>6, <1>7, <2>1
  <2>2. CASE p # q
    BY <1>2, <1>3, <1>7, <2>2
  <2> QED BY <2>1, <2>2
<1>9. z \in Seq(KidRec) /\ Len(z) = Len(k[q]) /\ z[j].node = a
      /\ \A h \in 1 .. Len(k[q]) : h # j => z[h] = k1[q][h]
  BY <1>2, <1>8, PutNodeAt
<1> HIDE DEF z
<1>10. k2[q] = z /\ \A r \in DOMAIN k : r # q => k2[r] = k1[r]
  BY <1>2, <1>7
<1> HIDE DEF k2
<1>11. m.kids[s] \in Seq(KidRec) /\ Len(m.kids[s]) = Len(k[s])
  BY <1>1, <1>3, <1>6, <1>7, <1>8, <1>9, <1>10, ZenonT(60) DEF k
<1>12. ASSUME NEW h \in 1 .. Len(k[s]) PROVE m.kids[s][h].node = Other(a, b, k[s][h].node)
  <2>0. /\ \A f, g \in 1 .. Len(k[s]) : k[s][f].node = k[s][g].node => f = g
        /\ k[s][h].node = a => s = p
        /\ k[s][h].node = b => s = q
    BY <1>3, <1>4 DEF Distinct, p, q
  <2>1. CASE k[s][h].node = a
    <3>1. s = p /\ h = i
      BY <1>2, <2>0, <2>1
    <3>2. k1[s][h].node = b
      BY <1>6, <1>7, <3>1
    <3>3. m.kids[s][h].node = b
      <4>1. CASE s # q
        BY <1>1, <1>10, <3>2, <4>1 DEF k
      <4>2. CASE s = q
        <5>1. h # j
          BY <1>2, <2>1, <4>2
        <5> QED BY <1>1, <1>9, <1>10, <3>2, <4>2, <5>1
      <4> QED BY <4>1, <4>2
    <3> QED BY <2>1, <3>3 DEF Other
  <2>2. CASE k[s][h].node = b
    <3>1. s = q /\ h = j
      BY <1>2, <2>0, <2>2
    <3> QED BY <1>1, <1>9, <1>10, <2>2, <3>1 DEF Other
  <2>3. CASE k[s][h].node # a /\ k[s][h].node # b
    <3>1. k1[s][h] = k[s][h]
      <4>1. s = p => h # i
        BY <1>2, <2>3
      <4> QED BY <1>6, <1>7, <4>1 DEF k
    <3>2. m.kids[s][h] = k1[s][h]
      <4>1. s = q => h # j
        BY <1>2, <2>3
      <4> QED BY <1>1, <1>9, <1>10, <4>1 DEF k
    <3> QED BY <2>3, <3>1, <3>2 DEF Other
  <2> QED BY <2>1, <2>2, <2>3
<1> QED BY <1>11, <1>12, Zenon DEF Others, k

\* The order of children with two nodes exchanged.
LEMMA AheadOthers ==
  ASSUME NEW a, NEW b, NEW K \in Seq(KidRec), NEW R, Others(a, b, K, R), NEW c, NEW d,
         Ahead(NodeOf, K, c, d)
  PROVE  Ahead(NodeOf, R, Other(a, b, c), Other(a, b, d))
<1>1. PICK i, j \in 1 .. Len(K) : i < j /\ K[i].node = c /\ K[j].node = d
  BY KidsAhead
<1>2. R \in Seq(KidRec) /\ Len(R) = Len(K) /\ R[i].node = Other(a, b, c)
      /\ R[j].node = Other(a, b, d)
  BY <1>1 DEF Others
<1> HIDE DEF Other
<1> QED BY <1>1, <1>2, KidsAhead

\* m is l with a and b, neither of which is above the other, in each other's place.
Crosswise(l, a, b, m) ==
  /\ Grove(l, {l.root}, {}) /\ Grove(m, {m.root}, {})
  /\ a \in DOMAIN l.up /\ b \in DOMAIN l.up /\ l.up[a] # NoNode /\ l.up[b] # NoNode
  /\ a \notin Up(l.up, b) /\ b \notin Up(l.up, a)
  /\ DOMAIN m.up = DOMAIN l.up /\ m.up[a] = l.up[b] /\ m.up[b] = l.up[a]
  /\ \A n \in DOMAIN l.up : n # a /\ n # b => m.up[n] = l.up[n]
  /\ DOMAIN m.kids = DOMAIN l.kids
  /\ \A s \in DOMAIN l.kids : \A c, d :
       Ahead(NodeOf, l.kids[s], c, d) => Ahead(NodeOf, m.kids[s], Other(a, b, c), Other(a, b, d))

\* It is the same the other way around.
LEMMA CrosswiseToo ==
  ASSUME NEW l, NEW a, NEW b, NEW m, Crosswise(l, a, b, m)
  PROVE  Crosswise(l, b, a, m)
<1>1. \A c : Other(b, a, c) = Other(a, b, c)
  BY DEF Other
<1> HIDE DEF Other
<1>2. \A s \in DOMAIN l.kids : \A c, d :
        Ahead(NodeOf, l.kids[s], c, d) => Ahead(NodeOf, m.kids[s], Other(b, a, c), Other(b, a, d))
  BY <1>1 DEF Crosswise
<1> QED BY <1>2 DEF Crosswise

\* What is above the nodes after that: b took over what was above a, nodes below neither
\* keep what is above them and those below a keep what is above them up to a.
LEMMA CrosswiseUp ==
  ASSUME NEW l, NEW a, NEW b, NEW m, Crosswise(l, a, b, m)
  PROVE  LET u == l.up v == m.up IN
         /\ \A c \in Up(u, a) : Other(a, b, c) \in Up(v, b)
         /\ \A z \in DOMAIN u : a \notin Up(u, z) /\ b \notin Up(u, z)
              => \A c \in Up(u, z) : Other(a, b, c) = c /\ c \in Up(v, z)
         /\ \A x \in DOMAIN u : a \in Up(u, x)
              => /\ b \notin Up(u, x) /\ a \in Up(v, x)
                 /\ \A c \in Up(u, x) : c \notin Up(u, a) => Other(a, b, c) = c /\ c \in Up(v, x)
<1> DEFINE u == l.up v == m.up
<1>1. /\ Links(u) /\ Links(v)
      /\ a \in DOMAIN u /\ b \in DOMAIN u /\ u[a] # NoNode /\ u[b] # NoNode
      /\ a \notin Up(u, b) /\ b \notin Up(u, a)
      /\ DOMAIN v = DOMAIN u /\ v[a] = u[b] /\ v[b] = u[a]
      /\ \A n \in DOMAIN u : n # a /\ n # b => v[n] = u[n]
  BY GroveLinks DEF Crosswise
<1> HIDE DEF u, v
<1> DEFINE C == {a, b}
<1>2. \A x \in DOMAIN u : Up(u, x) \subseteq DOMAIN u /\ x \in Up(u, x) /\ x \in Up(v, x)
  BY <1>1, UpIsUpward
<1>3. \A x \in DOMAIN u : \A q \in Up(u, x) : q \notin C => v[q] = u[q]
  BY <1>1, <1>2
<1>4. ASSUME NEW z \in DOMAIN u, a \notin Up(u, z), b \notin Up(u, z), NEW c \in Up(u, z)
      PROVE  Other(a, b, c) = c /\ c \in Up(v, z)
  <2>1. \A q \in Up(u, z) \cap C : q = c \/ c \notin Up(u, q)
    BY <1>4
  <2>2. \A q \in Up(u, z) : q \notin C => v[q] = u[q]
    BY <1>3
  <2> HIDE DEF C
  <2>3. c \in Up(v, z)
    BY <1>1, <2>1, <2>2, UpUntil
  <2> QED BY <1>4, <2>3 DEF Other
<1>5. ASSUME NEW c \in Up(u, a) PROVE Other(a, b, c) \in Up(v, b)
  <2>1. CASE c = a
    BY <1>1, <1>2, <2>1 DEF Other
  <2>2. CASE c # a
    <3>1. /\ u[a] \in DOMAIN u /\ c \in Up(u, u[a]) /\ a \notin Up(u, u[a])
          /\ Up(u, u[a]) \subseteq Up(u, a)
      BY <1>1, <2>2, UpStep, UpNotBack
    <3>2. b \notin Up(u, u[a])
      BY <1>1, <3>1
    <3>3. Other(a, b, c) = c /\ c \in Up(v, u[a])
      BY <1>4, <3>1, <3>2
    <3>4. Up(v, v[b]) \subseteq Up(v, b)
      BY <1>1, UpStep
    <3> QED BY <1>1, <3>3, <3>4
  <2> QED BY <2>1, <2>2
<1>6. ASSUME NEW x \in DOMAIN u, a \in Up(u, x), NEW c \in Up(u, x), c = a \/ c \notin Up(u, a)
      PROVE  b \notin Up(u, x) /\ c \in Up(v, x) /\ (c # a => Other(a, b, c) = c)
  <2>1. b \notin Up(u, x)
    BY <1>1, <1>6, UpChain
  <2>2. \A q \in Up(u, x) \cap C : q = c \/ c \notin Up(u, q)
    BY <1>6, <2>1
  <2>3. \A q \in Up(u, x) : q \notin C => v[q] = u[q]
    BY <1>3
  <2> HIDE DEF C
  <2>4. c \in Up(v, x)
    BY <1>1, <1>6, <2>2, <2>3, UpUntil
  <2> QED BY <2>1, <2>4 DEF Other
<1>7. \A x \in DOMAIN u : a \in Up(u, x)
        => /\ b \notin Up(u, x) /\ a \in Up(v, x)
           /\ \A c \in Up(u, x) : c \notin Up(u, a) => Other(a, b, c) = c /\ c \in Up(v, x)
  BY <1>1, <1>2, <1>6
<1> QED BY <1>4, <1>5, <1>7 DEF u, v

\* The panes below a stay in order.
LEMMA CrosswiseKeeps ==
  ASSUME NEW l, NEW a, NEW b, NEW m, Crosswise(l, a, b, m), NEW T, T \subseteq PanesBelow(l, a)
  PROVE  Keeps(l, m, T)
<1> DEFINE u == l.up v == m.up
<1>1. /\ Grove(l, {l.root}, {}) /\ a \in DOMAIN u /\ DOMAIN m.kids = DOMAIN l.kids
      /\ \A s \in DOMAIN l.kids : \A c, d :
           Ahead(NodeOf, l.kids[s], c, d)
             => Ahead(NodeOf, m.kids[s], Other(a, b, c), Other(a, b, d))
  BY DEF Crosswise
<1>2. Links(u)
  BY <1>1, GroveLinks
<1>3. \A x \in DOMAIN u : a \in Up(u, x)
        => \A c \in Up(u, x) : c \notin Up(u, a) => Other(a, b, c) = c /\ c \in Up(v, x)
  BY CrosswiseUp
<1>4. \A x \in T : x \in DOMAIN u /\ a \in Up(u, x) /\ Up(u, a) \subseteq Up(u, x)
  BY <1>2, UpTransitive DEF PanesBelow
<1>5. ASSUME NEW x \in T, NEW y \in T, Left(l, x, y) PROVE Left(m, x, y)
  <2>1. PICK c \in Up(u, x), d \in Up(u, y) :
          /\ c # d /\ u[c] \in DOMAIN l.kids /\ u[d] = u[c] /\ u[c] # NoNode
          /\ Ahead(NodeOf, l.kids[u[c]], c, d)
    BY <1>1, <1>4, <1>5, LeftParts
  <2>2. c \notin Up(u, y) /\ d \notin Up(u, x)
    BY <1>2, <1>4, <2>1, UpOneChild
  <2>3. /\ Other(a, b, c) = c /\ c \in Up(v, x) /\ Other(a, b, d) = d /\ d \in Up(v, y)
    BY <1>3, <1>4, <2>1, <2>2
  <2>4. u[c] \in DOMAIN m.kids /\ Ahead(NodeOf, m.kids[u[c]], c, d)
    BY <1>1, <2>1, <2>3
  <2> QED BY <2>3, <2>4, Zenon DEF Left, v
<1> QED BY <1>5 DEF Keeps

\* The panes X and the panes Y are in each other's place among the others, Z.
TradedPlaces(l, X, Y, Z, m) ==
  \A x \in X, y \in Y :
    /\ Left(m, x, y) <=> Left(l, y, x)
    /\ \A z \in Z : /\ Left(m, x, z) <=> Left(l, y, z)
                    /\ Left(m, y, z) <=> Left(l, x, z)
Swapped(l, a, b, m) ==
  /\ \A T : T \subseteq PanesBelow(l, a) => Keeps(l, m, T)
  /\ \A T : T \subseteq PanesBelow(l, b) => Keeps(l, m, T)
  /\ \A T : T \subseteq (DOMAIN l.up \cap Pane) \ (PanesBelow(l, a) \cup PanesBelow(l, b))
              => Keeps(l, m, T)
  /\ TradedPlaces(l, PanesBelow(l, a), PanesBelow(l, b),
             (DOMAIN l.up \cap Pane) \ (PanesBelow(l, a) \cup PanesBelow(l, b)), m)

\* Nodes in each other's place take the panes below them along.
LEMMA CrosswiseSwaps ==
  ASSUME NEW l, NEW a, NEW b, NEW m, Crosswise(l, a, b, m)
  PROVE  Swapped(l, a, b, m)
<1> DEFINE u == l.up v == m.up
           X == PanesBelow(l, a) Y == PanesBelow(l, b) P == DOMAIN u \cap Pane Z == P \ (X \cup Y)
<1>1. /\ Grove(l, {l.root}, {}) /\ Grove(m, {m.root}, {}) /\ Links(u) /\ Links(v)
      /\ a \in DOMAIN u /\ b \in DOMAIN u /\ a \notin Up(u, b) /\ b \notin Up(u, a)
      /\ DOMAIN v = DOMAIN u /\ DOMAIN m.kids = DOMAIN l.kids
      /\ \A s \in DOMAIN l.kids : \A c, d :
           Ahead(NodeOf, l.kids[s], c, d)
             => Ahead(NodeOf, m.kids[s], Other(a, b, c), Other(a, b, d))
  BY GroveLinks DEF Crosswise
<1>2. Crosswise(l, b, a, m)
  BY CrosswiseToo
<1>3. \A c : Other(b, a, c) = Other(a, b, c)
  BY DEF Other
<1>4. Other(a, b, a) = b /\ Other(a, b, b) = a
  BY DEF Other
<1>5. /\ \A c \in Up(u, a) : Other(a, b, c) \in Up(v, b)
      /\ \A c \in Up(u, b) : Other(a, b, c) \in Up(v, a)
  <2>1. \A c \in Up(u, a) : Other(a, b, c) \in Up(v, b)
    BY CrosswiseUp
  <2>2. \A c \in Up(u, b) : Other(b, a, c) \in Up(v, a)
    BY <1>2, CrosswiseUp
  <2> QED BY <1>3, <2>1, <2>2
<1>6. \A z \in DOMAIN u : a \notin Up(u, z) /\ b \notin Up(u, z)
        => \A c \in Up(u, z) : Other(a, b, c) = c /\ c \in Up(v, z)
  BY CrosswiseUp
<1>7. /\ \A x \in DOMAIN u : a \in Up(u, x) => b \notin Up(u, x) /\ a \in Up(v, x)
      /\ \A y \in DOMAIN u : b \in Up(u, y) => a \notin Up(u, y) /\ b \in Up(v, y)
  BY <1>2, CrosswiseUp
<1>8. /\ \A x \in X : x \in P /\ a \in Up(u, x) /\ b \notin Up(u, x) /\ a \in Up(v, x)
      /\ \A y \in Y : y \in P /\ b \in Up(u, y) /\ a \notin Up(u, y) /\ b \in Up(v, y)
      /\ \A z \in Z : z \in P /\ a \notin Up(u, z) /\ b \notin Up(u, z)
  BY <1>7 DEF PanesBelow
<1>9. P \subseteq DOMAIN u /\ P \subseteq Pane
  OBVIOUS
<1> HIDE DEF X, Y, Z, P, u, v, Other
<1>10. \A z \in Z : \A c \in Up(u, z) : Other(a, b, c) = c /\ c \in Up(v, z)
  BY <1>6, <1>8, <1>9
<1>11. \A x \in DOMAIN u : x \in Up(u, x) /\ x \in Up(v, x)
  BY <1>1, UpIsUpward
\* Between the nodes a, b and those of Z.
<1>12. ASSUME NEW g, NEW h, NEW g2, NEW h2, Left(l, g, h),
              \A c \in Up(u, g) : Other(a, b, c) \in Up(v, g2),
              \A c \in Up(u, h) : Other(a, b, c) \in Up(v, h2)
       PROVE  Left(m, g2, h2)
  <2>1. PICK s \in DOMAIN l.kids, c \in Up(u, g), d \in Up(u, h) : Ahead(NodeOf, l.kids[s], c, d)
    BY <1>12 DEF Left, u
  <2>2. s \in DOMAIN m.kids /\ Ahead(NodeOf, m.kids[s], Other(a, b, c), Other(a, b, d))
    BY <1>1, <2>1
  <2>3. Other(a, b, c) \in Up(v, g2) /\ Other(a, b, d) \in Up(v, h2)
    BY <1>12, <2>1
  <2> QED BY <2>2, <2>3, Zenon DEF Left, v
<1>13. \A z \in Z : \A c \in Up(u, z) : Other(a, b, c) \in Up(v, z)
  BY <1>10
<1>14. \A g \in DOMAIN u, h \in DOMAIN u : \A x \in DOMAIN u, y \in DOMAIN u :
         g \in Up(v, x) /\ h \in Up(v, y) /\ Left(m, g, h) => Left(m, x, y)
  BY <1>1, LeftBelow DEF v
<1>15. \A x \in DOMAIN u, y \in DOMAIN u : \A g \in Up(u, x) : g \notin Up(u, y)
         => (Left(l, x, y) => Left(l, g, y)) /\ (Left(l, y, x) => Left(l, y, g))
  BY <1>1, LeftUp DEF u
<1>16. ASSUME NEW x \in X, NEW z \in Z, NEW y \in Y
       PROVE  /\ Left(l, x, z) => Left(m, y, z)
              /\ Left(l, z, x) => Left(m, z, y)
              /\ Left(l, y, z) => Left(m, x, z)
              /\ Left(l, z, y) => Left(m, z, x)
  <2>1. x \in DOMAIN u /\ y \in DOMAIN u /\ z \in DOMAIN u
    BY <1>8, <1>9
  <2>2. Left(l, x, z) => Left(l, a, z) /\ Left(m, b, z)
    BY <1>5, <1>8, <1>12, <1>13, <1>15, <2>1
  <2>3. Left(l, z, x) => Left(l, z, a) /\ Left(m, z, b)
    BY <1>5, <1>8, <1>12, <1>13, <1>15, <2>1
  <2>4. Left(l, y, z) => Left(l, b, z) /\ Left(m, a, z)
    BY <1>5, <1>8, <1>12, <1>13, <1>15, <2>1
  <2>5. Left(l, z, y) => Left(l, z, b) /\ Left(m, z, a)
    BY <1>5, <1>8, <1>12, <1>13, <1>15, <2>1
  <2>6. z \in Up(v, z) /\ a \in Up(v, x) /\ b \in Up(v, y)
    BY <1>8, <1>11, <2>1
  <2> QED BY <1>1, <1>14, <2>1, <2>2, <2>3, <2>4, <2>5, <2>6
<1>17. ASSUME NEW x \in X, NEW y \in Y
       PROVE  /\ Left(l, x, y) => Left(m, y, x)
              /\ Left(l, y, x) => Left(m, x, y)
  <2>1. x \in DOMAIN u /\ y \in DOMAIN u /\ a \in Up(v, x) /\ b \in Up(v, y)
    BY <1>8, <1>9
  <2>2. /\ Left(l, x, y) => Left(l, a, y)
        /\ Left(l, y, x) => Left(l, y, a)
    BY <1>8, <1>15, <2>1
  <2>3. /\ Left(l, a, y) => Left(l, a, b)
        /\ Left(l, y, a) => Left(l, b, a)
    BY <1>1, <1>8, <1>15, <2>1
  <2>4. /\ Left(l, a, b) => Left(m, b, a)
        /\ Left(l, b, a) => Left(m, a, b)
    BY <1>5, <1>12
  <2> QED BY <1>1, <1>14, <2>1, <2>2, <2>3, <2>4
<1>18. /\ \A f, g \in P : f # g => Left(l, f, g) \/ Left(l, g, f)
       /\ \A f, g \in P : Left(m, f, g) => ~Left(m, g, f)
  <2>1. \A f, g \in P : f # g => Left(l, f, g) \/ Left(l, g, f)
    BY <1>1, LeftInTree DEF P, u
  <2>2. \A f, g \in DOMAIN m.up : Left(m, f, g) => ~Left(m, g, f)
    BY <1>1, LeftOneWay
  <2> QED BY <1>1, <1>9, <2>1, <2>2 DEF v
<1>19. ASSUME NEW x \in X, NEW y \in Y PROVE x # y /\ \A z \in Z : x # z /\ y # z
  BY <1>8
<1>20. TradedPlaces(l, X, Y, Z, m)
  <2> SUFFICES ASSUME NEW x \in X, NEW y \in Y
               PROVE  /\ Left(m, x, y) <=> Left(l, y, x)
                      /\ \A z \in Z : /\ Left(m, x, z) <=> Left(l, y, z)
                                      /\ Left(m, y, z) <=> Left(l, x, z)
    BY DEF TradedPlaces
  <2>1. Left(m, x, y) <=> Left(l, y, x)
    BY <1>8, <1>17, <1>18, <1>19
  <2>2. ASSUME NEW z \in Z PROVE (Left(m, x, z) <=> Left(l, y, z)) /\ (Left(m, y, z) <=> Left(l, x, z))
    BY <1>8, <1>16, <1>18, <1>19
  <2> QED BY <2>1, <2>2
<1>21. \A T : T \subseteq X => Keeps(l, m, T)
  BY CrosswiseKeeps DEF X
<1>22. \A T : T \subseteq Y => Keeps(l, m, T)
  BY <1>2, CrosswiseKeeps DEF Y
<1>23. \A T : T \subseteq Z => Keeps(l, m, T)
  BY <1>12, <1>13 DEF Keeps
<1> QED BY <1>20, <1>21, <1>22, <1>23, Zenon DEF Swapped, X, Y, Z, P, u

-----------------------------------------------------------------------------
(* A swap *)

\* What was swapped stays so when the order is kept.
LEMMA SwappedKept ==
  ASSUME NEW l, NEW a, NEW b, NEW o, Swapped(l, a, b, o), NEW m,
         \A T : T \subseteq DOMAIN l.up \cap Pane => Keeps(o, m, T) /\ Keeps(m, o, T)
  PROVE  Swapped(l, a, b, m)
<1> DEFINE X == PanesBelow(l, a) Y == PanesBelow(l, b) P == DOMAIN l.up \cap Pane
           Z == P \ (X \cup Y)
<1>1. X \subseteq P /\ Y \subseteq P
  BY DEF PanesBelow
<1>2. /\ \A T : T \subseteq X => Keeps(l, o, T)
      /\ \A T : T \subseteq Y => Keeps(l, o, T)
      /\ \A T : T \subseteq Z => Keeps(l, o, T)
      /\ TradedPlaces(l, X, Y, Z, o)
  BY Zenon DEF Swapped
<1> HIDE DEF X, Y
<1>3. X \subseteq P /\ Y \subseteq P /\ Z \subseteq P
  BY <1>1
<1>4. \A f, g \in P : Left(o, f, g) <=> Left(m, f, g)
  <2>1. Keeps(o, m, P) /\ Keeps(m, o, P)
    OBVIOUS
  <2> HIDE DEF P
  <2> QED BY <2>1 DEF Keeps
<1> HIDE DEF P, Z
<1>5. TradedPlaces(l, X, Y, Z, m)
  <2>1. \A x \in X, y \in Y :
          /\ Left(o, x, y) <=> Left(l, y, x)
          /\ \A z \in Z : /\ Left(o, x, z) <=> Left(l, y, z)
                          /\ Left(o, y, z) <=> Left(l, x, z)
    BY <1>2 DEF TradedPlaces
  <2> QED BY <1>3, <1>4, <2>1 DEF TradedPlaces
<1>6. \A T : T \subseteq P => (Keeps(l, o, T) => Keeps(l, m, T))
  BY KeepsOn DEF P
<1>7. /\ \A T : T \subseteq X => Keeps(l, m, T)
      /\ \A T : T \subseteq Y => Keeps(l, m, T)
      /\ \A T : T \subseteq Z => Keeps(l, m, T)
  BY <1>2, <1>3, <1>6
<1> QED BY <1>5, <1>7, Zenon DEF Swapped, X, Y, Z, P

\* exchange_nodes
LEMMA ExchangeSwaps ==
  ASSUME NEW l, Grove(l, {l.root}, {}), NEW a \in DOMAIN l.up, NEW b \in DOMAIN l.up,
         Apart(l, a, b), NEW m, m = Exchanged(l, a, b)
  PROVE  Swapped(l, a, b, m)
<1> DEFINE u == l.up
<1>1. /\ Grove(m, {m.root}, {}) /\ DOMAIN m.kids = DOMAIN l.kids /\ m.up = Exchange(u, a, b)
      /\ u[a] \in DOMAIN l.kids /\ u[b] \in DOMAIN l.kids
  BY ExchangedGrove
<1>2. a # b /\ a \notin Up(u, b) /\ b \notin Up(u, a)
  BY ApartUp
<1>3. u[a] # NoNode /\ u[b] # NoNode
  <2>1. DOMAIN l.kids \subseteq DOMAIN u /\ NoNode \notin DOMAIN u
    BY GroveParts
  <2> QED BY <1>1, <2>1
<1>4. \A s \in DOMAIN l.kids : Others(a, b, l.kids[s], m.kids[s]) /\ l.kids[s] \in Seq(KidRec)
  BY <1>2, <1>3, ExchangedLists, GroveKids
<1>5. \A s \in DOMAIN l.kids : \A c, d :
        Ahead(NodeOf, l.kids[s], c, d) => Ahead(NodeOf, m.kids[s], Other(a, b, c), Other(a, b, d))
  BY <1>4, AheadOthers
<1>6. /\ DOMAIN m.up = DOMAIN u /\ m.up[a] = u[b] /\ m.up[b] = u[a]
      /\ \A n \in DOMAIN u : n # a /\ n # b => m.up[n] = u[n]
  BY <1>1, <1>2 DEF Exchange
<1>7. Crosswise(l, a, b, m)
  BY <1>1, <1>2, <1>3, <1>5, <1>6, Zenon DEF Crosswise
<1> QED BY <1>7, CrosswiseSwaps

\* PaneLayoutMover::swap puts the panes of each node in the place of the other's and leaves
\* the other panes in order.
THEOREM SwapSwaps ==
  ASSUME NEW l, Grove(l, {l.root}, {}), NEW a \in DOMAIN l.up, NEW b \in DOMAIN l.up,
         Apart(l, a, b), ~SwapThrows(l, a, b), NEW m, m = Swap(l, a, b)
  PROVE  Swapped(l, a, b, m)
<1> DEFINE e == Exchanged(l, a, b) p == l.up[a] q == l.up[b]
           once == Flatten(e, p)
           X == SameAxisKids(e, p)
           P == DOMAIN l.up \cap Pane
<1>1. /\ Grove(e, {e.root}, {}) /\ DOMAIN e.kids = DOMAIN l.kids
      /\ e.up = Exchange(l.up, a, b) /\ p \in DOMAIN l.kids /\ q \in DOMAIN l.kids
  BY ExchangedGrove
<1>2. Swapped(l, a, b, e)
  BY ExchangeSwaps
<1>3. DOMAIN e.up \cap Pane = P
  <2>1. DOMAIN e.up = DOMAIN l.up
    BY <1>1 DEF Exchange
  <2> HIDE DEF e
  <2> QED BY <2>1
<1>4. X = SameAxisKids(e, p) /\ once = Flatten(e, p) /\ q \notin X
  BY DEF SwapThrows
<1> HIDE DEF e, p, X, once
<1>5. /\ Grove(once, {e.root}, {}) /\ once.root = e.root /\ Nodes(once) = Nodes(e) \ X
      /\ X = {n \in Children(e.up, p) : n \in DOMAIN e.kids /\ e.axis[n] = e.axis[p]}
      /\ DOMAIN once.kids = DOMAIN e.kids \ X
  BY <1>1, <1>4, FlattenGrove
<1>6. \A T : T \subseteq DOMAIN e.up \cap Pane => Keeps(e, once, T) /\ Keeps(once, e, T)
  BY <1>1, <1>4, FlattenKeeps
<1> HIDE DEF P
<1>7. Swapped(l, a, b, once)
  BY <1>2, <1>3, <1>6, SwappedKept DEF P
<1>8. CASE p = q
  <2>1. m = once
    BY <1>8, Zenon DEF Swap, once, e, p, q
  <2> QED BY <1>7, <2>1
<1>9. CASE p # q
  <2>1. m = Flatten(once, q)
    BY <1>9, Zenon DEF Swap, once, e, p, q
  <2>2. q \in DOMAIN once.kids /\ Grove(once, {once.root}, {})
    BY <1>1, <1>4, <1>5
  <2>3. DOMAIN once.up \cap Pane = P
    <3>1. DOMAIN e.kids = DOMAIN e.up \cap Split
      BY <1>1, GroveParts
    <3>2. X \cap Pane = {}
      BY <1>5, <3>1, SplitAssumption
    <3>3. DOMAIN once.up = DOMAIN e.up \ X
      BY <1>5 DEF Nodes
    <3> QED BY <1>3, <3>2, <3>3
  <2> HIDE DEF q
  <2>4. \A T : T \subseteq DOMAIN once.up \cap Pane => Keeps(once, m, T) /\ Keeps(m, once, T)
    BY <2>1, <2>2, FlattenKeeps
  <2> QED BY <1>7, <2>3, <2>4, SwappedKept DEF P
<1> QED BY <1>8, <1>9

-----------------------------------------------------------------------------
(* The steps of the tray keep the order *)

\* The panes that were open before and after a step stand in the order they had.
Steady == Keeps(layout, layout', panes \cap panes')

\* No step changes the order by changing nothing.
LEMMA SameIsSteady ==
  ASSUME layout' = layout
  PROVE  Steady
  BY DEF Steady, Keeps

\* reap_exited_panes keeps the order of the panes it leaves, whichever it takes out first.
LEMMA DroppedKeeps ==
  ASSUME Tree(layout, panes), focused \in panes, NEW gone, NEW q \in panes, q \notin gone,
         NEW order, InARow(order, gone)
  PROVE  Keeps(layout, Dropped(order).layout, panes \ {order[i] : i \in 1 .. Len(order)})
<1> DEFINE n == Len(order) Rest(k) == panes \ {order[i] : i \in 1 .. k}
<1>1. /\ n \in Nat /\ \A i \in 1 .. n : order[i] \in gone \cap panes
      /\ \A i, j \in 1 .. n : i # j => order[i] # order[j]
  BY DEF InARow
<1>2. PICK f : /\ Drops(order, f, n) /\ Dropped(order) = f[n]
               /\ \A k \in 0 .. n : RestIsTree(order, f, k)
  BY DroppedTrees
<1> DEFINE Good(k) == Keeps(layout, f[k].layout, Rest(k))
           Bad == {k \in 0 .. n : ~Good(k)}
<1>3. \A i \in 0 .. n : f[i] = IF i = 0 THEN Start ELSE DropPane(f[i - 1], order[i])
  BY <1>2 DEF Drops
<1>4. Bad = {}
  <2> SUFFICES ASSUME Bad # {} PROVE FALSE
    OBVIOUS
  <2>1. PICK m \in Bad : \A k \in Bad : m <= k
    <3>1. Bad \subseteq Nat
      OBVIOUS
    <3> HIDE DEF Bad
    <3> QED BY <3>1, LeastElement
  <2>2. m # 0
    <3>1. f[0].layout = layout
      BY <1>1, <1>3 DEF Start
    <3>2. Good(0)
      BY <3>1 DEF Keeps
    <3> QED BY <3>2
  <2>3. m \in 1 .. n /\ m - 1 \in 0 .. n /\ ~(m <= m - 1)
    BY <2>2
  <2> DEFINE l == f[m - 1].layout p == order[m] live == Rest(m - 1) after == f[m].layout
  <2>4. Keeps(layout, l, live)
    BY <2>1, <2>3
  <2>5. Tree(l, live)
    BY <1>2, <2>3 DEF RestIsTree
  <2>6. after = RemoveLeaf(l, p)
    <3>1. f[m] = DropPane(f[m - 1], p)
      BY <1>3, <2>2, <2>3
    <3>2. DropPane(f[m - 1], p).layout = RemoveLeaf(f[m - 1].layout, p)
      BY DEF DropPane
    <3> QED BY <3>1, <3>2
  <2>7. p \in live /\ q \in live /\ q # p /\ Rest(m) = live \ {p}
    <3>1. \A i \in 1 .. n : i \in 1 .. (m - 1) => i # m
      BY <2>3
    <3>2. \A i \in 1 .. (m - 1) : i \in 1 .. n /\ i \in 1 .. m
      BY <2>3
    <3>3. \A i \in 1 .. m : i \in 1 .. (m - 1) \/ i = m
      BY <2>3
    <3>4. m \in 1 .. n
      BY <2>3
    <3>5. p \in live /\ q \in live /\ q # p
      BY <1>1, <3>1, <3>2, <3>4
    <3>6. {order[i] : i \in 1 .. m} = {order[i] : i \in 1 .. (m - 1)} \cup {p}
      BY <3>2, <3>3, <3>4
    <3> QED BY <3>5, <3>6
  <2> HIDE DEF l, p, live, after, Rest
  <2>8. Grove(l, {l.root}, {}) /\ Nodes(l) = DOMAIN l.up /\ Nodes(l) \cap Pane = live
    BY <2>5, GroveParts DEF Tree
  <2>9. l.up[p] # NoNode
    BY <2>5, <2>7, LonePane
  <2>10. \A S : S \subseteq (DOMAIN l.up \cap Pane) \ {p} => Keeps(l, after, S)
    <3>1. p \in DOMAIN l.up /\ p \in Pane
      BY <2>7, <2>8
    <3> QED BY <2>6, <2>8, <2>9, <3>1, RemoveLeafKeeps
  <2>11. Keeps(l, after, live \ {p})
    BY <2>8, <2>10
  <2>12. Keeps(layout, l, live \ {p})
    <3>1. live \ {p} \subseteq live
      OBVIOUS
    <3> QED BY <2>4, <3>1, KeepsFewer
  <2>13. Keeps(layout, after, live \ {p})
    BY <2>11, <2>12, KeepsOn
  <2>14. Good(m)
    BY <2>7, <2>13 DEF after
  <2> QED BY <2>1, <2>14
<1>5. Good(n)
  <2>1. n \in 0 .. n
    BY <1>1
  <2> HIDE DEF Good
  <2> QED BY <1>4, <2>1
<1> QED BY <1>2, <1>5

\* What a tray takes on.
LEMMA Arranged ==
  ASSUME NEW l, NEW live, NEW foc, NEW max, NEW sz, Arrange(l, live, foc, max, sz)
  PROVE  layout' = l /\ panes' = live
<1>1. layout' = l /\ ptySize' = PtySizes(l, live, foc, max, sz)
  BY DEF Arrange
<1>2. DOMAIN PtySizes(l, live, foc, max, sz) = live
  BY DEF PtySizes
<1> QED BY <1>1, <1>2 DEF panes

\* split_focused_pane
LEMMA SplitSteady ==
  ASSUME SplitsNeverRunOut, Settled, NEW axis \in Axis, SplitFocused(axis)
  PROVE  Steady
<1>1. PICK p \in Pane \ panes :
        Arrange(SplitLeaf(layout, focused, axis, p, "AFTER"), panes \cup {p}, p, FALSE, size)
  BY DEF SplitFocused
<1> DEFINE m == SplitLeaf(layout, focused, axis, p, "AFTER")
<1>2. layout' = m
  BY <1>1, Arranged
<1>3. /\ Grove(layout, {layout.root}, {}) /\ Nodes(layout) \cap Pane = panes
      /\ Nodes(layout) = DOMAIN layout.up /\ focused \in DOMAIN layout.up
  BY SettledParts
<1>4. p \in Pane /\ p \notin DOMAIN layout.up
  BY <1>3
<1>5. \A S : S \subseteq DOMAIN layout.up \cap Pane => Keeps(layout, m, S)
  BY <1>3, <1>4, SplitLeafKeeps
<1> HIDE DEF m
<1>6. panes \cap panes' \subseteq DOMAIN layout.up \cap Pane
  BY <1>3
<1> QED BY <1>2, <1>5, <1>6 DEF Steady

\* close_focused_pane
LEMMA CloseSteady ==
  ASSUME Settled, CloseFocused
  PROVE  Steady
<1> DEFINE m == RemoveLeaf(layout, focused)
<1>1. /\ Cardinality(panes) > 1
      /\ Arrange(m, panes \ {focused}, NextFocus(layout, focused), FALSE, size)
  BY DEF CloseFocused
<1>2. layout' = m /\ panes' = panes \ {focused}
  BY <1>1, Arranged
<1>3. /\ Grove(layout, {layout.root}, {}) /\ Nodes(layout) \cap Pane = panes
      /\ Nodes(layout) = DOMAIN layout.up /\ focused \in DOMAIN layout.up
      /\ focused \in panes /\ focused \in Pane /\ Tree(layout, panes)
  BY SettledParts DEF Settled
<1>4. layout.up[focused] # NoNode
  <2>1. panes # {focused}
    <3>1. Cardinality({focused}) = 1
      BY FS_Singleton
    <3> QED BY <1>1, <3>1
  <2> QED BY <1>3, <2>1, LonePane
<1>5. \A S : S \subseteq (DOMAIN layout.up \cap Pane) \ {focused} => Keeps(layout, m, S)
  BY <1>3, <1>4, RemoveLeafKeeps
<1> HIDE DEF m
<1>6. panes \cap panes' \subseteq (DOMAIN layout.up \cap Pane) \ {focused}
  BY <1>2, <1>3
<1> QED BY <1>2, <1>5, <1>6 DEF Steady

\* A list of all of a finite set.
LEMMA OrderInARow ==
  ASSUME Settled, NEW gone \in SUBSET panes, NEW order \in SetToSeqs(gone)
  PROVE  InARow(order, gone) /\ ToSet(order) = {order[i] : i \in 1 .. Len(order)}
<1>1. IsFiniteSet(panes)
  BY SettledParts
<1>2. Cardinality(gone) \in Nat
  BY <1>1, FS_Subset, FS_CardinalityType
<1>3. /\ order \in [1 .. Cardinality(gone) -> gone]
      /\ \A i, j \in 1 .. Cardinality(gone) : i # j => order[i] # order[j]
  BY DEF SetToSeqs
<1>4. Len(order) = Cardinality(gone) /\ DOMAIN order = 1 .. Len(order)
  <2>1. order \in Seq(gone) /\ Len(order) = Cardinality(gone)
    BY <1>2, <1>3, ListOf
  <2> QED BY <1>3, <2>1
<1>5. Len(order) \in Nat /\ \A i \in 1 .. Len(order) : order[i] \in gone \cap panes
  BY <1>2, <1>3, <1>4
<1> QED BY <1>3, <1>4, <1>5 DEF InARow, ToSet

\* reap_exited_panes
LEMMA ReapSteady ==
  ASSUME Settled, NEW gone \in SUBSET panes, gone # panes, NEW order \in SetToSeqs(gone),
         Reap(order)
  PROVE  Steady
<1> DEFINE after == Dropped(order) out == ToSet(order)
<1>1. layout' = after.layout /\ panes' = panes \ out
  BY Arranged DEF Reap, ArrangeRest
<1>2. InARow(order, gone) /\ out = {order[i] : i \in 1 .. Len(order)}
  BY OrderInARow
<1>3. PICK q \in panes : q \notin gone
  OBVIOUS
<1>4. Tree(layout, panes) /\ focused \in panes
  BY DEF Settled
<1>5. Keeps(layout, after.layout, panes \ {order[i] : i \in 1 .. Len(order)})
  BY <1>2, <1>3, <1>4, DroppedKeeps
<1> HIDE DEF after, out
<1>6. panes \cap panes' = panes \ {order[i] : i \in 1 .. Len(order)}
  BY <1>1, <1>2
<1> QED BY <1>1, <1>5, <1>6 DEF Steady

\* resize_selected_panes and equalize_selected_panes
LEMMA ReshareSteady ==
  ASSUME Settled, NEW l, SameTree(layout, l), Reshare(l)
  PROVE  Steady
<1>1. layout' = l \/ layout' = layout
  BY Arranged DEF Reshare, NoChange
<1>2. \A S : Keeps(layout, l, S)
  BY SettledParts, SameTreeKeeps
<1> QED BY <1>1, <1>2, SameIsSteady DEF Steady

\* Resizing keeps the order.
LEMMA ResizeSteady ==
  ASSUME Settled, Picked, NEW delta \in Int, ResizeSelected(delta)
  PROVE  Steady
<1> DEFINE l == Resize(layout, SelectionOrFocused, delta)
<1>1. SameTree(layout, l)
  BY SettledParts, SelectedIsSel, ResizeSame
<1>2. Reshare(l)
  BY DEF ResizeSelected
<1> HIDE DEF l
<1> QED BY <1>1, <1>2, ReshareSteady

\* Equalizing keeps the order.
LEMMA EqualizeSteady ==
  ASSUME Settled, Picked, Equalize
  PROVE  Steady
<1> DEFINE l == IF selection # None THEN EqualizeSelection(layout, selection)
                ELSE EqualizeLevel(layout, SelectionOrFocused)
<1>1. Grove(layout, {layout.root}, {}) /\ SelOK(layout, SelectionOrFocused)
  BY SettledParts, SelectedIsSel
<1>2. SameTree(layout, l)
  <2>1. SameTree(layout, EqualizeLevel(layout, SelectionOrFocused))
    BY <1>1, EqualizeSame
  <2>2. selection # None => SameTree(layout, EqualizeSelection(layout, selection))
    BY <1>1, EqualizeSame DEF Picked
  <2> QED BY <2>1, <2>2
<1>3. Reshare(l)
  BY DEF Equalize
<1> HIDE DEF l
<1> QED BY <1>2, <1>3, ReshareSteady

\* rotate_selected_pane_level
LEMMA RotateSteady ==
  ASSUME SplitsNeverRunOut, Settled, Picked, Rotate
  PROVE  Steady
<1> DEFINE sel == SelectionOrFocused rotated == RotateLevel(layout, sel) m == rotated.layout
<1>1. layout' = m \/ layout' = layout
  <2>1. Rearrange(rotated)
    BY DEF Rotate
  <2> HIDE DEF rotated
  <2>2. CASE rotated.changed
    BY <2>1, <2>2, Arranged DEF Rearrange
  <2>3. CASE ~rotated.changed
    BY <2>1, <2>3 DEF Rearrange, NoChange
  <2> QED BY <2>2, <2>3
<1>2. /\ Grove(layout, {layout.root}, {}) /\ SelOK(layout, sel)
      /\ Nodes(layout) \cap Pane = panes /\ Nodes(layout) = DOMAIN layout.up
  BY SettledParts, SelectedIsSel
<1>3. \A S : S \subseteq DOMAIN layout.up \cap Pane => Keeps(layout, m, S)
  BY <1>2, RotateLevelKeeps
<1> HIDE DEF m
<1>4. panes \cap panes' \subseteq DOMAIN layout.up \cap Pane
  BY <1>2
<1> QED BY <1>1, <1>3, <1>4, SameIsSteady DEF Steady

\* Every other command leaves the layout.
LEMMA OthersSteady ==
  ASSUME \/ \E direction : \/ FocusDirection(direction) \/ StepSelection(direction)
                           \/ StepTarget(direction) \/ SetDrop(direction)
         \/ \E sz : ResizeTray(sz)
         \/ ReapAll \/ ToggleMaximized \/ ToggleSelection \/ PromoteSelection
         \/ DescendSelection \/ ToggleMove \/ PromoteTarget \/ DescendTarget
         \/ ToggleSwap \/ LockTarget \/ Fail \/ Stopped \/ UNCHANGED vars
  PROVE  layout' = layout
<1>1. Restore \/ NoChange => layout' = layout
  BY Arranged DEF Restore, NoChange
<1>2. \A n, s : SetTarget(n) \/ SetSession(s) => layout' = layout
  BY <1>1 DEF SetTarget, SetSession
<1>3. \A direction : FocusDirection(direction) => layout' = layout
  <2> SUFFICES ASSUME NEW direction, FocusDirection(direction) PROVE layout' = layout
    OBVIOUS
  <2>1. FocusPane(Neighbour(layout, size, focused, direction))
    BY DEF FocusDirection
  <2> QED BY <2>1, Arranged DEF FocusPane
<1>4. ASSUME NEW direction, StepSelection(direction) PROVE layout' = layout
  BY <1>1, <1>4 DEF StepSelection
<1>5. ASSUME NEW direction, StepTarget(direction) \/ SetDrop(direction) PROVE layout' = layout
  BY <1>2, <1>5 DEF StepTarget, SetDrop
<1>6. ASSUME NEW sz, ResizeTray(sz) PROVE layout' = layout
  BY <1>6, Arranged DEF ResizeTray
<1>7. CASE ReapAll \/ Fail \/ Stopped \/ UNCHANGED vars
  BY <1>7 DEF ReapAll, Fail, Stopped, vars
<1>8. CASE ToggleMaximized
  BY <1>8, Arranged DEF ToggleMaximized
<1>9. CASE ToggleSelection
  BY <1>1, <1>9 DEF ToggleSelection
<1>10. CASE PromoteSelection \/ DescendSelection
  BY <1>1, <1>10 DEF PromoteSelection, DescendSelection
<1>11. CASE ToggleMove
  BY <1>1, <1>11 DEF ToggleMove
<1>12. CASE PromoteTarget
  BY <1>2, <1>12 DEF PromoteTarget
<1>13. CASE DescendTarget
  BY <1>2, <1>13 DEF DescendTarget
<1>14. CASE ToggleSwap \/ LockTarget
  BY <1>2, <1>14 DEF ToggleSwap, LockTarget
<1> QED BY <1>3, <1>4, <1>5, <1>6, <1>7, <1>8, <1>9, <1>10, <1>11, <1>12, <1>13, <1>14

\* What hangs below one node.
LEMMA UnderOne ==
  ASSUME NEW l, NEW a
  PROVE  PanesUnder(l, {a}) = PanesBelow(l, a)
  BY DEF PanesUnder, PanesBelow

\* The panes of a move's source and of its target are those below their nodes.
LEMMA SourceIsBelow ==
  ASSUME Settled, Moving, session # None
  PROVE  SourcePanes = PanesUnder(layout, ToSet(session.source.nodes))
<1> DEFINE l == layout N == ToSet(session.source.nodes)
<1>1. Grove(l, {l.root}, {}) /\ N \subseteq DOMAIN l.up
  BY SettledParts, SelParts DEF Moving, SessionOK
<1>2. \A n \in N : ToSet(LeavesFrom(l, n)) = PanesBelow(l, n)
  BY <1>1, LeavesBelow
<1>3. SourcePanes = UNION {PanesBelow(l, n) : n \in N}
  BY <1>2 DEF SourcePanes
<1> HIDE DEF l, N
<1>4. UNION {PanesBelow(l, n) : n \in N} = PanesUnder(l, N)
  <2>1. ASSUME NEW x \in PanesUnder(l, N) PROVE \E n \in N : x \in PanesBelow(l, n)
    BY DEF PanesUnder, PanesBelow
  <2>2. ASSUME NEW n \in N, NEW x \in PanesBelow(l, n) PROVE x \in PanesUnder(l, N)
    BY DEF PanesUnder, PanesBelow
  <2> QED BY <2>1, <2>2
<1> QED BY <1>3, <1>4 DEF l, N

\* The target's panes are those below it.
LEMMA TargetIsBelow ==
  ASSUME Settled, Moving, session # None, session.target # None
  PROVE  TargetPanes = PanesBelow(layout, session.target)
<1>1. Grove(layout, {layout.root}, {}) /\ session.target \in DOMAIN layout.up
  BY SettledParts DEF Moving, SessionOK
<1> QED BY <1>1, LeavesBelow DEF TargetPanes

\* What confirming does to the layout l: a swap, or a move.
Confirmed(l, s, m) ==
  IF s.operation = "SWAP" THEN Swapped(l, s.source.nodes[1], s.target, m)
  ELSE Moved(l, ToSet(s.source.nodes), s.target, DropInsertion(s.drop) = "BEFORE", m)

\* advance_pane_move swaps two nodes or moves the source to the target.
LEMMA ConfirmIs ==
  ASSUME SplitsNeverRunOut, Settled, Moving, MoveHasWhatItNeeds, ConfirmMove
  PROVE  /\ session # None /\ session.target # None /\ panes' = panes
         /\ session.operation = "SWAP" => SwapPending
         /\ SwapPending => session.operation = "SWAP"
         /\ session.operation = "SWAP" => ToSet(session.source.nodes) = {session.source.nodes[1]}
         /\ Confirmed(layout, session, layout')
<1>1. HasPreview /\ ~PreviewThrows /\ Arrange(Preview, panes, focused, FALSE, size)
  BY DEF ConfirmMove
<1> DEFINE sel == session.source t == session.target
<1>2. Grove(layout, {layout.root}, {})
  BY SettledParts
<1>3. session # None /\ t # None
  BY <1>1 DEF HasPreview, SwapPending, DropPending, MoveHasWhatItNeeds
<1>4. SelOK(layout, sel) /\ t \in DOMAIN layout.up
      /\ \A n \in ToSet(sel.nodes) : Apart(layout, n, t)
  BY <1>3 DEF Moving, SessionOK
<1>5. layout' = Preview /\ panes' = panes
  BY <1>1, Arranged
<1>6. session.operation = "SWAP" <=> SwapPending
  BY <1>3 DEF SwapPending
<1>7. session.operation = "SWAP" => Len(sel.nodes) = 1
  BY <1>3 DEF MoveHasWhatItNeeds
<1>8. /\ sel.nodes[1] \in ToSet(sel.nodes) /\ ToSet(sel.nodes) \subseteq DOMAIN layout.up
      /\ Len(sel.nodes) = 1 => ToSet(sel.nodes) = {sel.nodes[1]}
  BY <1>2, <1>4, SelParts
<1>9. Confirmed(layout, session, layout')
  <2>1. CASE SwapPending
    <3> DEFINE a == sel.nodes[1] m == Swap(layout, a, t)
    <3>1. Preview = m /\ ~SwapThrows(layout, a, t)
      BY <1>1, <2>1 DEF Preview, PreviewThrows
    <3>2. Swapped(layout, a, t, m)
      BY <1>2, <1>4, <1>8, <3>1, SwapSwaps
    <3> HIDE DEF m
    <3> QED BY <1>5, <1>6, <2>1, <3>1, <3>2 DEF Confirmed
  <2>2. CASE ~SwapPending
    <3> DEFINE m == Move(layout, sel, t, session.drop)
    <3>1. Preview = m
      BY <2>2 DEF Preview
    <3>2. Moved(layout, ToSet(sel.nodes), t, DropInsertion(session.drop) = "BEFORE", m)
      BY <1>2, <1>4, MoveMoves, Zenon
    <3> HIDE DEF m
    <3>3. Moved(layout, ToSet(sel.nodes), t, DropInsertion(session.drop) = "BEFORE", layout')
      BY <1>5, <3>1, <3>2, Zenon
    <3> QED BY <1>6, <2>2, <3>3, Zenon DEF Confirmed
  <2> QED BY <2>1, <2>2
<1> HIDE DEF sel, t
<1>10. ToSet(session.source.nodes) = {session.source.nodes[1]} \/ session.operation # "SWAP"
  BY <1>7, <1>8 DEF sel
<1>11. session.target # None
  BY <1>3 DEF t
<1> QED BY <1>3, <1>5, <1>6, <1>9, <1>10, <1>11

\* The panes that a step neither opens, closes, moves nor swaps stay in order.
OrderKept == Keeps(layout, layout', Untouched)

\* Confirming a move or a swap leaves the order of the panes it does not touch.
LEMMA ConfirmSteady ==
  ASSUME SplitsNeverRunOut, Settled, Moving, MoveHasWhatItNeeds, ConfirmMove
  PROVE  Keeps(layout, layout', Untouched)
<1> DEFINE a == session.source.nodes[1] N == ToSet(session.source.nodes) t == session.target
<1>1. session # None /\ t # None /\ panes' = panes /\ Confirmed(layout, session, layout')
  BY ConfirmIs
<1>2. SourcePanes = PanesUnder(layout, N) /\ TargetPanes = PanesBelow(layout, t)
  BY <1>1, SourceIsBelow, TargetIsBelow
<1>3. panes = DOMAIN layout.up \cap Pane
  BY SettledParts
<1>4. CASE session.operation = "SWAP"
  <2>1. SwapPending /\ N = {a}
    BY <1>4, ConfirmIs
  <2>2. SourcePanes = PanesBelow(layout, a)
    BY <1>2, <2>1, UnderOne
  <2>3. Swapped(layout, a, t, layout')
    BY <1>1, <1>4 DEF Confirmed
  <2> HIDE DEF a, t, N
  <2>4. Untouched \subseteq
          (DOMAIN layout.up \cap Pane) \ (PanesBelow(layout, a) \cup PanesBelow(layout, t))
    BY <1>1, <1>2, <1>3, <2>1, <2>2 DEF Untouched
  <2> QED BY <2>3, <2>4 DEF Swapped
<1>5. CASE session.operation # "SWAP"
  <2> DEFINE first == DropInsertion(session.drop) = "BEFORE"
  <2>1. Moved(layout, N, t, first, layout')
    BY <1>1, <1>5, Zenon DEF Confirmed
  <2>2. \A T : T \subseteq (DOMAIN layout.up \cap Pane) \ PanesUnder(layout, N)
                 => Keeps(layout, layout', T)
    BY <2>1, Zenon DEF Moved
  <2> HIDE DEF t, N
  <2>3. Untouched \subseteq (DOMAIN layout.up \cap Pane) \ PanesUnder(layout, N)
    BY <1>1, <1>2, <1>3 DEF Untouched
  <2> QED BY <2>2, <2>3
<1> QED BY <1>4, <1>5

\* Whatever a step does, the panes it neither opens, closes, moves nor swaps stay in order.
LEMMA StepSteady ==
  ASSUME SplitsNeverRunOut, TreeInv, PanesInv, [Next]_vars
  PROVE  OrderKept
<1>1. Settled /\ Picked /\ Moving /\ MoveHasWhatItNeeds
  BY DEF TreeInv, PanesInv
<1>2. Steady => OrderKept
  <2>1. Untouched \subseteq panes \cap panes'
    BY DEF Untouched, panes
  <2> QED BY <2>1, KeepsFewer DEF Steady, OrderKept
<1>3. CASE ConfirmMove
  BY <1>1, <1>3, ConfirmSteady DEF OrderKept
<1>4. ASSUME NEW axis \in Axis, SplitFocused(axis) PROVE OrderKept
  BY <1>1, <1>2, <1>4, SplitSteady
<1>5. CASE CloseFocused
  BY <1>1, <1>2, <1>5, CloseSteady
<1>6. ASSUME NEW gone \in (SUBSET panes) \ {{}, panes}, NEW order \in SetToSeqs(gone), Reap(order)
      PROVE  OrderKept
  <2>1. gone \in SUBSET panes /\ gone # panes
    BY <1>6
  <2> QED BY <1>1, <1>2, <1>6, <2>1, ReapSteady
<1>7. ASSUME NEW delta \in {Step, -Step}, ResizeSelected(delta) PROVE OrderKept
  <2>1. delta \in Int
    BY StepAssumption, FullAssumption
  <2> QED BY <1>1, <1>2, <1>7, <2>1, ResizeSteady
<1>8. CASE Equalize
  BY <1>1, <1>2, <1>8, EqualizeSteady
<1>9. CASE Rotate
  BY <1>1, <1>2, <1>9, RotateSteady
<1>10. ASSUME NEW direction \in Direction,
              \/ FocusDirection(direction) \/ StepSelection(direction)
              \/ StepTarget(direction) \/ SetDrop(direction)
       PROVE  OrderKept
  BY <1>2, <1>10, OthersSteady, SameIsSteady
<1>11. ASSUME NEW sz \in Sizes, ResizeTray(sz) PROVE OrderKept
  BY <1>2, <1>11, OthersSteady, SameIsSteady
<1>12. CASE \/ ReapAll \/ ToggleMaximized \/ ToggleSelection \/ PromoteSelection
            \/ DescendSelection \/ ToggleMove \/ PromoteTarget \/ DescendTarget
            \/ ToggleSwap \/ LockTarget \/ Fail \/ Stopped \/ UNCHANGED vars
  BY <1>2, <1>12, OthersSteady, SameIsSteady
<1> QED BY <1>3, <1>4, <1>5, <1>6, <1>7, <1>8, <1>9, <1>10, <1>11, <1>12 DEF Next

-----------------------------------------------------------------------------
(* The order between two steps *)

\* The lists of leaves before and after a step.
LEMMA ListsOfSteps ==
  ASSUME Settled, Settled'
  PROVE  /\ Grove(layout, {layout.root}, {}) /\ Grove(layout', {layout'.root}, {})
         /\ Nodes(layout) \cap Pane = panes /\ Nodes(layout') \cap Pane = panes'
         /\ \A x, y \in panes : Precedes(Leaves(layout), x, y) <=> Left(layout, x, y)
         /\ \A x, y \in panes' : Precedes(Leaves(layout'), x, y) <=> Left(layout', x, y)
         /\ \A S : S \subseteq panes \cap panes' /\ Keeps(layout, layout', S)
                     => SameOrder(Leaves(layout), Leaves(layout'), S)
<1>1. /\ Grove(layout, {layout.root}, {}) /\ Grove(layout', {layout'.root}, {})
      /\ Nodes(layout) \cap Pane = panes /\ Nodes(layout') \cap Pane = panes'
  BY DEF Settled, Tree
<1>2. \A x, y \in panes : Precedes(Leaves(layout), x, y) <=> Left(layout, x, y)
  <2> SUFFICES ASSUME NEW x \in Nodes(layout) \cap Pane, NEW y \in Nodes(layout) \cap Pane
               PROVE  Precedes(Leaves(layout), x, y) <=> Left(layout, x, y)
    BY <1>1
  <2> QED BY <1>1, LeavesPrecede
<1>3. \A x, y \in panes' : Precedes(Leaves(layout'), x, y) <=> Left(layout', x, y)
  <2> SUFFICES ASSUME NEW x \in Nodes(layout') \cap Pane, NEW y \in Nodes(layout') \cap Pane
               PROVE  Precedes(Leaves(layout'), x, y) <=> Left(layout', x, y)
    BY <1>1
  <2> QED BY <1>1, LeavesPrecede
<1>4. ASSUME NEW S, S \subseteq panes \cap panes', Keeps(layout, layout', S)
      PROVE  SameOrder(Leaves(layout), Leaves(layout'), S)
  <2>1. S \subseteq Nodes(layout) \cap Nodes(layout') \cap Pane
    BY <1>1, <1>4
  <2> QED BY <1>1, <1>4, <2>1, LeavesKept
<1> QED BY <1>1, <1>2, <1>3, <1>4

\* The order of the panes a step neither opens, closes, moves nor swaps stays what it was,
\* whatever the layout and however many panes it has (tray.cc, pane_layout.cc).
THEOREM OrderStaysKept ==
  ASSUME SplitsNeverRunOut
  PROVE  Spec => OthersKeepTheirOrder
<1>1. TreeInv /\ TreeInv' /\ PanesInv /\ [Next]_vars
        => SameOrder(Leaves(layout), Leaves(layout'), Untouched)
  <2> SUFFICES ASSUME TreeInv, TreeInv', PanesInv, [Next]_vars
               PROVE  SameOrder(Leaves(layout), Leaves(layout'), Untouched)
    OBVIOUS
  <2>1. Keeps(layout, layout', Untouched)
    BY StepSteady DEF OrderKept
  <2>2. Untouched \subseteq panes \cap panes'
    BY DEF Untouched, panes
  <2>3. Settled /\ Settled'
    BY DEF TreeInv
  <2> QED BY <2>1, <2>2, <2>3, ListsOfSteps
<1>2. TreeInv /\ TreeInv' /\ PanesInv /\ [Next]_vars
        => [layout' # layout => SameOrder(Leaves(layout), Leaves(layout'), Untouched)]_vars
  BY <1>1
<1> QED BY TreeStaysSound, PanesStayInOrder, <1>2, PTL DEF Spec, OthersKeepTheirOrder

\* Where confirming a swap puts the panes of its two ends.
LEMMA SwapLands ==
  ASSUME SplitsNeverRunOut, Settled, Moving, MoveHasWhatItNeeds, ConfirmMove, Settled',
         session.operation = "SWAP"
  PROVE  Lands
<1> DEFINE a == session.source.nodes[1] t == session.target m == layout'
           X == PanesBelow(layout, a) Y == PanesBelow(layout, t) Z == panes \ (X \cup Y)
           before == Leaves(layout) after == Leaves(m)
<1>1. /\ session # None /\ t # None /\ panes' = panes /\ Confirmed(layout, session, m)
      /\ ToSet(session.source.nodes) = {a}
  BY ConfirmIs
<1>2. SourcePanes = X /\ TargetPanes = Y
  BY <1>1, SourceIsBelow, TargetIsBelow, UnderOne
<1>3. Swapped(layout, a, t, m)
  BY <1>1 DEF Confirmed
<1>4. panes = DOMAIN layout.up \cap Pane
  BY SettledParts
<1>5. X \subseteq panes /\ Y \subseteq panes /\ Z \subseteq panes
  BY <1>4 DEF PanesBelow
<1>6. /\ Keeps(layout, m, X) /\ Keeps(layout, m, Y) /\ Keeps(layout, m, Z)
      /\ TradedPlaces(layout, X, Y, Z, m)
  BY <1>3, <1>4 DEF Swapped
<1> HIDE DEF X, Y, Z, a, t
<1>7. /\ \A x, y \in panes : Precedes(before, x, y) <=> Left(layout, x, y)
      /\ \A x, y \in panes : Precedes(after, x, y) <=> Left(m, x, y)
      /\ \A S : S \subseteq panes /\ Keeps(layout, m, S) => SameOrder(before, after, S)
  BY <1>1, ListsOfSteps
<1> HIDE DEF m, before, after
<1>8. \A group \in {X, Y, Z} : SameOrder(before, after, group)
  BY <1>5, <1>6, <1>7
<1>9. ASSUME NEW p \in X, NEW q \in Y
      PROVE  /\ Precedes(after, p, q) <=> Precedes(before, q, p)
             /\ \A z \in Z : /\ Precedes(after, p, z) <=> Precedes(before, q, z)
                             /\ Precedes(after, q, z) <=> Precedes(before, p, z)
  <2>1. /\ Left(m, p, q) <=> Left(layout, q, p)
        /\ \A z \in Z : /\ Left(m, p, z) <=> Left(layout, q, z)
                        /\ Left(m, q, z) <=> Left(layout, p, z)
    BY <1>6 DEF TradedPlaces
  <2>2. p \in panes /\ q \in panes /\ \A z \in Z : z \in panes
    BY <1>5
  <2> QED BY <1>7, <2>1, <2>2
<1>10. panes \ (SourcePanes \cup TargetPanes) = Z
  BY <1>2 DEF Z
<1> QED BY <1>2, <1>8, <1>9, <1>10 DEF Lands, before, after, m

\* Where confirming a move puts the panes of its source.
LEMMA MoveLands ==
  ASSUME SplitsNeverRunOut, Settled, Moving, MoveHasWhatItNeeds, ConfirmMove, Settled',
         session.operation # "SWAP"
  PROVE  Lands
<1> DEFINE N == ToSet(session.source.nodes) t == session.target m == layout'
           insertion == DropInsertion(session.drop)
           X == PanesUnder(layout, N) Y == PanesBelow(layout, t) Z == panes \ (X \cup Y)
           before == Leaves(layout) after == Leaves(m)
<1>1. session # None /\ t # None /\ panes' = panes /\ Confirmed(layout, session, m)
  BY ConfirmIs
<1>2. SourcePanes = X /\ TargetPanes = Y
  BY <1>1, SourceIsBelow, TargetIsBelow
<1>3. Moved(layout, N, t, insertion = "BEFORE", m)
  BY <1>1, Zenon DEF Confirmed
<1>4. panes = DOMAIN layout.up \cap Pane
  BY SettledParts
<1>5. X \subseteq panes /\ Y \subseteq panes /\ Z \subseteq panes
  BY <1>4 DEF PanesBelow, PanesUnder
<1>6. /\ \A T : T \subseteq X => Keeps(layout, m, T)
      /\ \A T : T \subseteq panes \ X => Keeps(layout, m, T)
      /\ Landed(m, X, Y, Z, insertion = "BEFORE")
  BY <1>3, <1>4, Zenon DEF Moved
<1> HIDE DEF X, Y, Z, N, t, insertion
<1>7. ASSUME NEW x \in X, NEW y \in Y
      PROVE  /\ insertion = "BEFORE" => Left(m, x, y)
             /\ insertion # "BEFORE" => Left(m, y, x)
             /\ \A z \in Z : Left(m, z, x) <=> Left(m, z, y)
  BY <1>6, Zenon DEF Landed
<1>8. /\ \A x, y \in panes : Precedes(before, x, y) <=> Left(layout, x, y)
      /\ \A x, y \in panes : Precedes(after, x, y) <=> Left(m, x, y)
      /\ \A S : S \subseteq panes /\ Keeps(layout, m, S) => SameOrder(before, after, S)
      /\ Grove(m, {m.root}, {}) /\ panes = Nodes(m) \cap Pane
  BY <1>1, ListsOfSteps
<1> HIDE DEF m, before, after
<1>9. X \cap Y = {}
  <2> SUFFICES ASSUME NEW x \in X, x \in Y PROVE FALSE
    OBVIOUS
  <2>1. Left(m, x, x)
    BY <1>7
  <2>2. x \in DOMAIN m.up
    BY <1>5, <1>8, GroveParts
  <2> QED BY <1>8, <2>1, <2>2, LeftOneWay
<1>10. Y \subseteq panes \ X /\ Z \subseteq panes \ X
  BY <1>5, <1>9 DEF Z
<1>11. \A group \in {X, Y, Z} : SameOrder(before, after, group)
  BY <1>5, <1>6, <1>8, <1>10
<1>12. ASSUME NEW p \in X, NEW q \in Y
       PROVE  /\ insertion = "BEFORE" => Precedes(after, p, q)
              /\ insertion # "BEFORE" => Precedes(after, q, p)
              /\ \A z \in Z : Precedes(after, z, p) <=> Precedes(after, z, q)
  <2>1. p \in panes /\ q \in panes /\ \A z \in Z : z \in panes
    BY <1>5
  <2> QED BY <1>7, <1>8, <2>1
<1>13. panes \ (SourcePanes \cup TargetPanes) = Z
  BY <1>2 DEF Z
<1> QED BY <1>2, <1>11, <1>12, <1>13 DEF Lands, before, after, m, insertion

\* A confirmed move puts the source's panes directly on the chosen side of the target's, a
\* confirmed swap puts the panes of each node where those of the other stood, and both leave
\* the order within the source, within the target and among the others, whatever the layout
\* (pane_move.cc, advance_pane_move).
THEOREM MovesDoLand ==
  ASSUME SplitsNeverRunOut
  PROVE  Spec => MovesLand
<1>1. TreeInv /\ TreeInv' /\ PanesInv /\ ConfirmMove => Lands
  <2> SUFFICES ASSUME TreeInv, TreeInv', PanesInv, ConfirmMove PROVE Lands
    OBVIOUS
  <2>1. Settled /\ Settled' /\ Moving /\ MoveHasWhatItNeeds
    BY DEF TreeInv, PanesInv
  <2> QED BY <2>1, SwapLands, MoveLands
<1>2. TreeInv /\ TreeInv' /\ PanesInv /\ [Next]_vars
        => [session # None /\ session' = None /\ ConfirmMove => Lands]_vars
  BY <1>1
<1> QED BY TreeStaysSound, PanesStayInOrder, <1>2, PTL DEF Spec, MovesLand

-----------------------------------------------------------------------------
(* The shape of a layout *)

\* The equation that the shapes of the nodes solve, for some of the nodes.
ShapeStep(l, g, n) ==
  IF IsLeaf(l, n) THEN <<n>>
  ELSE <<l.axis[n]>> \o [i \in DOMAIN l.kids[n] |-> g[l.kids[n][i].node]]
Shapes(l, g, D) == g = [n \in D |-> ShapeStep(l, g, n)]

\* The shape of a node depends on the shapes of its children alone.
LEMMA ShapeStepLocal ==
  ASSUME NEW l, NEW tops, NEW thin, Grove(l, tops, thin), NEW g, NEW h, NEW n \in DOMAIN l.up,
         \A c \in Children(l.up, n) : g[c] = h[c]
  PROVE  ShapeStep(l, g, n) = ShapeStep(l, h, n)
<1>1. CASE n \in DOMAIN l.kids
  <2>1. l.kids[n] \in Seq(KidRec) /\ NodesOf(l.kids[n]) = Children(l.up, n)
    BY <1>1, GroveKids
  <2>2. \A i \in DOMAIN l.kids[n] : l.kids[n][i].node \in Children(l.up, n)
    BY <2>1, KidsAt
  <2>3. [i \in DOMAIN l.kids[n] |-> g[l.kids[n][i].node]]
        = [i \in DOMAIN l.kids[n] |-> h[l.kids[n][i].node]]
    BY <2>2
  <2> QED BY <2>3, Zenon DEF ShapeStep
<1>2. CASE n \notin DOMAIN l.kids
  BY <1>2, GroveParts DEF ShapeStep
<1> QED BY <1>1, <1>2

\* Such shapes exist for all nodes.
LEMMA ShapesExist ==
  ASSUME NEW l, NEW tops, NEW thin, Grove(l, tops, thin)
  PROVE  \E g : Shapes(l, g, DOMAIN l.up)
<1> DEFINE u == l.up V == DOMAIN u
           G == {D \in SUBSET V : \E g : Shapes(l, g, D)}
<1>1. Links(u) /\ IsFiniteSet(V)
  <2>1. Links(u)
    BY GroveLinks
  <2> QED BY <2>1, GroveParts
<1>2. {} \in G
  <2> DEFINE g == [m \in {} |-> <<>>]
  <2>1. g = [m \in {} |-> ShapeStep(l, g, m)]
    OBVIOUS
  <2> QED BY <2>1 DEF Shapes
<1>3. ASSUME NEW D \in SUBSET V, NEW m \in V \ D, D \in G, Children(u, m) \subseteq D,
             \A n \in D : Children(u, n) \subseteq D
      PROVE  D \cup {m} \in G
  <2>1. PICK g : Shapes(l, g, D)
    BY <1>3
  <2> DEFINE E == D \cup {m}
             h == [n \in E |-> IF n = m THEN ShapeStep(l, g, m) ELSE g[n]]
  <2>2. \A n \in D : h[n] = g[n]
    BY <1>3
  <2>3. ASSUME NEW n \in E PROVE ShapeStep(l, h, n) = ShapeStep(l, g, n)
    <3>1. \A c \in Children(u, n) : h[c] = g[c]
      <4> HIDE DEF h
      <4> QED BY <1>3, <2>2
    <3>2. n \in DOMAIN l.up
      BY <1>3
    <3> HIDE DEF h
    <3> QED BY <3>1, <3>2, ShapeStepLocal
  <2>4. Shapes(l, h, E)
    <3>1. ASSUME NEW n \in E PROVE h[n] = ShapeStep(l, h, n)
      <4>1. n \in D => g[n] = ShapeStep(l, g, n)
        BY <2>1 DEF Shapes
      <4>2. h[n] = IF n = m THEN ShapeStep(l, g, m) ELSE g[n]
        OBVIOUS
      <4> HIDE DEF h
      <4> QED BY <2>3, <4>1, <4>2
    <3>2. h = [n \in E |-> h[n]]
      OBVIOUS
    <3> HIDE DEF h, E
    <3>3. h = [n \in E |-> ShapeStep(l, h, n)]
      BY <3>1, <3>2
    <3> QED BY <3>3 DEF Shapes
  <2>5. E \in SUBSET V
    BY <1>3
  <2> HIDE DEF E, h
  <2> QED BY <2>4, <2>5 DEF E
<1> HIDE DEF G, u
<1>4. V \in G
  BY <1>1, <1>2, <1>3, BottomUp
<1> QED BY <1>4 DEF G, u

\* The recursion of Shape has a solution.
LEMMA ShapeIs ==
  ASSUME NEW l, NEW tops, NEW thin, Grove(l, tops, thin)
  PROVE  \E f : /\ Shape(l) = f[l.root]
                /\ \A n \in DOMAIN l.up : f[n] = ShapeStep(l, f, n)
<1> DEFINE V == DOMAIN l.up
           f == CHOOSE g : g = [n \in V |-> ShapeStep(l, g, n)]
<1>1. Shape(l) = f[l.root]
  <2>1. Nodes(l) = V
    BY GroveParts
  <2> QED BY <2>1 DEF Shape, ShapeStep, Nodes
<1>2. f = [n \in V |-> ShapeStep(l, f, n)]
  <2>1. \E g : g = [n \in V |-> ShapeStep(l, g, n)]
    BY ShapesExist DEF Shapes
  <2> QED BY <2>1
<1> HIDE DEF f
<1>3. \A n \in V : f[n] = ShapeStep(l, f, n)
  BY <1>2
<1> QED BY <1>1, <1>3

\* The tree m is the tree l with its splits renamed by f.
Twins(l, m, f) ==
  /\ f[l.root] = m.root
  /\ \A n \in DOMAIN l.up : f[n] \in DOMAIN m.up
  /\ \A n \in DOMAIN l.up \ DOMAIN l.kids : f[n] = n /\ n \notin DOMAIN m.kids
  /\ \A s \in DOMAIN l.kids :
       /\ f[s] \in DOMAIN m.kids /\ m.axis[f[s]] = l.axis[s]
       /\ Len(m.kids[f[s]]) = Len(l.kids[s])
       /\ \A i \in 1 .. Len(l.kids[s]) : m.kids[f[s]][i].node = f[l.kids[s][i].node]

\* Such trees have the same shape.
LEMMA TwinShapes ==
  ASSUME NEW l, NEW thin, Grove(l, {l.root}, thin), NEW m, NEW thin2, Grove(m, {m.root}, thin2),
         NEW f, Twins(l, m, f)
  PROVE  Shape(m) = Shape(l)
<1> DEFINE u == l.up V == DOMAIN u
<1>1. PICK g : Shape(l) = g[l.root] /\ \A n \in V : g[n] = ShapeStep(l, g, n)
  BY ShapeIs
<1>2. PICK h : Shape(m) = h[m.root] /\ \A n \in DOMAIN m.up : h[n] = ShapeStep(m, h, n)
  BY ShapeIs
<1>3. /\ Links(u) /\ IsFiniteSet(V) /\ l.root \in V /\ DOMAIN l.kids \subseteq V
      /\ \A n : IsLeaf(l, n) <=> n \notin DOMAIN l.kids
  <2>1. Links(u) /\ DOMAIN l.kids \subseteq V
    BY GroveLinks, GroveParts
  <2> QED BY <2>1, GroveParts
<1>4. \A n : IsLeaf(m, n) <=> n \notin DOMAIN m.kids
  BY GroveParts
<1> DEFINE C == {n \in V : h[f[n]] # g[n]}
<1>5. C = {}
  <2> SUFFICES ASSUME C # {} PROVE FALSE
    OBVIOUS
  <2>1. PICK n \in C : \A c \in C : u[c] # n
    <3>1. C \subseteq DOMAIN u
      OBVIOUS
    <3> HIDE DEF C, u
    <3> QED BY <1>3, <3>1, DeepNode
  <2>2. n \in V /\ h[f[n]] # g[n] /\ \A c \in Children(u, n) : h[f[c]] = g[c]
    BY <2>1 DEF Children
  <2> HIDE DEF C
  <2>3. h[f[n]] = ShapeStep(m, h, f[n]) /\ g[n] = ShapeStep(l, g, n)
    BY <1>1, <1>2, <2>2 DEF Twins
  <2>4. CASE n \notin DOMAIN l.kids
    <3>1. f[n] = n /\ IsLeaf(m, n) /\ IsLeaf(l, n)
      BY <1>3, <1>4, <2>2, <2>4 DEF Twins
    <3> QED BY <2>2, <2>3, <3>1 DEF ShapeStep
  <2>5. CASE n \in DOMAIN l.kids
    <3> DEFINE K == l.kids[n] M == m.kids[f[n]]
    <3>1. /\ f[n] \in DOMAIN m.kids /\ m.axis[f[n]] = l.axis[n] /\ Len(M) = Len(K)
          /\ \A i \in 1 .. Len(K) : M[i].node = f[K[i].node]
      BY <2>5 DEF Twins
    <3>2. K \in Seq(KidRec) /\ NodesOf(K) = Children(u, n) /\ M \in Seq(KidRec)
      BY <2>5, <3>1, GroveKids
    <3> HIDE DEF K, M
    <3>3. DOMAIN K = 1 .. Len(K) /\ DOMAIN M = 1 .. Len(K)
          /\ \A i \in 1 .. Len(K) : K[i].node \in Children(u, n)
      BY <3>1, <3>2, KidsAt
    <3>4. [i \in DOMAIN M |-> h[M[i].node]] = [i \in DOMAIN K |-> g[K[i].node]]
      BY <2>2, <3>1, <3>3
    <3>5. ~IsLeaf(l, n) /\ ~IsLeaf(m, f[n])
      BY <1>3, <1>4, <2>5, <3>1
    <3>6. ShapeStep(m, h, f[n]) = <<m.axis[f[n]]>> \o [i \in DOMAIN M |-> h[M[i].node]]
      BY <3>5, Zenon DEF ShapeStep, M
    <3>7. ShapeStep(l, g, n) = <<l.axis[n]>> \o [i \in DOMAIN K |-> g[K[i].node]]
      BY <3>5, Zenon DEF ShapeStep, K
    <3>8. h[f[n]] = g[n]
      BY <2>3, <3>1, <3>4, <3>6, <3>7, Zenon
    <3> QED BY <2>2, <3>8
  <2> QED BY <2>4, <2>5
<1>6. h[f[l.root]] = g[l.root]
  BY <1>3, <1>5
<1> QED BY <1>1, <1>2, <1>6 DEF Twins

-----------------------------------------------------------------------------
(* Groups of siblings *)

\* Lists of the same children, each of them once and in the same order, are the same but for
\* the shares.
LEMMA OneOrder ==
  ASSUME NEW K \in Seq(KidRec), Distinct(K), NEW M \in Seq(KidRec), Distinct(M),
         NodesOf(M) = NodesOf(K),
         \A c, d : Ahead(NodeOf, K, c, d) => Ahead(NodeOf, M, c, d)
  PROVE  Len(M) = Len(K) /\ \A i \in 1 .. Len(K) : M[i].node = K[i].node
<1>1. Len(M) = Len(K)
  <2>1. OneToOne(NodeOf, K) /\ OneToOne(NodeOf, M)
    BY NodesAreImage
  <2>2. Image(NodeOf, K) = NodesOf(K) /\ Image(NodeOf, M) = NodesOf(M)
    BY NodesAreImage
  <2> QED BY <2>1, <2>2, ListCounted
<1> DEFINE n == Len(K)
           W == {i \in 1 .. n : M[i].node # K[i].node}
<1>2. n \in Nat
  BY KidsAt
<1>3. W = {}
  <2> SUFFICES ASSUME W # {} PROVE FALSE
    OBVIOUS
  <2>1. PICK i \in W : \A k \in W : i <= k
    <3>1. W \subseteq Nat
      BY <1>2
    <3> HIDE DEF W
    <3> QED BY <3>1, LeastElement
  <2>2. i \in 1 .. n /\ M[i].node # K[i].node /\ \A k \in 1 .. n : k < i => M[k].node = K[k].node
    BY <1>2, <2>1
  <2>3. M[i].node \in NodesOf(K) /\ K[i].node \in NodesOf(M)
    BY <1>1, <2>2 DEF NodesOf
  <2>4. PICK a \in 1 .. n : K[a].node = M[i].node
    BY <2>3 DEF NodesOf
  <2>5. PICK b \in 1 .. n : M[b].node = K[i].node
    BY <1>1, <2>3 DEF NodesOf
  <2> HIDE DEF W, n
  <2>6. i < a
    <3>1. CASE a < i
      <4>1. M[a].node = M[i].node
        BY <2>2, <2>4, <3>1
      <4>2. a = i
        BY <1>1, <2>2, <2>4, <4>1 DEF Distinct, n
      <4> QED BY <2>2, <3>1, <4>2, <1>2
    <3>2. a # i
      BY <2>2, <2>4
    <3> QED BY <1>2, <2>2, <3>1, <3>2
  <2>7. i < b
    <3>1. CASE b < i
      <4>1. K[b].node = K[i].node
        BY <2>2, <2>5, <3>1
      <4>2. b = i
        BY <2>2, <2>5, <4>1 DEF Distinct, n
      <4> QED BY <2>2, <3>1, <4>2, <1>2
    <3>2. b # i
      BY <2>2, <2>5
    <3> QED BY <1>2, <2>2, <3>1, <3>2
  <2>8. Ahead(NodeOf, K, K[i].node, M[i].node)
    BY <2>2, <2>4, <2>6, KidsAhead DEF n
  <2>9. Ahead(NodeOf, M, M[i].node, K[i].node)
    BY <1>1, <2>2, <2>5, <2>7, KidsAhead DEF n
  <2> QED BY <2>8, <2>9, KidsAhead
<1> QED BY <1>1, <1>3

\* Two lists in a row, element by element.
LEMMA JoinedAt ==
  ASSUME NEW A \in Seq(KidRec), NEW B \in Seq(KidRec)
  PROVE  /\ Join(A, B) \in Seq(KidRec) /\ Len(Join(A, B)) = Len(A) + Len(B)
         /\ \A x \in 1 .. Len(A) : Join(A, B)[x] = A[x]
         /\ \A x \in 1 .. Len(B) : Join(A, B)[Len(A) + x] = B[x]
<1>1. Join(A, B) \in Seq(KidRec) /\ Len(Join(A, B)) = Len(A) + Len(B)
  BY DEF Join
<1>2. ASSUME NEW x \in 1 .. Len(A) PROVE Join(A, B)[x] = A[x]
  BY DEF Join
<1>3. ASSUME NEW x \in 1 .. Len(B) PROVE Join(A, B)[Len(A) + x] = B[x]
  BY DEF Join
<1> QED BY <1>1, <1>2, <1>3

\* R is the list K with new instead of the n children from the i-th on, element by element.
InPlace(K, i, n, new, R) ==
  /\ R \in Seq(KidRec) /\ Len(R) = (Len(K) - n) + Len(new)
  /\ \A x \in 1 .. (i - 1) : R[x] = K[x]
  /\ \A x \in 1 .. Len(new) : R[(i + x) - 1] = new[x]
  /\ \A x \in (i + n) .. Len(K) : R[(x - n) + Len(new)] = K[x]
\* Replace puts the new children there.
LEMMA ReplacedAt ==
  ASSUME NEW K \in Seq(KidRec), NEW i \in 1 .. Len(K) + 1, NEW n \in Nat,
         (i + n) - 1 <= Len(K), NEW new \in Seq(KidRec), NEW R, R = Replace(K, i, n, new)
  PROVE  InPlace(K, i, n, new, R)
<1> DEFINE A == SubSeq(K, 1, i - 1) C == SubSeq(K, i + n, Len(K)) B == Join(A, new)
<1>1. A \in Seq(KidRec) /\ Len(A) = i - 1 /\ \A x \in 1 .. (i - 1) : A[x] = K[x]
  OBVIOUS
<1>2. /\ C \in Seq(KidRec) /\ Len(C) = (Len(K) - (i + n)) + 1
      /\ \A x \in 1 .. ((Len(K) - (i + n)) + 1) : C[x] = K[((i + n) + x) - 1]
  OBVIOUS
<1>3. R = Join(B, C)
  BY DEF Replace, Join
<1> HIDE DEF A, C
<1>4. /\ B \in Seq(KidRec) /\ Len(B) = Len(A) + Len(new)
      /\ \A x \in 1 .. Len(A) : B[x] = A[x]
      /\ \A x \in 1 .. Len(new) : B[Len(A) + x] = new[x]
  BY <1>1, JoinedAt
<1> HIDE DEF B
<1>5. /\ R \in Seq(KidRec) /\ Len(R) = Len(B) + Len(C)
      /\ \A x \in 1 .. Len(B) : R[x] = B[x]
      /\ \A x \in 1 .. Len(C) : R[Len(B) + x] = C[x]
  <2>1. C \in Seq(KidRec) /\ B \in Seq(KidRec)
    BY <1>2, <1>4
  <2>2. /\ Join(B, C) \in Seq(KidRec) /\ Len(Join(B, C)) = Len(B) + Len(C)
        /\ \A x \in 1 .. Len(B) : Join(B, C)[x] = B[x]
        /\ \A x \in 1 .. Len(C) : Join(B, C)[Len(B) + x] = C[x]
    BY <2>1, JoinedAt
  <2> QED BY <1>3, <2>2, Zenon
<1>6. Len(A) \in Nat /\ Len(B) \in Nat /\ Len(C) \in Nat /\ Len(new) \in Nat /\ Len(K) \in Nat
  BY <1>1, <1>2, <1>4
<1>7. ASSUME NEW x \in (i + n) .. Len(K) PROVE R[(x - n) + Len(new)] = K[x]
  <2> DEFINE y == (x - (i + n)) + 1
  <2>1. /\ y \in 1 .. Len(C) /\ Len(B) + y = (x - n) + Len(new)
        /\ y \in 1 .. ((Len(K) - (i + n)) + 1) /\ ((i + n) + y) - 1 = x
    BY <1>1, <1>2, <1>4, <1>6
  <2> HIDE DEF y
  <2>2. R[Len(B) + y] = C[y] /\ C[y] = K[((i + n) + y) - 1]
    BY <1>2, <1>5, <2>1, Zenon
  <2> QED BY <2>1, <2>2, Zenon
<1>8. ASSUME NEW x \in 1 .. (i - 1) PROVE R[x] = K[x]
  <2>1. x \in 1 .. Len(A) /\ x \in 1 .. Len(B)
    BY <1>1, <1>4, <1>6
  <2> QED BY <1>1, <1>4, <1>5, <2>1, Zenon
<1>9. ASSUME NEW x \in 1 .. Len(new) PROVE R[(i + x) - 1] = new[x]
  <2> DEFINE y == Len(A) + x
  <2>1. y \in 1 .. Len(B) /\ (i + x) - 1 = y
    BY <1>1, <1>4, <1>6
  <2>2. B[y] = new[x]
    BY <1>4
  <2> HIDE DEF y
  <2> QED BY <1>5, <2>1, <2>2, Zenon
<1>10. Len(R) = (Len(K) - n) + Len(new)
  <2>1. \A a, b, c, d, k, j \in Int :
          a = j - 1 /\ b = a + d /\ c = (k - (j + n)) + 1 => b + c = (k - n) + d
    OBVIOUS
  <2>2. i \in Int
    OBVIOUS
  <2>3. Len(R) = Len(B) + Len(C) /\ Len(B) = Len(A) + Len(new) /\ Len(A) = i - 1
        /\ Len(C) = (Len(K) - (i + n)) + 1
    BY <1>1, <1>2, <1>4, <1>5
  <2> QED BY <1>6, <2>1, <2>2, <2>3
<1> QED BY <1>5, <1>7, <1>8, <1>9, <1>10 DEF InPlace

\* b is the tree a where the children of p from the i-th on, n of them, hang below g.
GroupOf(a, b, p, g, i, n) ==
  /\ b.root = a.root /\ p \in DOMAIN a.kids /\ p # g /\ g \notin DOMAIN a.up
  /\ DOMAIN b.up = DOMAIN a.up \cup {g} /\ DOMAIN b.kids = DOMAIN a.kids \cup {g}
  /\ \A q \in DOMAIN a.kids : q # p => b.kids[q] = a.kids[q]
  /\ b.up[g] = p
  /\ \A x \in DOMAIN a.up : IF b.up[x] = g THEN a.up[x] = p ELSE b.up[x] = a.up[x]
  /\ Len(b.kids[g]) = n /\ n \in Nat /\ i \in Nat \ {0} /\ (i + n) - 1 <= Len(a.kids[p])
  /\ Len(b.kids[p]) = (Len(a.kids[p]) - n) + 1
  /\ \A x \in 1 .. (i - 1) : b.kids[p][x].node = a.kids[p][x].node
  /\ b.kids[p][i].node = g
  /\ \A x \in (i + n) .. Len(a.kids[p]) : b.kids[p][(x - n) + 1].node = a.kids[p][x].node
  /\ \A x \in 1 .. n : b.kids[g][x].node = a.kids[p][(i + x) - 1].node

-----------------------------------------------------------------------------
(* flatten_matching_split_children opens a group *)

\* m is the tree l where the children of s, a child of p, stand in the place of s.
Opened(l, p, s, i, R, m) ==
  /\ Grove(m, {m.root}, {}) /\ m.root = l.root /\ m.up = Lifted(l.up, {s}, p)
  /\ DOMAIN m.up = DOMAIN l.up \ {s} /\ DOMAIN m.kids = DOMAIN l.kids \ {s}
  /\ \A q \in DOMAIN m.kids : m.axis[q] = l.axis[q]
  /\ \A q \in DOMAIN m.kids : q # p => m.kids[q] = l.kids[q]
  /\ s \in DOMAIN l.kids /\ l.up[s] = p /\ p \in DOMAIN m.kids
  /\ i \in 1 .. Len(l.kids[p]) /\ l.kids[p][i].node = s /\ R \in Seq(KidRec)
  /\ Len(m.kids[p]) = Len(R) /\ \A x \in 1 .. Len(R) : m.kids[p][x].node = R[x].node
\* flatten_matching_split_children does that to the only child with its split's axis.
LEMMA FlattenOne ==
  ASSUME NEW l, Grove(l, {l.root}, {}), NEW p \in DOMAIN l.kids, NEW s, SameAxisKids(l, p) = {s},
         NEW m, m = Flatten(l, p), NEW i, i = ChildIndex(l, p, s),
         NEW R, R = Replace(l.kids[p], i, 1, l.kids[s])
  PROVE  Opened(l, p, s, i, R, m)
<1> DEFINE K == l.kids[p] M == l.kids[s] F == m.kids[p]
<1>1. /\ Grove(m, {l.root}, {}) /\ m.root = l.root /\ Nodes(m) = Nodes(l) \ {s}
      /\ {s} = {n \in Children(l.up, p) : n \in DOMAIN l.kids /\ l.axis[n] = l.axis[p]}
      /\ m.up = Lifted(l.up, {s}, p) /\ DOMAIN m.kids = DOMAIN l.kids \ {s}
      /\ \A q \in DOMAIN m.kids : m.axis[q] = l.axis[q]
      /\ \A q \in DOMAIN m.kids : q # p => m.kids[q] = l.kids[q]
      /\ p \in DOMAIN m.kids /\ Expanded(l, p, {s}, m.kids[p])
  <2> DEFINE X == SameAxisKids(l, p)
  <2>1. /\ Grove(m, {l.root}, {}) /\ m.root = l.root /\ Nodes(m) = Nodes(l) \ X
        /\ X = {n \in Children(l.up, p) : n \in DOMAIN l.kids /\ l.axis[n] = l.axis[p]}
        /\ m.up = Lifted(l.up, X, p) /\ DOMAIN m.kids = DOMAIN l.kids \ X
        /\ \A q \in DOMAIN m.kids : m.axis[q] = l.axis[q]
        /\ \A q \in DOMAIN m.kids : q # p => m.kids[q] = l.kids[q]
        /\ p \in DOMAIN m.kids /\ Expanded(l, p, X, m.kids[p])
    <3>1. Grove(m, {l.root}, {}) /\ m.root = l.root /\ Nodes(m) = Nodes(l) \ X
      BY FlattenLists
    <3>2. /\ X = {n \in Children(l.up, p) : n \in DOMAIN l.kids /\ l.axis[n] = l.axis[p]}
          /\ m.up = Lifted(l.up, X, p) /\ DOMAIN m.kids = DOMAIN l.kids \ X
      BY FlattenLists
    <3>3. \A q \in DOMAIN m.kids : m.axis[q] = l.axis[q]
      BY FlattenLists
    <3>4. \A q \in DOMAIN m.kids : q # p => m.kids[q] = l.kids[q]
      BY FlattenLists
    <3>5. p \in DOMAIN m.kids /\ Expanded(l, p, X, m.kids[p])
      BY FlattenLists
    <3> QED BY <3>1, <3>2, <3>3, <3>4, <3>5
  <2>2. X = {s}
    OBVIOUS
  <2> HIDE DEF X
  <2> QED BY <2>1, <2>2
<1>2. s \in DOMAIN l.kids /\ s \in Children(l.up, p) /\ l.up[s] = p /\ s \in DOMAIN l.up
  BY <1>1 DEF Children
<1>3. /\ K \in Seq(KidRec) /\ Distinct(K) /\ NodesOf(K) = Children(l.up, p)
      /\ M \in Seq(KidRec) /\ Distinct(M) /\ NodesOf(M) = Children(l.up, s)
      /\ F \in Seq(KidRec) /\ Distinct(F) /\ NodesOf(F) = Children(m.up, p)
      /\ s \notin Children(l.up, s)
  BY <1>1, <1>2, GroveKids
<1>4. i \in 1 .. Len(K) /\ K[i].node = s
  BY <1>2, IndexOfChild
<1>5. p # s
  BY <1>1
<1>6. Children(l.up, s) \cap Children(l.up, p) = {}
  BY <1>5 DEF Children
<1> HIDE DEF K, M, F
<1>7. R = Replace(K, i, 1, M)
  BY DEF K, M
<1>8. R \in Seq(KidRec) /\ Distinct(R) /\ NodesOf(R) = (Children(l.up, p) \ {s}) \cup Children(l.up, s)
  <2>1. NodesOf(M) \cap NodesOf(K) \subseteq {K[i].node}
    BY <1>3, <1>6
  <2> QED BY <1>3, <1>4, <1>7, <2>1, KidReplaced
<1>9. NodesOf(F) = NodesOf(R)
  <2>1. Children(m.up, p) = (Children(l.up, p) \ {s}) \cup Children(l.up, s)
    BY <1>1, <1>3, <1>5 DEF Children, Lifted
  <2> QED BY <1>3, <1>8, <2>1
<1>10. PICK ss \in Seq(Seq(KidRec)) :
         /\ F = FlattenSeq(ss) /\ Len(ss) = Len(K)
         /\ \A x \in 1 .. Len(ss) :
              IF K[x].node \in {s} THEN KidNodes(ss[x]) = KidNodes(l.kids[K[x].node])
              ELSE ss[x] = <<K[x]>>
  BY <1>1 DEF Expanded, K, F
<1>11. KidNodes(ss[i]) = KidNodes(M) /\ ss[i] \in Seq(KidRec) /\ NodesOf(ss[i]) = NodesOf(M)
       /\ i \in 1 .. Len(ss)
  <2>1. i \in 1 .. Len(ss) /\ KidNodes(ss[i]) = KidNodes(M)
    BY <1>4, <1>10 DEF M
  <2>2. ss[i] \in Seq(KidRec)
    BY <2>1
  <2> QED BY <1>3, <2>1, <2>2, KidNodesOf
<1>12. ASSUME NEW x \in 1 .. Len(ss), K[x].node # s PROVE K[x].node \in Image(NodeOf, ss[x])
  <2>1. ss[x] = <<K[x]>> /\ K[x] \in KidRec
    BY <1>3, <1>10, <1>12, KidsAt
  <2>2. Len(<<K[x]>>) = 1 /\ <<K[x]>>[1] = K[x]
    BY <2>1, OneListed
  <2>3. NodeOf[K[x]] = K[x].node
    BY <2>1 DEF NodeOf
  <2> HIDE DEF NodeOf
  <2> QED BY <2>1, <2>2, <2>3 DEF Image
<1>13. Image(NodeOf, ss[i]) = NodesOf(M)
  BY <1>11, NodesAreImage
<1>14. ASSUME NEW c, NEW d, Ahead(NodeOf, R, c, d) PROVE Ahead(NodeOf, F, c, d)
  <2>1. \/ Ahead(NodeOf, K, c, d) /\ c # s /\ d # s
        \/ Ahead(NodeOf, M, c, d)
        \/ Ahead(NodeOf, K, s, d) /\ c \in NodesOf(M)
        \/ Ahead(NodeOf, K, c, s) /\ d \in NodesOf(M)
    BY <1>3, <1>4, <1>7, <1>14, AheadReplaced
  <2> SUFFICES Spread(NodeOf, ss, Len(ss), c, d)
    BY <1>10, AheadFlattened
  <2>2. CASE Ahead(NodeOf, K, c, d) /\ c # s /\ d # s
    <3>1. PICK x, y \in 1 .. Len(K) : x < y /\ K[x].node = c /\ K[y].node = d
      BY <1>3, <2>2, KidsAhead
    <3>2. c \in Image(NodeOf, ss[x]) /\ d \in Image(NodeOf, ss[y])
      BY <1>10, <1>12, <2>2, <3>1
    <3> QED BY <1>10, <3>1, <3>2 DEF Spread
  <2>3. CASE Ahead(NodeOf, M, c, d)
    <3>1. Ahead(NodeOf, ss[i], c, d)
      BY <1>3, <1>11, <2>3, AheadSame
    <3> QED BY <1>11, <3>1 DEF Spread
  <2>4. CASE Ahead(NodeOf, K, s, d) /\ c \in NodesOf(M)
    <3>1. PICK x, y \in 1 .. Len(K) : x < y /\ K[x].node = s /\ K[y].node = d
      BY <1>3, <2>4, KidsAhead
    <3>2. x = i /\ d # s
      BY <1>3, <1>4, <2>4, <3>1, KidsAhead DEF Distinct
    <3>3. c \in Image(NodeOf, ss[x]) /\ d \in Image(NodeOf, ss[y])
      BY <1>10, <1>12, <1>13, <2>4, <3>1, <3>2
    <3> QED BY <1>10, <3>1, <3>3 DEF Spread
  <2>5. CASE Ahead(NodeOf, K, c, s) /\ d \in NodesOf(M)
    <3>1. PICK x, y \in 1 .. Len(K) : x < y /\ K[x].node = c /\ K[y].node = s
      BY <1>3, <2>5, KidsAhead
    <3>2. y = i /\ c # s
      BY <1>3, <1>4, <2>5, <3>1, KidsAhead DEF Distinct
    <3>3. c \in Image(NodeOf, ss[x]) /\ d \in Image(NodeOf, ss[y])
      BY <1>10, <1>12, <1>13, <2>5, <3>1, <3>2
    <3> QED BY <1>10, <3>1, <3>3 DEF Spread
  <2> QED BY <2>1, <2>2, <2>3, <2>4, <2>5
<1>15. Len(F) = Len(R) /\ \A x \in 1 .. Len(R) : F[x].node = R[x].node
  BY <1>3, <1>8, <1>9, <1>14, OneOrder
<1>16. DOMAIN m.up = DOMAIN l.up \ {s}
  BY <1>1 DEF Lifted
<1> QED BY <1>1, <1>2, <1>4, <1>8, <1>15, <1>16 DEF Opened, K, F

\* Such a child was a group of its children.
LEMMA FlattenIsGroup ==
  ASSUME NEW l, Grove(l, {l.root}, {}), NEW p \in DOMAIN l.kids, NEW s, SameAxisKids(l, p) = {s},
         NEW m, m = Flatten(l, p), NEW i, i = ChildIndex(l, p, s)
  PROVE  /\ GroupOf(m, l, p, s, i, Len(l.kids[s]))
         /\ Grove(m, {m.root}, {}) /\ \A q \in DOMAIN m.kids : m.axis[q] = l.axis[q]
<1> DEFINE K == l.kids[p] M == l.kids[s] R == Replace(K, i, 1, M)
           n == Len(M) F == m.kids[p]
<1>1. /\ Grove(m, {m.root}, {}) /\ m.root = l.root /\ m.up = Lifted(l.up, {s}, p)
      /\ DOMAIN m.up = DOMAIN l.up \ {s} /\ DOMAIN m.kids = DOMAIN l.kids \ {s}
      /\ \A q \in DOMAIN m.kids : m.axis[q] = l.axis[q]
      /\ \A q \in DOMAIN m.kids : q # p => m.kids[q] = l.kids[q]
      /\ s \in DOMAIN l.kids /\ l.up[s] = p /\ p \in DOMAIN m.kids
      /\ i \in 1 .. Len(K) /\ K[i].node = s /\ R \in Seq(KidRec)
      /\ Len(F) = Len(R) /\ \A x \in 1 .. Len(R) : F[x].node = R[x].node
  <2>1. R = Replace(l.kids[p], i, 1, l.kids[s])
    OBVIOUS
  <2> HIDE DEF R
  <2>2. Opened(l, p, s, i, R, m)
    BY <2>1, FlattenOne
  <2> QED BY <2>2 DEF Opened
<1>2. K \in Seq(KidRec) /\ M \in Seq(KidRec) /\ DOMAIN l.kids \subseteq DOMAIN l.up
  BY <1>1, GroveKids, GroveParts
<1>3. \A x \in DOMAIN m.up : IF l.up[x] = s THEN m.up[x] = p ELSE l.up[x] = m.up[x]
  BY <1>1 DEF Lifted
<1> HIDE DEF K, M, F, R
<1>4. n \in Nat /\ Len(K) \in Nat /\ i \in 1 .. Len(K) + 1 /\ (i + 1) - 1 <= Len(K)
  BY <1>1, <1>2
<1>5. /\ Len(R) = (Len(K) - 1) + n
      /\ \A x \in 1 .. (i - 1) : R[x] = K[x]
      /\ \A x \in 1 .. n : R[(i + x) - 1] = M[x]
      /\ \A x \in (i + 1) .. Len(K) : R[(x - 1) + n] = K[x]
  <2> DEFINE o == 1
  <2>1. o \in Nat /\ R = Replace(K, i, o, M) /\ (i + o) - 1 <= Len(K)
    BY <1>4 DEF R
  <2> HIDE DEF o
  <2>2. InPlace(K, i, o, M, R)
    BY <1>2, <1>4, <2>1, ReplacedAt
  <2> QED BY <2>2 DEF InPlace, o
<1> HIDE DEF n
<1>6. i \in Nat \ {0} /\ (i + n) - 1 <= Len(F) /\ Len(K) = (Len(F) - n) + 1
  BY <1>1, <1>4, <1>5
<1>7. ASSUME NEW x \in 1 .. (i - 1) PROVE K[x].node = F[x].node
  <2>1. x \in 1 .. Len(R)
    BY <1>1, <1>4, <1>5
  <2> QED BY <1>1, <1>5, <2>1
<1>8. ASSUME NEW x \in (i + n) .. Len(F) PROVE K[(x - n) + 1].node = F[x].node
  <2> DEFINE y == (x - n) + 1
  <2>1. y \in (i + 1) .. Len(K) /\ (y - 1) + n = x /\ x \in 1 .. Len(R)
    BY <1>1, <1>4, <1>5
  <2> HIDE DEF y
  <2>2. R[x] = K[y]
    BY <1>5, <2>1
  <2> QED BY <1>1, <2>1, <2>2 DEF y
<1>9. ASSUME NEW x \in 1 .. n PROVE M[x].node = F[(i + x) - 1].node
  <2>1. (i + x) - 1 \in 1 .. Len(R)
    BY <1>1, <1>4, <1>5
  <2> QED BY <1>1, <1>5, <2>1
<1>10. p # s /\ s \notin DOMAIN m.up /\ DOMAIN l.up = DOMAIN m.up \cup {s}
       /\ DOMAIN l.kids = DOMAIN m.kids \cup {s}
  <2>1. p \in DOMAIN m.kids /\ DOMAIN m.kids = DOMAIN l.kids \ {s} /\ s \in DOMAIN l.kids
        /\ DOMAIN m.up = DOMAIN l.up \ {s} /\ DOMAIN l.kids \subseteq DOMAIN l.up
    BY <1>1, <1>2
  <2> DEFINE A == DOMAIN l.kids B == DOMAIN m.kids C == DOMAIN l.up D == DOMAIN m.up
  <2> HIDE DEF A, B, C, D
  <2>2. p \in B /\ B = A \ {s} /\ s \in A /\ D = C \ {s} /\ A \subseteq C
    BY <2>1 DEF A, B, C, D
  <2>3. p # s /\ s \notin D /\ C = D \cup {s} /\ A = B \cup {s}
    BY <2>2
  <2> QED BY <2>3 DEF A, B, C, D
<1>11. GroupOf(m, l, p, s, i, n)
  BY <1>1, <1>3, <1>4, <1>6, <1>7, <1>8, <1>9, <1>10 DEF GroupOf, K, M, F, n
<1> QED BY <1>1, <1>11 DEF n, M

-----------------------------------------------------------------------------
(* rotate_sibling_range makes a group *)

\* rotate_sibling_range makes a group of the range.
LEMMA RangeIsGroup ==
  ASSUME NEW l, Grove(l, {l.root}, {}), SplitsNeverRunOut, NEW sel, NEW i, NEW j,
         Ranged(l, sel.parent, sel.nodes, i, j), ~WholeLevel(l, sel), Len(sel.nodes) # 1,
         NEW m, m = RotateRange(l, sel).layout, NEW g, g = RotateRange(l, sel).group
  PROVE  /\ Grove(m, {m.root}, {}) /\ GroupOf(l, m, sel.parent, g, i, Len(sel.nodes))
         /\ RangeTurned(l, sel.parent, ToSet(sel.nodes), g, m)
         /\ Children(m.up, g) = ToSet(sel.nodes)
<1> DEFINE p == sel.parent K == l.kids[p] r == Cut(K, i, j) n == Len(sel.nodes) F == m.kids[p]
<1>1. /\ Grove(m, {m.root}, {}) /\ RangeGrouped(l, p, i, j, g, m)
      /\ RangeTurned(l, p, ToSet(sel.nodes), g, m)
  BY RotateRangeLists
<1>2. /\ g \in Split /\ g \notin DOMAIN l.up /\ r \in Seq(KidRec)
      /\ NodesOf(r) \subseteq Children(l.up, p) /\ m.up[g] = p
      /\ DOMAIN m.up = DOMAIN l.up \cup {g} /\ DOMAIN m.kids = DOMAIN l.kids \cup {g}
      /\ \A x \in DOMAIN l.up : m.up[x] = IF x \in NodesOf(r) THEN g ELSE l.up[x]
      /\ \A q \in DOMAIN l.kids : q # p => m.kids[q] = l.kids[q]
      /\ m.kids[g] \in Seq(KidRec) /\ KidNodes(m.kids[g]) = KidNodes(r)
  BY <1>1 DEF RangeGrouped
<1>3. PICK new \in Seq(KidRec) :
        Len(new) = 1 /\ NodesOf(new) = {g} /\ F = Replace(K, i, Len(r), new)
  BY <1>1 DEF RangeGrouped
<1>4. /\ p \in DOMAIN l.kids /\ i \in 1 .. Len(K) /\ j \in i .. Len(K)
      /\ ToSet(sel.nodes) = NodesOf(r) /\ Len(r) = (j - i) + 1 /\ n = (j - i) + 1
      /\ \A x \in 1 .. n : sel.nodes[x] = K[(i + x) - 1].node
      /\ sel.nodes = SubSeq(KidNodes(K), i, j)
  <2>1. p \in DOMAIN l.kids /\ i \in 1 .. Len(K) /\ j \in i .. Len(K)
        /\ sel.nodes = SubSeq(KidNodes(K), i, j)
    BY DEF Ranged
  <2>2. /\ Len(sel.nodes) = (j - i) + 1 /\ ToSet(sel.nodes) = NodesOf(Cut(l.kids[p], i, j))
        /\ Len(Cut(l.kids[p], i, j)) = (j - i) + 1
    BY RangedParts
  <2>3. \A x \in 1 .. Len(sel.nodes) : sel.nodes[x] = l.kids[p][(i + x) - 1].node
    BY RangedParts
  <2> QED BY <2>1, <2>2, <2>3
<1>5. K \in Seq(KidRec) /\ NodesOf(K) = Children(l.up, p) /\ Links(l.up) /\ Links(m.up)
      /\ DOMAIN l.kids \subseteq DOMAIN l.up /\ Len(K) \in Nat
  <2>1. K \in Seq(KidRec) /\ NodesOf(K) = Children(l.up, p) /\ Links(l.up) /\ Links(m.up)
    BY <1>1, <1>4, GroveKids, GroveLinks
  <2>2. DOMAIN l.kids \subseteq DOMAIN l.up
    BY GroveParts
  <2> QED BY <2>1, <2>2
<1> HIDE DEF K, F, n, p
<1>6. /\ n \in Nat /\ Len(r) = n /\ i \in 1 .. Len(K) + 1 /\ i \in Nat \ {0}
      /\ (i + n) - 1 <= Len(K) /\ (i + n) - 1 = j
  BY <1>4, <1>5
<1>7. InPlace(K, i, n, new, F)
  <2>1. F = Replace(K, i, n, new)
    BY <1>3, <1>6
  <2> QED BY <1>5, <1>6, <2>1, ReplacedAt
<1>8. /\ F \in Seq(KidRec) /\ Len(F) = (Len(K) - n) + 1
      /\ \A x \in 1 .. (i - 1) : F[x] = K[x]
      /\ F[i] = new[1]
      /\ \A x \in (i + n) .. Len(K) : F[(x - n) + 1] = K[x]
  <2>1. (i + 1) - 1 = i /\ 1 \in 1 .. 1
    BY <1>6
  <2> QED BY <1>3, <1>7, <2>1 DEF InPlace
<1>9. F[i].node = g
  <2>0. 1 \in 1 .. Len(new)
    BY <1>3
  <2>1. new[1].node \in NodesOf(new)
    BY <2>0 DEF NodesOf
  <2> QED BY <1>3, <1>8, <2>1
<1> HIDE DEF r
<1>10. Len(m.kids[g]) = n /\ \A x \in 1 .. n : m.kids[g][x].node = K[(i + x) - 1].node
  <2>1. KidNodes(r) = sel.nodes
    <3>1. SubSeq(KidNodes(K), i, j) = KidNodes(Cut(K, i, j))
      BY <1>4, <1>5, KidsRange
    <3> QED BY <1>4, <3>1 DEF r
  <2>2. Len(KidNodes(m.kids[g])) = Len(m.kids[g])
        /\ \A x \in 1 .. Len(m.kids[g]) : KidNodes(m.kids[g])[x] = m.kids[g][x].node
    BY <1>2, KidNodesOf
  <2>3. KidNodes(m.kids[g]) = sel.nodes
    BY <1>2, <2>1
  <2> QED BY <1>4, <2>2, <2>3 DEF n
<1>11. \A x \in DOMAIN l.up : IF m.up[x] = g THEN l.up[x] = p ELSE m.up[x] = l.up[x]
  <2>1. \A x \in DOMAIN l.up : l.up[x] # g
    <3>1. \A x \in DOMAIN l.up : l.up[x] \in DOMAIN l.up \cup {NoNode}
      BY <1>5 DEF Links
    <3>2. g # NoNode
      BY <1>2, NoNodeAssumption
    <3> QED BY <1>2, <3>1, <3>2
  <2>2. \A x \in NodesOf(r) : l.up[x] = p
    BY <1>2 DEF Children
  <2> QED BY <1>2, <2>1, <2>2
<1>12. p # g /\ m.root = l.root
  BY <1>1, <1>2, <1>4, <1>5 DEF RangeTurned
<1>13. Children(m.up, g) = ToSet(sel.nodes)
  <2>1. \A x \in DOMAIN l.up : m.up[x] = g <=> x \in NodesOf(r)
    <3>1. \A x \in DOMAIN l.up : l.up[x] # g
      <4>1. \A x \in DOMAIN l.up : l.up[x] \in DOMAIN l.up \cup {NoNode}
        BY <1>5 DEF Links
      <4>2. g # NoNode
        BY <1>2, NoNodeAssumption
      <4> QED BY <1>2, <4>1, <4>2
    <3> QED BY <1>2, <3>1
  <2>2. NodesOf(r) \subseteq DOMAIN l.up
    BY <1>2 DEF Children
  <2> QED BY <1>2, <1>4, <1>12, <2>1, <2>2 DEF Children
<1>14. \A x \in 1 .. (i - 1) : F[x].node = K[x].node
  BY <1>8
<1>15. \A x \in (i + n) .. Len(K) : F[(x - n) + 1].node = K[x].node
  BY <1>8
<1>16. GroupOf(l, m, p, g, i, n)
  BY <1>2, <1>4, <1>6, <1>8, <1>9, <1>10, <1>11, <1>12, <1>14, <1>15 DEF GroupOf, K, F
<1> QED BY <1>1, <1>13, <1>16 DEF p, n

\* Two groups of the same children, one in each of two trees, are each other's image.
LEMMA TwoGroups ==
  ASSUME NEW a, NEW b, NEW c, Grove(a, {a.root}, {}), Grove(b, {b.root}, {}), Grove(c, {c.root}, {}),
         NEW p, NEW g, NEW h, NEW i, NEW n, GroupOf(a, b, p, g, i, n), GroupOf(a, c, p, h, i, n),
         \A q \in DOMAIN a.kids : c.axis[q] = b.axis[q], c.axis[h] = b.axis[g]
  PROVE  Shape(c) = Shape(b)
<1> DEFINE f == [x \in DOMAIN b.up |-> IF x = g THEN h ELSE x]
<1>1. /\ b.root = a.root /\ p \in DOMAIN a.kids /\ p # g /\ g \notin DOMAIN a.up
      /\ DOMAIN b.up = DOMAIN a.up \cup {g} /\ DOMAIN b.kids = DOMAIN a.kids \cup {g}
      /\ \A q \in DOMAIN a.kids : q # p => b.kids[q] = a.kids[q]
      /\ Len(b.kids[g]) = n /\ n \in Nat /\ i \in Nat \ {0} /\ (i + n) - 1 <= Len(a.kids[p])
      /\ Len(b.kids[p]) = (Len(a.kids[p]) - n) + 1
      /\ \A x \in 1 .. (i - 1) : b.kids[p][x].node = a.kids[p][x].node
      /\ b.kids[p][i].node = g
      /\ \A x \in (i + n) .. Len(a.kids[p]) : b.kids[p][(x - n) + 1].node = a.kids[p][x].node
      /\ \A x \in 1 .. n : b.kids[g][x].node = a.kids[p][(i + x) - 1].node
  BY DEF GroupOf
<1>2. /\ c.root = a.root /\ p # h /\ h \notin DOMAIN a.up
      /\ DOMAIN c.up = DOMAIN a.up \cup {h} /\ DOMAIN c.kids = DOMAIN a.kids \cup {h}
      /\ \A q \in DOMAIN a.kids : q # p => c.kids[q] = a.kids[q]
      /\ Len(c.kids[h]) = n
      /\ Len(c.kids[p]) = (Len(a.kids[p]) - n) + 1
      /\ \A x \in 1 .. (i - 1) : c.kids[p][x].node = a.kids[p][x].node
      /\ c.kids[p][i].node = h
      /\ \A x \in (i + n) .. Len(a.kids[p]) : c.kids[p][(x - n) + 1].node = a.kids[p][x].node
      /\ \A x \in 1 .. n : c.kids[h][x].node = a.kids[p][(i + x) - 1].node
  BY DEF GroupOf
<1>3. /\ DOMAIN a.kids \subseteq DOMAIN a.up /\ a.root \in DOMAIN a.up
      /\ \A q \in DOMAIN a.kids : Len(a.kids[q]) \in Nat
           /\ \A x \in 1 .. Len(a.kids[q]) : a.kids[q][x].node \in DOMAIN a.up
  <2>1. DOMAIN a.kids \subseteq DOMAIN a.up /\ a.root \in DOMAIN a.up
    BY GroveParts
  <2>2. ASSUME NEW q \in DOMAIN a.kids
        PROVE  Len(a.kids[q]) \in Nat
               /\ \A x \in 1 .. Len(a.kids[q]) : a.kids[q][x].node \in DOMAIN a.up
    <3>1. a.kids[q] \in Seq(KidRec) /\ NodesOf(a.kids[q]) \subseteq DOMAIN a.up
      <4>1. a.kids[q] \in Seq(KidRec) /\ NodesOf(a.kids[q]) = Children(a.up, q)
        BY GroveKids
      <4>2. Children(a.up, q) \subseteq DOMAIN a.up
        BY DEF Children
      <4> QED BY <4>1, <4>2
    <3> QED BY <3>1, KidsAt
  <2> QED BY <2>1, <2>2
<1>4. f[g] = h /\ \A x \in DOMAIN a.up : x \in DOMAIN b.up /\ f[x] = x
  BY <1>1
<1> HIDE DEF f
<1>5. f[b.root] = c.root
  BY <1>1, <1>2, <1>3, <1>4
<1>6. \A x \in DOMAIN b.up : f[x] \in DOMAIN c.up
  BY <1>1, <1>2, <1>4
<1>7. \A x \in DOMAIN b.up \ DOMAIN b.kids : f[x] = x /\ x \notin DOMAIN c.kids
  BY <1>1, <1>2, <1>4
<1>8. ASSUME NEW s \in DOMAIN b.kids
      PROVE  /\ f[s] \in DOMAIN c.kids /\ c.axis[f[s]] = b.axis[s]
             /\ Len(c.kids[f[s]]) = Len(b.kids[s])
             /\ \A x \in 1 .. Len(b.kids[s]) : c.kids[f[s]][x].node = f[b.kids[s][x].node]
  <2>1. CASE s = g
    <3>1. f[s] \in DOMAIN c.kids /\ c.axis[f[s]] = b.axis[s] /\ Len(c.kids[f[s]]) = Len(b.kids[s])
      BY <1>1, <1>2, <1>4, <2>1
    <3>2. ASSUME NEW x \in 1 .. Len(b.kids[s]) PROVE c.kids[f[s]][x].node = f[b.kids[s][x].node]
      <4>1. (i + x) - 1 \in 1 .. Len(a.kids[p]) /\ x \in 1 .. n
        <5>1. x \in 1 .. n /\ n \in Nat /\ i \in Nat \ {0} /\ (i + n) - 1 <= Len(a.kids[p])
          BY <1>1, <2>1
        <5>2. Len(a.kids[p]) \in Nat
          BY <1>1, <1>3
        <5> DEFINE L == Len(a.kids[p])
        <5> HIDE DEF L
        <5>3. (i + x) - 1 \in 1 .. L
          BY <5>1, <5>2 DEF L
        <5> QED BY <5>1, <5>3 DEF L
      <4>2. a.kids[p][(i + x) - 1].node \in DOMAIN a.up
        BY <1>1, <1>3, <4>1
      <4> QED BY <1>1, <1>2, <1>4, <2>1, <4>1, <4>2
    <3> QED BY <3>1, <3>2
  <2>2. CASE s # g /\ s # p
    <3>1. s \in DOMAIN a.kids /\ f[s] = s /\ b.kids[s] = a.kids[s] /\ c.kids[s] = a.kids[s]
          /\ s \in DOMAIN c.kids
      BY <1>1, <1>2, <1>3, <1>4, <1>8, <2>2
    <3>2. \A x \in 1 .. Len(a.kids[s]) : f[a.kids[s][x].node] = a.kids[s][x].node
      BY <1>3, <1>4, <3>1
    <3> QED BY <3>1, <3>2
  <2>3. CASE s = p
    <3>1. f[p] = p /\ p \in DOMAIN c.kids /\ c.axis[p] = b.axis[p]
          /\ Len(c.kids[p]) = Len(b.kids[p])
      BY <1>1, <1>2, <1>3, <1>4
    <3>2. ASSUME NEW x \in 1 .. Len(b.kids[p]) PROVE c.kids[p][x].node = f[b.kids[p][x].node]
      <4>1. Len(a.kids[p]) \in Nat /\ x \in 1 .. (Len(a.kids[p]) - n) + 1
        BY <1>1, <1>3
      <4>2. CASE x \in 1 .. (i - 1)
        <5>1. x \in 1 .. Len(a.kids[p])
          BY <1>1, <4>1, <4>2
        <5>2. a.kids[p][x].node \in DOMAIN a.up
          BY <1>1, <1>3, <5>1
        <5> QED BY <1>1, <1>2, <1>4, <4>2, <5>2
      <4>3. CASE x = i
        BY <1>1, <1>2, <1>4, <4>3
      <4>4. CASE x > i
        <5> DEFINE y == (x - 1) + n
        <5>1. y \in (i + n) .. Len(a.kids[p]) /\ y \in 1 .. Len(a.kids[p]) /\ (y - n) + 1 = x
          BY <1>1, <4>1, <4>4
        <5> HIDE DEF y
        <5>2. b.kids[p][x].node = a.kids[p][y].node /\ c.kids[p][x].node = a.kids[p][y].node
          BY <1>1, <1>2, <5>1
        <5>3. a.kids[p][y].node \in DOMAIN a.up
          BY <1>1, <1>3, <5>1
        <5> QED BY <1>4, <5>2, <5>3
      <4>5. x \in 1 .. (i - 1) \/ x = i \/ x > i
        BY <1>1, <4>1
      <4> QED BY <4>2, <4>3, <4>4, <4>5
    <3> QED BY <2>3, <3>1, <3>2
  <2> QED BY <1>8, <2>1, <2>2, <2>3
<1>9. Twins(b, c, f)
  BY <1>5, <1>6, <1>7, <1>8 DEF Twins
<1> QED BY <1>9, TwinShapes

-----------------------------------------------------------------------------
(* Trees that differ by a group *)

\* Two trees that become the same one with the same group have the same shape.
LEMMA TwoUngrouped ==
  ASSUME NEW a, NEW b, NEW c, Grove(a, {a.root}, {}), Grove(c, {c.root}, {}),
         NEW p, NEW g, NEW i, NEW n, GroupOf(a, b, p, g, i, n), GroupOf(c, b, p, g, i, n),
         \A q \in DOMAIN a.kids : c.axis[q] = a.axis[q]
  PROVE  Shape(c) = Shape(a)
<1> DEFINE f == [x \in DOMAIN a.up |-> x] A == a.kids[p] C == c.kids[p] B == b.kids[p]
           G == b.kids[g]
<1>1. /\ b.root = a.root /\ p \in DOMAIN a.kids /\ p # g /\ g \notin DOMAIN a.up
      /\ DOMAIN b.up = DOMAIN a.up \cup {g} /\ DOMAIN b.kids = DOMAIN a.kids \cup {g}
      /\ \A q \in DOMAIN a.kids : q # p => b.kids[q] = a.kids[q]
      /\ n \in Nat /\ i \in Nat \ {0}
      /\ Len(B) = (Len(A) - n) + 1
      /\ \A x \in 1 .. (i - 1) : B[x].node = A[x].node
      /\ \A x \in (i + n) .. Len(A) : B[(x - n) + 1].node = A[x].node
      /\ \A x \in 1 .. n : G[x].node = A[(i + x) - 1].node
  BY DEF GroupOf
<1>2. /\ b.root = c.root /\ p \in DOMAIN c.kids /\ g \notin DOMAIN c.up
      /\ DOMAIN b.up = DOMAIN c.up \cup {g} /\ DOMAIN b.kids = DOMAIN c.kids \cup {g}
      /\ \A q \in DOMAIN c.kids : q # p => b.kids[q] = c.kids[q]
      /\ Len(B) = (Len(C) - n) + 1
      /\ \A x \in 1 .. (i - 1) : B[x].node = C[x].node
      /\ \A x \in (i + n) .. Len(C) : B[(x - n) + 1].node = C[x].node
      /\ \A x \in 1 .. n : G[x].node = C[(i + x) - 1].node
  BY DEF GroupOf
<1>3. /\ DOMAIN a.kids \subseteq DOMAIN a.up /\ a.root \in DOMAIN a.up
      /\ \A q \in DOMAIN a.kids : \A x \in 1 .. Len(a.kids[q]) : a.kids[q][x].node \in DOMAIN a.up
  <2>1. DOMAIN a.kids \subseteq DOMAIN a.up /\ a.root \in DOMAIN a.up
    BY GroveParts
  <2>2. ASSUME NEW q \in DOMAIN a.kids
        PROVE  \A x \in 1 .. Len(a.kids[q]) : a.kids[q][x].node \in DOMAIN a.up
    <3>1. a.kids[q] \in Seq(KidRec) /\ NodesOf(a.kids[q]) = Children(a.up, q)
      BY GroveKids
    <3>2. Children(a.up, q) \subseteq DOMAIN a.up
      BY DEF Children
    <3> QED BY <3>1, <3>2, KidsAt
  <2> QED BY <2>1, <2>2
<1>4. A \in Seq(KidRec) /\ C \in Seq(KidRec) /\ DOMAIN c.kids \subseteq DOMAIN c.up
  <2>1. A \in Seq(KidRec) /\ C \in Seq(KidRec)
    BY <1>1, <1>2, GroveKids
  <2> QED BY <2>1, GroveParts
<1>5. DOMAIN c.up = DOMAIN a.up /\ DOMAIN c.kids = DOMAIN a.kids /\ c.root = a.root
  <2>1. DOMAIN c.up = DOMAIN a.up
    BY <1>1, <1>2, ZenonT(60)
  <2>2. DOMAIN c.kids = DOMAIN a.kids
    BY <1>1, <1>2, <1>3, <1>4
  <2> QED BY <1>1, <1>2, <2>1, <2>2
<1> HIDE DEF A, B, C, G
<1>6. Len(A) \in Nat /\ Len(C) \in Nat
  BY <1>4
<1>7. Len(C) = Len(A)
  BY <1>1, <1>2, <1>6
<1>8. ASSUME NEW x \in 1 .. Len(A) PROVE C[x].node = A[x].node
  <2>1. CASE x \in 1 .. (i - 1)
    BY <1>1, <1>2, <2>1
  <2>2. CASE x \in (i + n) .. Len(A)
    BY <1>1, <1>2, <1>7, <2>2
  <2>3. CASE x \in i .. (i + n) - 1
    <3> DEFINE y == (x - i) + 1
    <3>1. y \in 1 .. n /\ (i + y) - 1 = x
      BY <1>1, <2>3
    <3> HIDE DEF y
    <3> QED BY <1>1, <1>2, <3>1
  <2>4. x \in 1 .. (i - 1) \/ x \in (i + n) .. Len(A) \/ x \in i .. (i + n) - 1
    BY <1>1, <1>6
  <2> QED BY <2>1, <2>2, <2>3, <2>4
<1>9. \A x \in DOMAIN a.up : f[x] = x
  OBVIOUS
<1> HIDE DEF f
<1>10. ASSUME NEW s \in DOMAIN a.kids
       PROVE  /\ f[s] \in DOMAIN c.kids /\ c.axis[f[s]] = a.axis[s]
              /\ Len(c.kids[f[s]]) = Len(a.kids[s])
              /\ \A x \in 1 .. Len(a.kids[s]) : c.kids[f[s]][x].node = f[a.kids[s][x].node]
  <2>1. f[s] = s /\ s \in DOMAIN c.kids
    BY <1>3, <1>5, <1>9
  <2>2. \A x \in 1 .. Len(a.kids[s]) : f[a.kids[s][x].node] = a.kids[s][x].node
    BY <1>3, <1>9
  <2>3. CASE s = p
    <3>1. Len(c.kids[s]) = Len(a.kids[s])
      BY <1>7, <2>3 DEF A, C
    <3>2. \A x \in 1 .. Len(a.kids[s]) : c.kids[s][x].node = a.kids[s][x].node
      BY <1>8, <2>3 DEF A, C
    <3> QED BY <2>1, <2>2, <3>1, <3>2
  <2>4. CASE s # p
    <3>1. c.kids[s] = a.kids[s]
      BY <1>1, <1>2, <2>1, <2>4
    <3> QED BY <2>1, <2>2, <3>1
  <2> QED BY <2>3, <2>4
<1>11. Twins(a, c, f)
  <2>1. f[a.root] = c.root /\ \A x \in DOMAIN a.up : f[x] \in DOMAIN c.up
    BY <1>3, <1>5, <1>9
  <2>2. \A x \in DOMAIN a.up \ DOMAIN a.kids : f[x] = x /\ x \notin DOMAIN c.kids
    BY <1>5, <1>9
  <2> QED BY <1>10, <2>1, <2>2 DEF Twins
<1> QED BY <1>11, TwinShapes

\* Trees that differ in no list of children and no axis have the same shape.
LEMMA SameShape ==
  ASSUME NEW a, NEW c, Grove(a, {a.root}, {}), Grove(c, {c.root}, {}), c.root = a.root,
         c.up = a.up, c.kids = a.kids, \A q \in DOMAIN a.kids : c.axis[q] = a.axis[q]
  PROVE  Shape(c) = Shape(a)
<1> DEFINE f == [x \in DOMAIN a.up |-> x]
<1>1. \A x \in DOMAIN a.up : f[x] = x
  OBVIOUS
<1> HIDE DEF f
<1>2. DOMAIN a.kids \subseteq DOMAIN a.up /\ a.root \in DOMAIN a.up
  BY GroveParts
<1>3. ASSUME NEW s \in DOMAIN a.kids
      PROVE  \A x \in 1 .. Len(a.kids[s]) : f[a.kids[s][x].node] = a.kids[s][x].node
  <2>1. a.kids[s] \in Seq(KidRec) /\ NodesOf(a.kids[s]) = Children(a.up, s)
    BY GroveKids
  <2>2. Children(a.up, s) \subseteq DOMAIN a.up
    BY DEF Children
  <2> QED BY <1>1, <2>1, <2>2, KidsAt
<1>4. Twins(a, c, f)
  BY <1>1, <1>2, <1>3 DEF Twins
<1> QED BY <1>4, TwinShapes

\* What is above a node, with and without a group.
LEMMA GroupUp ==
  ASSUME NEW a, NEW b, Grove(a, {a.root}, {}), Grove(b, {b.root}, {}), NEW p, NEW g, NEW i, NEW n,
         GroupOf(a, b, p, g, i, n), NEW x \in DOMAIN a.up, NEW c \in DOMAIN a.up
  PROVE  c \in Up(b.up, x) <=> c \in Up(a.up, x)
<1> DEFINE u == a.up v == b.up
<1>1. /\ g \notin DOMAIN u /\ DOMAIN v = DOMAIN u \cup {g} /\ v[g] = p
      /\ \A y \in DOMAIN u : IF v[y] = g THEN u[y] = p ELSE v[y] = u[y]
  BY DEF GroupOf
<1>2. /\ Links(u) /\ Links(v) /\ NoNode \notin DOMAIN u /\ NoNode \notin DOMAIN v
      /\ \A y \in DOMAIN u : u[y] \in DOMAIN u \cup {NoNode}
      /\ x \in DOMAIN u /\ c \in DOMAIN u
  BY GroveLinks DEF Links
<1>5. p \in DOMAIN u /\ p # NoNode
  BY <1>2, GroveParts DEF GroupOf
<1> HIDE DEF u, v
<1>3. ASSUME c \in Up(v, x) PROVE c \in Up(u, x)
  <2> DEFINE A == Up(u, x) \cup IF p \in Up(u, x) THEN {g} ELSE {}
  <2>1. Up(u, x) \subseteq DOMAIN u /\ x \in Up(u, x) /\ Upward(u, Up(u, x))
    BY <1>2, UpIsUpward
  <2>2. A \subseteq DOMAIN v
    BY <1>1, <2>1
  <2>3. ASSUME NEW y \in A PROVE v[y] \in A \cup {NoNode}
    <3>1. CASE y = g
      BY <1>1, <2>1, <2>3, <3>1
    <3>2. CASE y # g
      <4>1. y \in Up(u, x) /\ u[y] \in Up(u, x) \cup {NoNode}
        BY <2>1, <2>3, <3>2 DEF Upward
      <4>2. CASE v[y] = g
        <5>1. u[y] = p
          BY <1>1, <2>1, <4>1, <4>2
        <5> QED BY <1>5, <4>1, <4>2, <5>1
      <4>3. CASE v[y] # g
        BY <1>1, <2>1, <4>1, <4>3
      <4> QED BY <4>2, <4>3
    <3> QED BY <3>1, <3>2
  <2>4. Upward(v, A) /\ x \in A
    BY <2>1, <2>2, <2>3 DEF Upward
  <2>5. c \in A
    <3>1. A \in SUBSET DOMAIN v
      BY <2>2
    <3> HIDE DEF A
    <3> QED BY <1>3, <2>4, <3>1 DEF Up
  <2> QED BY <1>1, <1>2, <2>5
<1>4. ASSUME c \in Up(u, x) PROVE c \in Up(v, x)
  <2> DEFINE A == Up(v, x) \cap DOMAIN u
  <2>1. Up(v, x) \subseteq DOMAIN v /\ x \in Up(v, x) /\ Upward(v, Up(v, x))
    BY <1>1, <1>2, UpIsUpward
  <2>2. ASSUME NEW y \in A PROVE u[y] \in A \cup {NoNode}
    <3>1. v[y] \in Up(v, x) \cup {NoNode} /\ y \in DOMAIN u
      BY <2>1 DEF Upward
    <3>2. CASE v[y] = g
      <4>1. g \in Up(v, x) /\ u[y] = p /\ v[g] = p
        BY <1>1, <1>2, <3>1, <3>2
      <4>2. p \in Up(v, x) \cup {NoNode}
        BY <2>1, <4>1 DEF Upward
      <4> QED BY <1>2, <3>1, <4>1, <4>2
    <3>3. CASE v[y] # g
      BY <1>1, <1>2, <3>1, <3>3
    <3> QED BY <3>2, <3>3
  <2>3. Upward(u, A) /\ x \in A /\ A \in SUBSET DOMAIN u
    BY <1>2, <2>1, <2>2 DEF Upward
  <2> HIDE DEF A
  <2>4. c \in A
    BY <1>4, <2>3 DEF Up
  <2> QED BY <2>4 DEF A
<1> QED BY <1>3, <1>4 DEF u, v

-----------------------------------------------------------------------------
(* What is at or below a node *)

\* What is at or below a node.
LEMMA BelowIs ==
  ASSUME NEW l, NEW tops, NEW thin, Grove(l, tops, thin), NEW n \in DOMAIN l.up, NEW x
  PROVE  x \in Below(l, n) <=> x \in DOMAIN l.up /\ n \in Up(l.up, x)
<1>1. x \in Below(l, n) <=> x \in DOMAIN l.up /\ (x = n \/ n \in Above(l, x))
  BY DEF Below, Nodes
<1> SUFFICES ASSUME x \in DOMAIN l.up PROVE n \in Up(l.up, x) <=> x = n \/ n \in Above(l, x)
  BY <1>1
<1>2. Above(l, x) = IF l.up[x] = NoNode THEN {} ELSE Up(l.up, l.up[x])
  BY AboveIs DEF Nodes
<1>3. Links(l.up)
  BY GroveLinks
<1>4. /\ l.up[x] = NoNode => Up(l.up, x) = {x}
      /\ l.up[x] # NoNode => Up(l.up, x) = {x} \cup Up(l.up, l.up[x])
  BY <1>3, UpStep
<1> QED BY <1>2, <1>4

\* What is below a split other than the split is below one of its children.
LEMMA BelowChildren ==
  ASSUME NEW l, NEW tops, NEW thin, Grove(l, tops, thin), NEW s \in DOMAIN l.kids,
         NEW x \in DOMAIN l.up
  PROVE  (\E c \in Children(l.up, s) : c \in Up(l.up, x)) <=> s \in Up(l.up, x) /\ x # s
<1> DEFINE u == l.up
<1>1. Links(u) /\ s \in DOMAIN u /\ s # NoNode
  <2>1. Links(u) /\ s \in DOMAIN u
    BY GroveLinks, GroveParts
  <2> QED BY <2>1, GroveParts
<1> HIDE DEF u
<1>2. ASSUME NEW c \in Children(u, s), c \in Up(u, x), x \in DOMAIN u
      PROVE  s \in Up(u, x) /\ x # s
  <2>1. c \in DOMAIN u /\ u[c] = s
    BY DEF Children
  <2>2. s \in Up(u, c) /\ c \notin Up(u, s)
    BY <1>1, <2>1, UpOne, UpNotBack
  <2>3. Up(u, c) \subseteq Up(u, x)
    BY <1>1, <1>2, UpTransitive
  <2> QED BY <1>2, <2>2, <2>3
<1>3. ASSUME s \in Up(u, x), x # s, x \in DOMAIN u PROVE \E c \in Children(u, s) : c \in Up(u, x)
  <2>1. PICK c \in Up(u, x) : u[c] = s
    BY <1>1, <1>3, UpChild
  <2>2. c \in DOMAIN u
    BY DEF Up
  <2> QED BY <2>1, <2>2 DEF Children
<1>4. x \in DOMAIN u
  BY DEF u
<1> QED BY <1>2, <1>3, <1>4 DEF u

\* Turned twice an axis is what it was, and the axes of a tree are of two kinds.
LEMMA AcrossTwice ==
  ASSUME NEW x \in Axis
  PROVE  /\ Across(x) \in Axis /\ Across(Across(x)) = x /\ Across(x) # x
         /\ \A y \in Axis : y # x => Across(y) = x /\ Across(x) = y
  BY DEF Axis, Across

\* The axes after a turn.
LEMMA Toggled ==
  ASSUME NEW l, NEW tops, NEW thin, Grove(l, tops, thin), NEW S, NEW q \in DOMAIN l.kids
  PROVE  /\ ToggleAxes(l, S).axis[q] = IF q \in S THEN Across(l.axis[q]) ELSE l.axis[q]
         /\ l.axis[q] \in Axis
<1>1. DOMAIN l.axis = DOMAIN l.kids /\ l.axis \in [DOMAIN l.kids -> Axis]
      /\ l = Lay(l.root, l.axis, l.kids, l.up)
  BY GroveParts
<1> DEFINE f == [s \in DOMAIN l.axis |-> IF s \in S THEN Across(l.axis[s]) ELSE l.axis[s]]
<1>2. ToggleAxes(l, S) = WithAxis(l, f)
  BY Zenon DEF ToggleAxes, WithAxis
<1>3. f[q] = IF q \in S THEN Across(l.axis[q]) ELSE l.axis[q]
  BY <1>1
<1> HIDE DEF f
<1>4. WithAxis(l, f).axis = f
  BY <1>1, LayWithAxis, LayParts
<1> QED BY <1>1, <1>2, <1>3, <1>4

\* Siblings are not below each other, and their parent is below none of them.
LEMMA BesideNotBelow ==
  ASSUME NEW l, NEW tops, NEW thin, Grove(l, tops, thin), NEW p \in DOMAIN l.kids,
         NEW n \in Children(l.up, p)
  PROVE  /\ p \notin Below(l, n) /\ n \in Below(l, n)
         /\ \A c \in Children(l.up, p) : c # n => c \notin Below(l, n)
<1> DEFINE u == l.up
<1>1. Links(u) /\ p # NoNode
  <2>1. Links(u) /\ p \in DOMAIN u
    BY GroveLinks, GroveParts
  <2> QED BY <2>1, GroveParts
<1> HIDE DEF u
<1>2. n \in DOMAIN u /\ u[n] = p
  BY DEF Children, u
<1>3. n \notin Up(u, p) /\ n \in Up(u, n)
  BY <1>1, <1>2, UpNotBack, UpIsUpward
<1>4. ASSUME NEW c \in Children(u, p), c # n PROVE n \notin Up(u, c)
  <2>1. c \in DOMAIN u /\ u[c] = p /\ c \in Up(u, c)
    BY <1>1, UpIsUpward DEF Children
  <2> QED BY <1>1, <1>2, <1>4, <2>1, UpOneChild
<1> QED BY <1>2, <1>3, <1>4, BelowIs DEF u

-----------------------------------------------------------------------------
(* rotate_split *)

\* No child of split p is a split with its axis.
PlainBelow(l, p) == \A c \in Children(l.up, p) \cap DOMAIN l.kids : l.axis[c] # l.axis[p]

\* A split whose children are several has a list of two or more.
LEMMA SeveralKids ==
  ASSUME NEW l, Grove(l, {l.root}, {}), NEW s \in DOMAIN l.kids
  PROVE  Len(l.kids[s]) \in Nat /\ Len(l.kids[s]) > 1
<1>1. /\ l.kids[s] \in Seq(KidRec) /\ NodesOf(l.kids[s]) = Children(l.up, s)
      /\ Several(Children(l.up, s))
  BY GroveKids
<1>2. PICK x \in NodesOf(l.kids[s]), y \in NodesOf(l.kids[s]) : x # y
  BY <1>1 DEF Several
<1>3. PICK i \in 1 .. Len(l.kids[s]), j \in 1 .. Len(l.kids[s]) :
        l.kids[s][i].node = x /\ l.kids[s][j].node = y
  BY DEF NodesOf
<1>4. i # j
  BY <1>2, <1>3
<1> QED BY <1>1, <1>4

\* Being such a group is about the root, the parents and the lists of children.
LEMMA GroupCopied ==
  ASSUME NEW a, NEW b, NEW c, NEW p, NEW g, NEW i, NEW n, GroupOf(a, b, p, g, i, n),
         c.root = b.root, c.up = b.up, c.kids = b.kids
  PROVE  GroupOf(a, c, p, g, i, n)
<1> DEFINE Grouped(r, u, k) ==
  /\ r = a.root /\ p \in DOMAIN a.kids /\ p # g /\ g \notin DOMAIN a.up
  /\ DOMAIN u = DOMAIN a.up \cup {g} /\ DOMAIN k = DOMAIN a.kids \cup {g}
  /\ \A q \in DOMAIN a.kids : q # p => k[q] = a.kids[q]
  /\ u[g] = p
  /\ \A x \in DOMAIN a.up : IF u[x] = g THEN a.up[x] = p ELSE u[x] = a.up[x]
  /\ Len(k[g]) = n /\ n \in Nat /\ i \in Nat \ {0} /\ (i + n) - 1 <= Len(a.kids[p])
  /\ Len(k[p]) = (Len(a.kids[p]) - n) + 1
  /\ \A x \in 1 .. (i - 1) : k[p][x].node = a.kids[p][x].node
  /\ k[p][i].node = g
  /\ \A x \in (i + n) .. Len(a.kids[p]) : k[p][(x - n) + 1].node = a.kids[p][x].node
  /\ \A x \in 1 .. n : k[g][x].node = a.kids[p][(i + x) - 1].node
<1>1. Grouped(b.root, b.up, b.kids)
  BY Zenon DEF GroupOf
<1>2. Grouped(c.root, c.up, c.kids) => GroupOf(a, c, p, g, i, n)
  BY Zenon DEF GroupOf
<1> HIDE DEF Grouped
<1>3. Grouped(c.root, c.up, c.kids)
  BY <1>1
<1> QED BY <1>2, <1>3

\* The axes of the splits of S are turned, the others are as they were.
AxesTurned(l, S, m) ==
  \A q \in DOMAIN m.kids : m.axis[q] = IF q \in S THEN Across(l.axis[q]) ELSE l.axis[q]

\* m is the tree l where the children of s are children of p, every axis at or below s turned.
IntoParent(l, s, p, i, m) ==
  /\ Grove(m, {m.root}, {}) /\ GroupOf(m, l, p, s, i, Len(l.kids[s]))
  /\ AxesTurned(l, Below(l, s), m) /\ l.axis[s] = Across(l.axis[p]) /\ m.axis[p] = l.axis[p]

\* rotate_split makes the children of a split below another one children of that one.
LEMMA RotatedIntoParent ==
  ASSUME NEW l, Grove(l, {l.root}, {}), NEW s \in DOMAIN l.kids, NEW p, p = l.up[s], p # NoNode,
         PlainBelow(l, p), NEW m, m = RotateSplit(l, s), NEW i, i = ChildIndex(l, p, s)
  PROVE  IntoParent(l, s, p, i, m)
<1> DEFINE t == ToggleAxes(l, Below(l, s))
<1>1. /\ Grove(t, {l.root}, {}) /\ t.root = l.root /\ t.kids = l.kids /\ t.up = l.up
      /\ Nodes(t) = Nodes(l)
  BY ToggleGrove
<1>2. \A q \in DOMAIN l.kids :
        /\ t.axis[q] = IF q \in Below(l, s) THEN Across(l.axis[q]) ELSE l.axis[q]
        /\ l.axis[q] \in Axis
  BY Toggled
<1>3. m = IF p # NoNode /\ t.axis[p] = t.axis[s] THEN Flatten(t, p) ELSE t
  BY Zenon DEF RotateSplit
<1> HIDE DEF t
<1>4. p \in DOMAIN l.kids /\ s \in Children(l.up, p)
  <2>1. s \in DOMAIN l.up
    BY GroveParts
  <2> QED BY <2>1, GroveIndex
<1>5. /\ p \notin Below(l, s) /\ s \in Below(l, s)
      /\ \A c \in Children(l.up, p) : c # s => c \notin Below(l, s)
  BY <1>4, BesideNotBelow
<1>6. l.axis[s] # l.axis[p] /\ l.axis[s] \in Axis /\ l.axis[p] \in Axis
  BY <1>2, <1>4 DEF PlainBelow
<1>7. l.axis[s] = Across(l.axis[p]) /\ Across(l.axis[s]) = l.axis[p]
  BY <1>6, AcrossTwice
<1>8. t.axis[p] = l.axis[p] /\ t.axis[s] = l.axis[p]
  BY <1>2, <1>4, <1>5, <1>7
<1>9. m = Flatten(t, p) /\ p \in DOMAIN t.kids /\ Grove(t, {t.root}, {})
  BY <1>1, <1>3, <1>4, <1>8
<1>10. SameAxisKids(t, p) = {s}
  <2>1. SameAxisKids(t, p)
          = {n \in Children(t.up, p) : n \in DOMAIN t.kids /\ t.axis[n] = t.axis[p]}
    BY <1>9, FlattenLists
  <2>2. ASSUME NEW c \in Children(l.up, p), c \in DOMAIN l.kids, c # s
        PROVE  t.axis[c] # t.axis[p]
    <3>1. t.axis[c] = l.axis[c] /\ l.axis[c] # l.axis[p]
      BY <1>2, <1>5, <2>2 DEF PlainBelow
    <3> QED BY <1>8, <3>1
  <2> QED BY <1>1, <1>4, <1>8, <2>1, <2>2
<1>11. i = ChildIndex(t, p, s)
  BY <1>1 DEF ChildIndex
<1>12. /\ GroupOf(m, t, p, s, i, Len(t.kids[s])) /\ Grove(m, {m.root}, {})
       /\ \A q \in DOMAIN m.kids : m.axis[q] = t.axis[q]
  BY <1>9, <1>10, <1>11, FlattenIsGroup
<1>13. GroupOf(m, l, p, s, i, Len(l.kids[s]))
  <2>1. GroupOf(m, t, p, s, i, Len(l.kids[s]))
    <3>1. t.kids[s] = l.kids[s]
      BY <1>1
    <3> QED BY <1>12, <3>1
  <2>2. t.root = l.root /\ t.up = l.up /\ t.kids = l.kids
    BY <1>1
  <2> QED BY <2>1, <2>2, GroupCopied, Zenon
<1>14. p \in DOMAIN m.kids /\ DOMAIN l.kids = DOMAIN m.kids \cup {s}
  BY <1>13 DEF GroupOf
<1>15. AxesTurned(l, Below(l, s), m)
  BY <1>2, <1>12, <1>14 DEF AxesTurned
<1> QED BY <1>7, <1>8, <1>12, <1>13, <1>14, <1>15 DEF IntoParent

\* sel is the n children of q from the i-th on.
RowOf(l, q, i, n, sel) ==
  sel.parent = q /\ Ranged(l, q, sel.nodes, i, (i + n) - 1) /\ Len(sel.nodes) = n

\* select_nodes selects siblings that stand in a row by the first and the last of them.
LEMMA SelectedInARow ==
  ASSUME NEW l, Grove(l, {l.root}, {}), NEW q \in DOMAIN l.kids, NEW i \in Nat \ {0},
         NEW n \in Nat, n > 1, (i + n) - 1 <= Len(l.kids[q]),
         NEW nodes, Len(nodes) = n, nodes[1] = l.kids[q][i].node,
         nodes[n] = l.kids[q][(i + n) - 1].node, NEW b, NEW sel, sel = SelectNodes(l, nodes, b)
  PROVE  RowOf(l, q, i, n, sel)
<1> DEFINE K == l.kids[q] j == (i + n) - 1 x == nodes[1] y == nodes[n]
<1>1. K \in Seq(KidRec) /\ Distinct(K) /\ NodesOf(K) = Children(l.up, q)
  BY GroveKids
<1>2. Len(K) \in Nat
  BY <1>1
<1>3. i \in 1 .. Len(K) /\ j \in i .. Len(K) /\ j \in 1 .. Len(K) /\ i < j /\ i <= j /\ ~(j <= i)
      /\ (j - i) + 1 = n
  BY <1>2
<1>4. x \in Children(l.up, q) /\ y \in Children(l.up, q) /\ x = K[i].node /\ y = K[j].node
  BY <1>1, <1>3, KidsAt
<1> HIDE DEF K, j, x, y
<1>5. ChildIndex(l, q, x) = i /\ ChildIndex(l, q, y) = j /\ l.up[x] = q /\ l.up[y] = q
  <2>1. /\ ChildIndex(l, q, x) \in 1 .. Len(K) /\ K[ChildIndex(l, q, x)].node = x /\ l.up[x] = q
        /\ ChildIndex(l, q, y) \in 1 .. Len(K) /\ K[ChildIndex(l, q, y)].node = y /\ l.up[y] = q
    BY <1>4, IndexOfChild DEF K
  <2> QED BY <1>1, <1>3, <1>4, <2>1 DEF Distinct
<1> DEFINE S == SubSeq(KidNodes(K), i, j)
<1>6. \/ sel = SelectionOf(l, x, y, S)
      \/ sel = SelectionOf(l, y, x, S)
  <2>1. sel = IF b THEN RangeSelection(l, x, y) ELSE RangeSelection(l, y, x)
    <3>1. Len(nodes) # 1
      OBVIOUS
    <3> QED BY <3>1, Zenon DEF SelectNodes, x, y
  <2>2. RangeSelection(l, x, y) = SelectionOf(l, x, y, S)
    BY <1>3, <1>5, Zenon DEF RangeSelection, K
  <2>3. RangeSelection(l, y, x) = SelectionOf(l, y, x, S)
    BY <1>3, <1>5, Zenon DEF RangeSelection, K
  <2> QED BY <2>1, <2>2, <2>3
<1>7. sel.parent = q /\ sel.nodes = S
  BY <1>5, <1>6 DEF SelectionOf
<1>8. Ranged(l, q, sel.nodes, i, j)
  BY <1>3, <1>7 DEF Ranged, K
<1>9. Len(sel.nodes) = (j - i) + 1
  BY <1>8, RangedParts
<1> QED BY <1>3, <1>7, <1>8, <1>9 DEF j, RowOf

-----------------------------------------------------------------------------
(* A split turned twice *)

\* What rotate_pane_selection_level does with several siblings.
LEMMA RangeLevel ==
  ASSUME NEW l, NEW sel, Len(sel.nodes) > 1
  PROVE  /\ WholeLevel(l, sel)
              => /\ RotateLevel(l, sel).layout = RotateSplit(l, sel.parent)
                 /\ RotateLevel(l, sel).selection
                      = SelectNodes(RotateSplit(l, sel.parent), sel.nodes, sel.anchor = sel.nodes[1])
         /\ ~WholeLevel(l, sel)
              => /\ RotateLevel(l, sel).layout = RotateRange(l, sel).layout
                 /\ RotateLevel(l, sel).selection
                      = SingleSelection(RotateRange(l, sel).layout, RotateRange(l, sel).group)
<1>1. ASSUME NEW x, NEW y PROVE Rotated(x, y).layout = x /\ Rotated(x, y).selection = y
  BY DEF Rotated
<1>2. RotateLevel(l, sel) = RotateRangeLevel(l, sel)
  BY Zenon DEF RotateLevel
<1>3. ASSUME WholeLevel(l, sel)
      PROVE  RotateRangeLevel(l, sel)
            = Rotated(RotateSplit(l, sel.parent),
                      SelectNodes(RotateSplit(l, sel.parent), sel.nodes,
                      sel.anchor = sel.nodes[1]))
  BY <1>3, Zenon DEF RotateRangeLevel
<1>4. ASSUME ~WholeLevel(l, sel)
      PROVE  RotateRangeLevel(l, sel)
            = Rotated(RotateRange(l, sel).layout,
                      SingleSelection(RotateRange(l, sel).layout, RotateRange(l, sel).group))
  BY <1>4, Zenon DEF RotateRangeLevel
<1> QED BY <1>1, <1>2, <1>3, <1>4

\* What it does with one node.
LEMMA OneLevel ==
  ASSUME NEW l, NEW sel, ~(Len(sel.nodes) > 1), NEW s, s = sel.nodes[1]
  PROVE  /\ ~IsLeaf(l, s)
              => /\ RotateLevel(l, sel).layout = RotateSplit(l, s)
                 /\ RotateLevel(l, sel).selection
                      = IF l.up[s] = NoNode THEN SingleSelection(RotateSplit(l, s), s)
                        ELSE SelectNodes(RotateSplit(l, s), KidNodes(l.kids[s]), TRUE)
         /\ IsLeaf(l, s) /\ sel.parent # NoNode
              => /\ RotateLevel(l, sel).layout = RotateSplit(l, sel.parent)
                 /\ RotateLevel(l, sel).selection
                      = SelectNodes(RotateSplit(l, sel.parent), KidNodes(l.kids[sel.parent]), TRUE)
         /\ IsLeaf(l, s) /\ sel.parent = NoNode
              => RotateLevel(l, sel).layout = l /\ RotateLevel(l, sel).selection = sel
<1>1. ASSUME NEW x, NEW y PROVE Rotated(x, y).layout = x /\ Rotated(x, y).selection = y
  BY DEF Rotated
<1> DEFINE y == IF l.up[s] = NoNode THEN SingleSelection(RotateSplit(l, s), s)
                ELSE SelectNodes(RotateSplit(l, s), KidNodes(l.kids[s]), TRUE)
           t == RotateSplit(l, s) v == RotateSplit(l, sel.parent)
           z == SelectNodes(v, KidNodes(l.kids[sel.parent]), TRUE)
<1>2. ~IsLeaf(l, s) => RotateLevel(l, sel) = Rotated(t, y)
  BY Zenon DEF RotateLevel, RotateGroup
<1>3. IsLeaf(l, s) /\ sel.parent # NoNode => RotateLevel(l, sel) = Rotated(v, z)
  BY Zenon DEF RotateLevel, RotateLeafLevel
<1>4. IsLeaf(l, s) /\ sel.parent = NoNode
        => RotateLevel(l, sel) = [changed |-> FALSE, layout |-> l, selection |-> sel]
  BY Zenon DEF RotateLevel
<1>5. IsLeaf(l, s) /\ sel.parent = NoNode
        => RotateLevel(l, sel).layout = l /\ RotateLevel(l, sel).selection = sel
  BY <1>4
<1> HIDE DEF y, t, v, z
<1>6. /\ ~IsLeaf(l, s) => RotateLevel(l, sel).layout = t /\ RotateLevel(l, sel).selection = y
      /\ IsLeaf(l, s) /\ sel.parent # NoNode
           => RotateLevel(l, sel).layout = v /\ RotateLevel(l, sel).selection = z
  BY <1>1, <1>2, <1>3
<1> QED BY <1>5, <1>6, Zenon DEF y, t, v, z

\* What is at or below some of the nodes S.
BelowSome(l, S) == UNION {Below(l, c) : c \in S}

\* What hangs below the children of a split that joined its parent is what hung below it.
LEMMA BelowTheJoined ==
  ASSUME NEW l, Grove(l, {l.root}, {}), NEW m, Grove(m, {m.root}, {}),
         NEW p, NEW s, NEW i, NEW n, GroupOf(m, l, p, s, i, n), NEW q \in DOMAIN m.kids
  PROVE  q \in BelowSome(m, Children(l.up, s)) <=> q \in Below(l, s)
<1>1. /\ DOMAIN l.up = DOMAIN m.up \cup {s} /\ s \notin DOMAIN m.up /\ s \in DOMAIN l.kids
      /\ DOMAIN m.kids \subseteq DOMAIN m.up /\ s \in DOMAIN l.up
      /\ NoNode \notin DOMAIN l.up
  <2>1. DOMAIN l.up = DOMAIN m.up \cup {s} /\ s \notin DOMAIN m.up /\ s \in DOMAIN l.kids
    BY DEF GroupOf
  <2> QED BY <2>1, GroveParts, GroveLinks, NoNodeAssumption
<1>2. q \in DOMAIN m.up /\ q \in DOMAIN l.up /\ q # s
  BY <1>1
<1>3. ASSUME NEW c \in Children(l.up, s) PROVE c \in DOMAIN m.up
  <2>1. c \in DOMAIN l.up /\ l.up[c] = s
    BY DEF Children
  <2>2. l.up[s] # s
    BY DEF GroupOf
  <2> QED BY <1>1, <2>1, <2>2
<1>4. ASSUME NEW c \in Children(l.up, s) PROVE q \in Below(m, c) <=> c \in Up(l.up, q)
  <2>1. q \in Below(m, c) <=> c \in Up(m.up, q)
    BY <1>2, <1>3, BelowIs
  <2>2. c \in Up(l.up, q) <=> c \in Up(m.up, q)
    BY <1>2, <1>3, GroupUp
  <2> QED BY <2>1, <2>2
<1>5. (\E c \in Children(l.up, s) : c \in Up(l.up, q)) <=> s \in Up(l.up, q) /\ q # s
  BY <1>1, <1>2, BelowChildren
<1>6. q \in Below(l, s) <=> s \in Up(l.up, q)
  BY <1>1, <1>2, BelowIs
<1> QED BY <1>2, <1>4, <1>5, <1>6 DEF BelowSome

\* A split below another one turned, and then what were its children: it is there again.
LEMMA SplitTurnedTwice ==
  ASSUME NEW l, Grove(l, {l.root}, {}), SplitsNeverRunOut,
         NEW s \in DOMAIN l.kids, l.up[s] # NoNode,
         PlainBelow(l, l.up[s]), NEW m, m = RotateSplit(l, s),
         NEW nodes, Len(nodes) = Len(l.kids[s]), nodes[1] = l.kids[s][1].node,
         nodes[Len(nodes)] = l.kids[s][Len(nodes)].node, NEW b
  PROVE  Shape(RotateLevel(m, SelectNodes(m, nodes, b)).layout) = Shape(l)
<1> DEFINE p == l.up[s] i == ChildIndex(l, p, s) n == Len(l.kids[s])
           sel == SelectNodes(m, nodes, b)
           g == RotateRange(m, sel).group c == RotateRange(m, sel).layout
<1>a. p = l.up[s] /\ p # NoNode /\ i = ChildIndex(l, p, s) /\ PlainBelow(l, p)
  OBVIOUS
<1>b. n = Len(l.kids[s])
  OBVIOUS
<1> HIDE DEF p, i, n
<1>1. /\ Grove(m, {m.root}, {}) /\ GroupOf(m, l, p, s, i, n)
      /\ AxesTurned(l, Below(l, s), m)
      /\ l.axis[s] = Across(l.axis[p]) /\ m.axis[p] = l.axis[p]
  <2>1. IntoParent(l, s, p, i, m)
    BY <1>a, RotatedIntoParent
  <2> QED BY <1>b, <2>1 DEF IntoParent
<1>2. n \in Nat /\ n > 1
  BY <1>b, SeveralKids
<1>3. /\ p \in DOMAIN m.kids /\ p # s /\ s \notin DOMAIN m.up /\ DOMAIN l.kids = DOMAIN m.kids \cup {s}
      /\ i \in Nat \ {0} /\ (i + n) - 1 <= Len(m.kids[p])
      /\ Len(l.kids[p]) = (Len(m.kids[p]) - n) + 1
      /\ \A x \in 1 .. n : l.kids[s][x].node = m.kids[p][(i + x) - 1].node
  BY <1>1 DEF GroupOf
<1>4. Len(l.kids[p]) > 1 /\ Len(l.kids[p]) \in Nat /\ Len(m.kids[p]) \in Nat /\ p \in DOMAIN l.kids
  BY <1>1, <1>3, SeveralKids
<1>5. nodes[1] = m.kids[p][i].node /\ nodes[n] = m.kids[p][(i + n) - 1].node /\ Len(nodes) = n
  <2>1. 1 \in 1 .. n /\ n \in 1 .. n /\ (i + 1) - 1 = i
    BY <1>2, <1>3
  <2> QED BY <1>3, <2>1 DEF n
<1>6. /\ sel.parent = p /\ Ranged(m, p, sel.nodes, i, (i + n) - 1) /\ Len(sel.nodes) = n
  <2>1. sel = SelectNodes(m, nodes, b)
    OBVIOUS
  <2> HIDE DEF sel
  <2>2. RowOf(m, p, i, n, sel)
    BY <1>1, <1>2, <1>3, <1>5, <2>1, SelectedInARow
  <2> QED BY <2>2 DEF RowOf
<1>7. ~WholeLevel(m, sel) /\ Len(sel.nodes) # 1 /\ Len(sel.nodes) > 1
  <2>1. Len(sel.nodes) # Len(m.kids[sel.parent])
    BY <1>2, <1>3, <1>4, <1>6
  <2> QED BY <1>2, <1>6, <2>1 DEF WholeLevel
<1> HIDE DEF sel
<1>8. RotateLevel(m, sel).layout = c
  BY <1>7, RangeLevel
<1>9. /\ Grove(c, {c.root}, {}) /\ GroupOf(m, c, p, g, i, n)
      /\ RangeTurned(m, p, ToSet(sel.nodes), g, c)
  <2>1. Ranged(m, sel.parent, sel.nodes, i, (i + n) - 1)
    BY <1>6
  <2>2. /\ Grove(c, {c.root}, {}) /\ GroupOf(m, c, sel.parent, g, i, Len(sel.nodes))
        /\ RangeTurned(m, sel.parent, ToSet(sel.nodes), g, c)
    BY <1>1, <1>7, <2>1, RangeIsGroup
  <2> QED BY <1>6, <2>2
<1> HIDE DEF c, g
<1>10. ToSet(sel.nodes) = Children(l.up, s)
  <2>1. /\ sel.nodes \in Seq(Pane \cup Split) /\ Len(sel.nodes) = n
        /\ \A x \in 1 .. Len(sel.nodes) : sel.nodes[x] = m.kids[p][(i + x) - 1].node
    BY <1>1, <1>6, RangedParts
  <2>2. \A x \in 1 .. n : sel.nodes[x] = l.kids[s][x].node
    BY <1>3, <2>1
  <2>3. Children(l.up, s) = NodesOf(l.kids[s])
    BY GroveKids
  <2>4. ToSet(sel.nodes) = {sel.nodes[x] : x \in 1 .. n}
    BY <2>1 DEF ToSet
  <2>5. NodesOf(l.kids[s]) = {l.kids[s][x].node : x \in 1 .. n}
    BY DEF NodesOf, n
  <2> QED BY <2>2, <2>3, <2>4, <2>5
<1>11. ASSUME NEW q \in DOMAIN m.kids PROVE c.axis[q] = l.axis[q]
  <2> DEFINE U == BelowSome(m, Children(l.up, s))
  <2>1. q \in U <=> q \in Below(l, s)
    BY <1>1, BelowTheJoined, Zenon
  <2>2. c.axis[q] = ToggleAxes(m, U).axis[q]
    BY <1>9, <1>10 DEF RangeTurned, BelowSome
  <2> HIDE DEF U
  <2>3. c.axis[q] = IF q \in U THEN Across(m.axis[q]) ELSE m.axis[q]
    BY <1>1, <2>2, Toggled
  <2>4. m.axis[q] = IF q \in Below(l, s) THEN Across(l.axis[q]) ELSE l.axis[q]
    BY <1>1 DEF AxesTurned
  <2>5. l.axis[q] \in Axis
    BY <1>3, Toggled
  <2>6. Across(Across(l.axis[q])) = l.axis[q]
    BY <2>5, AcrossTwice
  <2> QED BY <2>1, <2>3, <2>4, <2>6
<1>12. c.axis[g] = l.axis[s]
  BY <1>1, <1>9 DEF RangeTurned
<1>13. Shape(c) = Shape(l)
  BY <1>1, <1>9, <1>11, <1>12, TwoGroups
<1> QED BY <1>8, <1>13 DEF sel

\* The root turned twice.
LEMMA RootTurnedTwice ==
  ASSUME NEW l, Grove(l, {l.root}, {}), NEW s \in DOMAIN l.kids, l.up[s] = NoNode,
         NEW m, m = RotateSplit(l, s), NEW c, c = RotateSplit(m, s)
  PROVE  Shape(c) = Shape(l) /\ m.up = l.up /\ m.kids = l.kids /\ Grove(m, {m.root}, {})
<1>1. m = ToggleAxes(l, Below(l, s))
  BY Zenon DEF RotateSplit
<1>2. Grove(m, {m.root}, {}) /\ m.root = l.root /\ m.up = l.up /\ m.kids = l.kids
  BY <1>1, ToggleGrove
<1>3. c = ToggleAxes(m, Below(m, s))
  <2>1. m.up[s] = NoNode
    BY <1>2
  <2> QED BY <2>1, Zenon DEF RotateSplit
<1>4. Grove(c, {c.root}, {}) /\ c.root = l.root /\ c.up = l.up /\ c.kids = l.kids
  BY <1>2, <1>3, ToggleGrove
<1>5. s \in DOMAIN l.up /\ s \in DOMAIN m.up /\ DOMAIN l.kids \subseteq DOMAIN l.up
  BY <1>2, GroveParts
<1>6. ASSUME NEW q \in DOMAIN l.kids PROVE c.axis[q] = l.axis[q]
  <2>1. q \in Below(m, s) <=> q \in Below(l, s)
    <3>1. q \in Below(m, s) <=> q \in DOMAIN m.up /\ s \in Up(m.up, q)
      BY <1>2, <1>5, BelowIs
    <3>2. q \in Below(l, s) <=> q \in DOMAIN l.up /\ s \in Up(l.up, q)
      BY <1>5, BelowIs
    <3> QED BY <1>2, <3>1, <3>2
  <2>2. m.axis[q] = (IF q \in Below(l, s) THEN Across(l.axis[q]) ELSE l.axis[q])
        /\ l.axis[q] \in Axis
    BY <1>1, Toggled
  <2>3. c.axis[q] = IF q \in Below(m, s) THEN Across(m.axis[q]) ELSE m.axis[q]
    BY <1>2, <1>3, Toggled
  <2>4. Across(Across(l.axis[q])) = l.axis[q]
    BY <2>2, AcrossTwice
  <2> QED BY <2>1, <2>2, <2>3, <2>4
<1> QED BY <1>2, <1>4, <1>6, SameShape

-----------------------------------------------------------------------------
(* A range turned twice *)

\* The range became a group below a split with the other axis.
LEMMA GroupIsPlain ==
  ASSUME NEW l, Grove(l, {l.root}, {}), NEW m, Grove(m, {m.root}, {}), NEW p, NEW g, NEW i, NEW n,
         GroupOf(l, m, p, g, i, n), RangeTurned(l, p, Children(m.up, g), g, m), PlainBelow(l, p)
  PROVE  PlainBelow(m, p)
<1> DEFINE S == Children(m.up, g) U == BelowSome(l, S)
<1>1. /\ p \in DOMAIN l.kids /\ g \notin DOMAIN l.up /\ p # g
      /\ DOMAIN m.up = DOMAIN l.up \cup {g} /\ DOMAIN m.kids = DOMAIN l.kids \cup {g}
      /\ \A x \in DOMAIN l.up : IF m.up[x] = g THEN l.up[x] = p ELSE m.up[x] = l.up[x]
  BY DEF GroupOf
<1>2. /\ m.axis[g] = Across(l.axis[p])
      /\ \A q \in DOMAIN l.kids : m.axis[q] = ToggleAxes(l, U).axis[q]
  BY DEF RangeTurned, BelowSome
<1>3. S \subseteq Children(l.up, p)
  <2>1. ASSUME NEW x \in S PROVE x \in Children(l.up, p)
    <3>1. x \in DOMAIN m.up /\ m.up[x] = g
      BY DEF Children
    <3>2. m.up[g] = p
      BY DEF GroupOf
    <3>3. x \in DOMAIN l.up /\ l.up[x] = p
      BY <1>1, <3>1, <3>2
    <3> QED BY <3>3 DEF Children
  <2> QED BY <2>1
<1>4. ASSUME NEW c \in Children(l.up, p) PROVE c \in U => c \in S
  <2>1. \A x \in S : x # c => c \notin Below(l, x)
    BY <1>1, <1>3, BesideNotBelow
  <2> QED BY <2>1 DEF BelowSome
<1>5. p \notin U
  <2>1. \A x \in S : p \notin Below(l, x)
    BY <1>1, <1>3, BesideNotBelow
  <2> QED BY <2>1 DEF BelowSome
<1> HIDE DEF U
<1>6. \A q \in DOMAIN l.kids :
        m.axis[q] = (IF q \in U THEN Across(l.axis[q]) ELSE l.axis[q]) /\ l.axis[q] \in Axis
  BY <1>2, Toggled
<1>7. m.axis[p] = l.axis[p] /\ l.axis[p] \in Axis
  BY <1>1, <1>5, <1>6
<1> SUFFICES ASSUME NEW c \in Children(m.up, p) \cap DOMAIN m.kids PROVE m.axis[c] # m.axis[p]
  BY DEF PlainBelow
<1>8. CASE c = g
  BY <1>2, <1>7, <1>8, AcrossTwice
<1>9. CASE c # g
  <2>1. c \in DOMAIN l.kids /\ c \in DOMAIN m.up /\ m.up[c] = p
    BY <1>1, <1>9 DEF Children
  <2>2. c \in DOMAIN l.up
    BY <2>1, <1>1, <1>9
  <2>3. l.up[c] = p /\ c \notin S
    BY <1>1, <2>1, <2>2 DEF Children
  <2>4. c \in Children(l.up, p)
    BY <2>2, <2>3 DEF Children
  <2>5. m.axis[c] = l.axis[c]
    BY <1>4, <1>6, <2>1, <2>3, <2>4
  <2>6. l.axis[c] # l.axis[p]
    BY <2>1, <2>4 DEF PlainBelow
  <2> QED BY <1>7, <2>5, <2>6
<1> QED BY <1>8, <1>9

\* What rotate_pane_selection_level does with one split.
LEMMA OneSplit ==
  ASSUME NEW l, NEW s, ~IsLeaf(l, s), NEW sel, sel.nodes = <<s>>
  PROVE  RotateLevel(l, sel).layout = RotateSplit(l, s)
<1>1. ~(Len(sel.nodes) > 1) /\ s = sel.nodes[1]
  OBVIOUS
<1> QED BY <1>1, OneLevel, Zenon

\* A proper range of siblings turned, and then the group it became: it is there again.
LEMMA RangeTurnedTwice ==
  ASSUME NEW l, Grove(l, {l.root}, {}), SplitsNeverRunOut, NEW sel, NEW i, NEW j,
         Ranged(l, sel.parent, sel.nodes, i, j), ~WholeLevel(l, sel), Len(sel.nodes) # 1,
         PlainBelow(l, sel.parent), NEW m, m = RotateRange(l, sel).layout,
         NEW g, g = RotateRange(l, sel).group
  PROVE  Shape(RotateLevel(m, SingleSelection(m, g)).layout) = Shape(l)
<1> DEFINE p == sel.parent n == Len(sel.nodes) S == Children(m.up, g) c == RotateSplit(m, g)
           z == SingleSelection(m, g)
<1>1. /\ Grove(m, {m.root}, {}) /\ GroupOf(l, m, p, g, i, n) /\ S = ToSet(sel.nodes)
      /\ RangeTurned(l, p, S, g, m)
  <2>1. /\ Grove(m, {m.root}, {}) /\ GroupOf(l, m, p, g, i, n) /\ S = ToSet(sel.nodes)
        /\ RangeTurned(l, p, ToSet(sel.nodes), g, m)
    BY RangeIsGroup, ZenonT(60)
  <2> HIDE DEF p, n, S
  <2> QED BY <2>1
<1>2. PlainBelow(m, p)
  <2>1. PlainBelow(l, p)
    OBVIOUS
  <2> HIDE DEF p, n
  <2> QED BY <1>1, <2>1, GroupIsPlain
<1>3. /\ p \in DOMAIN l.kids /\ p # g /\ g \notin DOMAIN l.up
      /\ DOMAIN m.up = DOMAIN l.up \cup {g} /\ DOMAIN m.kids = DOMAIN l.kids \cup {g}
      /\ m.up[g] = p /\ Len(m.kids[g]) = n /\ n \in Nat /\ i \in Nat \ {0}
      /\ (i + n) - 1 <= Len(l.kids[p]) /\ Len(m.kids[p]) = (Len(l.kids[p]) - n) + 1
      /\ m.kids[p][i].node = g
  BY <1>1 DEF GroupOf
<1>4. p # NoNode /\ g \in DOMAIN m.kids /\ p \in DOMAIN m.kids /\ DOMAIN l.kids \subseteq DOMAIN l.up
  <2>1. DOMAIN l.kids \subseteq DOMAIN l.up /\ NoNode \notin DOMAIN l.up
    BY GroveParts, GroveLinks, NoNodeAssumption
  <2> QED BY <1>3, <2>1
<1> HIDE DEF p, n, c, S, z
<1>5. RotateLevel(m, z).layout = c
  <2>1. z.nodes = <<g>>
    BY DEF SingleSelection, SelectionOf, z
  <2>2. ~IsLeaf(m, g)
    BY <1>1, <1>4, GroveParts
  <2> QED BY <2>1, <2>2, OneSplit DEF c
<1>6. IntoParent(m, g, p, ChildIndex(m, p, g), c)
  BY <1>1, <1>2, <1>3, <1>4, RotatedIntoParent DEF c
<1>7. ChildIndex(m, p, g) = i
  <2>1. g \in Children(m.up, p)
    BY <1>3 DEF Children
  <2>2. /\ ChildIndex(m, p, g) \in 1 .. Len(m.kids[p])
        /\ m.kids[p][ChildIndex(m, p, g)].node = g
    BY <1>1, <1>4, <2>1, IndexOfChild
  <2>3. Distinct(m.kids[p]) /\ Len(l.kids[p]) \in Nat
    BY <1>1, <1>3, <1>4, GroveKids, SeveralKids
  <2>4. i \in 1 .. Len(m.kids[p])
    BY <1>3, <2>3
  <2> QED BY <1>3, <2>2, <2>3, <2>4 DEF Distinct
<1>8. Grove(c, {c.root}, {}) /\ GroupOf(c, m, p, g, i, n) /\ AxesTurned(m, Below(m, g), c)
  BY <1>3, <1>6, <1>7 DEF IntoParent
<1>9. DOMAIN c.kids = DOMAIN l.kids
  <2>1. DOMAIN m.kids = DOMAIN c.kids \cup {g} /\ g \notin DOMAIN c.up
    BY <1>8 DEF GroupOf
  <2>2. DOMAIN c.kids \subseteq DOMAIN c.up
    BY <1>8, GroveParts
  <2> QED BY <1>3, <1>4, <2>1, <2>2
<1>10. ASSUME NEW q \in DOMAIN l.kids PROVE c.axis[q] = l.axis[q]
  <2> DEFINE U == BelowSome(l, S)
  <2>1. q \in U <=> q \in Below(m, g)
    BY <1>1, BelowTheJoined, Zenon DEF S
  <2>2. m.axis[q] = ToggleAxes(l, U).axis[q]
    BY <1>1 DEF RangeTurned, BelowSome
  <2> HIDE DEF U
  <2>3. m.axis[q] = (IF q \in U THEN Across(l.axis[q]) ELSE l.axis[q]) /\ l.axis[q] \in Axis
    BY <2>2, Toggled
  <2>4. c.axis[q] = IF q \in Below(m, g) THEN Across(m.axis[q]) ELSE m.axis[q]
    BY <1>8, <1>9 DEF AxesTurned
  <2>5. Across(Across(l.axis[q])) = l.axis[q]
    BY <2>3, AcrossTwice
  <2> QED BY <2>1, <2>3, <2>4, <2>5
<1>11. Shape(c) = Shape(l)
  BY <1>1, <1>8, <1>10, TwoUngrouped
<1> QED BY <1>5, <1>11 DEF z

\* A split turned, and then its children, wherever they are: it is there again.
LEMMA LevelTurnedTwice ==
  ASSUME NEW l, Grove(l, {l.root}, {}), SplitsNeverRunOut, NEW s \in DOMAIN l.kids,
         \A p \in DOMAIN l.kids : PlainBelow(l, p), NEW m, m = RotateSplit(l, s),
         NEW nodes, Len(nodes) = Len(l.kids[s]), nodes[1] = l.kids[s][1].node,
         nodes[Len(nodes)] = l.kids[s][Len(nodes)].node, NEW b
  PROVE  Shape(RotateLevel(m, SelectNodes(m, nodes, b)).layout) = Shape(l)
<1>1. CASE l.up[s] # NoNode
  <2>1. l.up[s] \in DOMAIN l.kids
    BY <1>1, GroveParts
  <2>2. PlainBelow(l, l.up[s])
    BY <2>1
  <2> QED BY <1>1, <2>2, SplitTurnedTwice
<1>2. CASE l.up[s] = NoNode
  <2> DEFINE n == Len(l.kids[s]) z == SelectNodes(m, nodes, b) o == 1
  <2>1. /\ Shape(RotateSplit(m, s)) = Shape(l)
        /\ m.up = l.up /\ m.kids = l.kids /\ Grove(m, {m.root}, {})
    BY <1>2, RootTurnedTwice
  <2>2. n \in Nat /\ n > 1 /\ s \in DOMAIN m.kids /\ o \in Nat \ {0} /\ (o + n) - 1 = n /\ n <= n
    BY <2>1, SeveralKids
  <2>3. /\ nodes[1] = m.kids[s][o].node /\ nodes[n] = m.kids[s][(o + n) - 1].node
        /\ Len(nodes) = n /\ (o + n) - 1 <= Len(m.kids[s]) /\ Len(m.kids[s]) = n
    BY <2>1, <2>2
  <2> HIDE DEF n, z, o
  <2>4. RowOf(m, s, o, n, z)
    BY <2>1, <2>2, <2>3, SelectedInARow DEF z
  <2>5. z.parent = s /\ Len(z.nodes) = n
    BY <2>4 DEF RowOf
  <2>6. WholeLevel(m, z) /\ Len(z.nodes) > 1
    BY <2>2, <2>3, <2>5 DEF WholeLevel
  <2>7. RotateLevel(m, z).layout = RotateSplit(m, s)
    BY <2>5, <2>6, RangeLevel
  <2> QED BY <2>1, <2>7 DEF z
<1> QED BY <1>1, <1>2

-----------------------------------------------------------------------------
(* Rotating twice *)

\* The children of a split that are named from the first to the last of them.
LEMMA AllKids ==
  ASSUME NEW l, Grove(l, {l.root}, {}), NEW s \in DOMAIN l.kids, NEW nodes,
         nodes = KidNodes(l.kids[s]) \/ \E i, j : Ranged(l, s, nodes, i, j),
         Len(nodes) = Len(l.kids[s])
  PROVE  nodes[1] = l.kids[s][1].node /\ nodes[Len(nodes)] = l.kids[s][Len(nodes)].node
<1> DEFINE K == l.kids[s]
<1>1. K \in Seq(KidRec) /\ Len(K) \in Nat /\ Len(K) > 1
  BY GroveKids, SeveralKids
<1>2. CASE nodes = KidNodes(K)
  <2>1. \A i \in 1 .. Len(K) : nodes[i] = K[i].node
    BY <1>1, <1>2, KidNodesOf
  <2> QED BY <1>1, <2>1
<1>3. CASE \E i, j : Ranged(l, s, nodes, i, j)
  <2>1. PICK i, j : Ranged(l, s, nodes, i, j)
    BY <1>3
  <2>2. Len(nodes) = (j - i) + 1 /\ nodes[1] = K[i].node /\ nodes[Len(nodes)] = K[j].node
    BY <2>1, RangedParts
  <2>3. i \in 1 .. Len(K) /\ j \in i .. Len(K)
    BY <2>1 DEF Ranged
  <2>4. i = 1 /\ j = Len(K)
    BY <1>1, <2>2, <2>3
  <2> QED BY <2>2, <2>4
<1> QED BY <1>2, <1>3

\* rotate_pane_selection_level on what it selected takes back what it did.
LEMMA RotatesBack ==
  ASSUME NEW l, Grove(l, {l.root}, {}), SplitsNeverRunOut, NEW sel, SelOK(l, sel),
         \A p \in DOMAIN l.kids : PlainBelow(l, p)
  PROVE  Shape(RotatedAgain(RotateLevel(l, sel)).layout) = Shape(l)
<1> DEFINE f == RotateLevel(l, sel)
<1> SUFFICES Shape(RotatedAgain(f).layout) = Shape(l)
  OBVIOUS
<1>1. /\ sel.nodes \in Seq(Pane \cup Split) /\ Len(sel.nodes) \in Nat \ {0}
      /\ (sel.parent = NoNode => sel.nodes = <<l.root>>)
      /\ (sel.parent # NoNode => sel.parent \in DOMAIN l.kids
                                 /\ \E i, j : Ranged(l, sel.parent, sel.nodes, i, j))
  BY SelParts
<1>2. RotatedAgain(f) = RotateLevel(f.layout, f.selection)
  BY DEF RotatedAgain
<1>3. ASSUME NEW s \in DOMAIN l.kids, NEW nodes, NEW b, f.layout = RotateSplit(l, s),
             f.selection = SelectNodes(RotateSplit(l, s), nodes, b), Len(nodes) = Len(l.kids[s]),
             nodes = KidNodes(l.kids[s]) \/ \E i, j : Ranged(l, s, nodes, i, j)
      PROVE  Shape(RotatedAgain(f).layout) = Shape(l)
  <2> DEFINE m == RotateSplit(l, s)
  <2>1. nodes[1] = l.kids[s][1].node /\ nodes[Len(nodes)] = l.kids[s][Len(nodes)].node
    BY <1>3, AllKids
  <2>2. Shape(RotateLevel(m, SelectNodes(m, nodes, b)).layout) = Shape(l)
    BY <1>3, <2>1, LevelTurnedTwice
  <2> QED BY <1>2, <1>3, <2>2
<1>4. ASSUME NEW s \in DOMAIN l.kids PROVE Len(KidNodes(l.kids[s])) = Len(l.kids[s])
  <2>1. l.kids[s] \in Seq(KidRec)
    BY GroveKids
  <2> QED BY <2>1, KidNodesOf
<1> HIDE DEF f
<1>5. CASE Len(sel.nodes) > 1
  <2>a. \A y \in Nat : y > 1 => y # 1
    OBVIOUS
  <2>b. Len(sel.nodes) # 1
    BY <1>1, <1>5, <2>a, Zenon
  <2>1. sel.parent # NoNode
    <3>1. Len(<<l.root>>) = 1
      OBVIOUS
    <3>2. sel.parent = NoNode => Len(sel.nodes) = 1
      BY <1>1, <3>1
    <3> QED BY <2>b, <3>2, Zenon
  <2>2. CASE WholeLevel(l, sel)
    <3> DEFINE s == sel.parent b == (sel.anchor = sel.nodes[1])
    <3>1. f.layout = RotateSplit(l, s) /\ f.selection = SelectNodes(RotateSplit(l, s), sel.nodes, b)
      BY <1>5, <2>2, RangeLevel, Zenon DEF f
    <3>2. Len(sel.nodes) = Len(l.kids[s])
      BY <2>2 DEF WholeLevel
    <3>3. s \in DOMAIN l.kids /\ \E i, j : Ranged(l, s, sel.nodes, i, j)
      BY <1>1, <2>1
    <3> HIDE DEF s, b
    <3> QED BY <1>3, <3>1, <3>2, <3>3, Zenon
  <2>3. CASE ~WholeLevel(l, sel)
    <3> DEFINE m == RotateRange(l, sel).layout g == RotateRange(l, sel).group
    <3>1. f.layout = m /\ f.selection = SingleSelection(m, g)
      BY <1>5, <2>3, RangeLevel, Zenon DEF f
    <3>2. PICK i, j : Ranged(l, sel.parent, sel.nodes, i, j)
      BY <1>1, <2>1
    <3>3. PlainBelow(l, sel.parent)
      BY <1>1, <2>1
    <3>4. Shape(RotateLevel(m, SingleSelection(m, g)).layout) = Shape(l)
      BY <2>b, <2>3, <3>2, <3>3, RangeTurnedTwice
    <3> QED BY <1>2, <3>1, <3>4
  <2> QED BY <2>2, <2>3
<1>6. CASE ~(Len(sel.nodes) > 1) /\ ~IsLeaf(l, sel.nodes[1])
  <2> DEFINE s == sel.nodes[1] m == RotateSplit(l, s)
  <2>1. s \in DOMAIN l.kids
    BY <1>6, GroveParts
  <2>2. /\ f.layout = m
        /\ f.selection = IF l.up[s] = NoNode THEN SingleSelection(m, s)
                         ELSE SelectNodes(m, KidNodes(l.kids[s]), TRUE)
    BY <1>6, OneLevel, Zenon DEF f
  <2>3. CASE l.up[s] # NoNode
    <3>1. f.selection = SelectNodes(m, KidNodes(l.kids[s]), TRUE)
      BY <2>2, <2>3
    <3>2. Len(KidNodes(l.kids[s])) = Len(l.kids[s])
      BY <1>4, <2>1
    <3> HIDE DEF s
    <3> QED BY <1>3, <2>1, <2>2, <3>1, <3>2, Zenon
  <2>4. CASE l.up[s] = NoNode
    <3> DEFINE z == SingleSelection(m, s)
    <3>1. f.selection = z
      BY <2>2, <2>4
    <3>2. /\ Shape(RotateSplit(m, s)) = Shape(l)
          /\ m.kids = l.kids /\ Grove(m, {m.root}, {})
      BY <2>1, <2>4, RootTurnedTwice
    <3> HIDE DEF s, m
    <3>3. z.nodes = <<s>>
      BY DEF SingleSelection, SelectionOf
    <3>4. ~IsLeaf(m, s)
      BY <2>1, <3>2, GroveParts
    <3> HIDE DEF z
    <3>5. RotateLevel(m, z).layout = RotateSplit(m, s)
      BY <3>3, <3>4, OneSplit
    <3> QED BY <1>2, <2>2, <3>1, <3>2, <3>5
  <2> QED BY <2>3, <2>4
<1>7. CASE ~(Len(sel.nodes) > 1) /\ IsLeaf(l, sel.nodes[1]) /\ sel.parent # NoNode
  <2> DEFINE s == sel.parent m == RotateSplit(l, s)
  <2>1. f.layout = m /\ f.selection = SelectNodes(m, KidNodes(l.kids[s]), TRUE)
    BY <1>7, OneLevel, Zenon DEF f
  <2>2. s \in DOMAIN l.kids
    BY <1>1, <1>7
  <2>3. Len(KidNodes(l.kids[s])) = Len(l.kids[s])
    BY <1>4, <2>2
  <2> HIDE DEF s
  <2> QED BY <1>3, <2>1, <2>2, <2>3, Zenon
<1>8. CASE ~(Len(sel.nodes) > 1) /\ IsLeaf(l, sel.nodes[1]) /\ sel.parent = NoNode
  <2>1. f.layout = l /\ f.selection = sel
    BY <1>8, OneLevel, Zenon DEF f
  <2>2. RotatedAgain(f).layout = l
    BY <1>2, <2>1 DEF f
  <2> QED BY <2>2
<1> QED BY <1>5, <1>6, <1>7, <1>8

\* Where no split is nested in one of its own axis, no child has its parent's axis.
LEMMA PlainEverywhere ==
  ASSUME Grove(layout, {layout.root}, {}), NoNestedAxis, NEW p \in DOMAIN layout.kids
  PROVE  PlainBelow(layout, p)
<1>1. DOMAIN layout.axis = DOMAIN layout.kids
  BY GroveParts
<1>2. ASSUME NEW c \in Children(layout.up, p) \cap DOMAIN layout.kids
      PROVE  layout.axis[c] # layout.axis[p]
  <2>1. layout.up[c] = p /\ c \in DOMAIN layout.axis /\ p \in DOMAIN layout.axis
    BY <1>1 DEF Children
  <2> QED BY <2>1 DEF NoNestedAxis
<1> QED BY <1>2 DEF PlainBelow

\* Whatever the layout and the selection, rotating the selection and then what it selected
\* gives back the same hierarchy, axes and order, where no split is nested in one of its own
\* axis (pane_rotate.cc).
THEOREM RotatingTwiceRestores ==
  ASSUME SplitsNeverRunOut
  PROVE  Spec => []RotatingTwiceRestoresShape
<1>1. TreeInv => RotatingTwiceRestoresShape
  <2> SUFFICES ASSUME TreeInv, selection # None, NoNestedAxis
               PROVE  Shape(RotatedAgain(RotateLevel(layout, selection)).layout) = Shape(layout)
    BY DEF RotatingTwiceRestoresShape
  <2>1. Grove(layout, {layout.root}, {}) /\ SelOK(layout, selection)
    BY SettledParts DEF TreeInv, Picked
  <2>2. \A p \in DOMAIN layout.kids : PlainBelow(layout, p)
    BY <2>1, PlainEverywhere
  <2> QED BY <2>1, <2>2, RotatesBack
<1> QED BY TreeStaysSound, <1>1, PTL

=============================================================================
