----------------------------- MODULE MCTrayPanes -----------------------------
(***************************************************************************)
(* A small instance of TrayPanes: a tray with room for its separators and  *)
(* one without.  States that differ only in which panes and splits stand   *)
(* where are one state: the view names every node by its path.             *)
(***************************************************************************)
EXTENDS TrayPanes

OneSize == {[rows |-> 5, cols |-> 6]}
SmallSizes == {[rows |-> 5, cols |-> 6], [rows |-> 1, cols |-> 2]}

Path ==
  LET path[n \in Nodes(layout)] ==
        IF layout.up[n] \notin Nodes(layout) THEN <<>>
        ELSE Append(path[layout.up[n]], ChildIndex(layout, layout.up[n], n))
  IN  path

Named(path, n) == IF n \in DOMAIN path THEN path[n] ELSE n

SelectionView(path, sel) ==
  IF sel = None THEN None
  ELSE <<Named(path, sel.anchor), Named(path, sel.active), Len(sel.nodes)>>

SessionView(path) ==
  IF session = None THEN None
  ELSE <<SelectionView(path, session.source), Named(path, session.target),
         session.stage, session.operation, session.drop>>

TreeView ==
  LET view[n \in Nodes(layout)] ==
        IF IsLeaf(layout, n) THEN ptySize[n]
        ELSE <<layout.axis[n], [i \in DOMAIN layout.kids[n] |->
                 <<layout.kids[n][i].share, view[layout.kids[n][i].node]>>]>>
  IN  view[layout.root]

\* Always true; comparing the layout makes TLC tabulate its functions, which the
\* rest of the view only applies.
Tabulated == layout = layout

\* A tray whose programs all ended is gone, whatever it showed last.
UpToNames ==
  LET path == Path IN
  IF phase = "exited" THEN <<phase, Tabulated>>
  ELSE <<Tabulated, TreeView, Named(path, focused), maximized, SelectionView(path, selection),
         SessionView(path), size, phase>>

=============================================================================
