----------------------------- MODULE TrayManager -----------------------------
(***************************************************************************)
(* The trays of one workspace parent: TrayManager and, of the Tray objects *)
(* it owns, what the manager depends on.  A tray is a group of panes, each *)
(* a shell in its own content PTY, with at most one worktree overlay.      *)
(* Shells exit on their own; the main loop reaps them with                 *)
(* destroy_exited_trays.                                                   *)
(*                                                                         *)
(* How the panes of a tray are arranged is left out: a tray counts its     *)
(* panes, those whose shell runs and those whose shell has exited.         *)
(***************************************************************************)
EXTENDS Naturals

CONSTANTS NumAnon,    \* anonymous trays are numbered 1..NumAnon (TrayNumber)
          Worktrees,  \* git worktree roots a tray can be opened on
          MaxPanes,   \* bound: panes a tray is split into
          Sizes,      \* terminal sizes
          NoOverlay

Anon    == 1..NumAnon
TrayIds == Anon \cup Worktrees

\* session: the anonymous trays the overlay's picker offers
Overlays == [session : SUBSET Anon, size : Sizes]

ASSUME ConstantsAssumption ==
  /\ NumAnon \in Nat \ {0}
  /\ MaxPanes \in Nat \ {0}
  /\ Worktrees \cap Anon = {}
  /\ NoOverlay \notin Overlays

VARIABLES trays,    \* the open trays: a function from their identities
          active,   \* active_tray_id
          size,     \* current_size
          exited    \* destroy_exited_trays: found exited, not yet destroyed

vars == <<trays, active, size, exited>>

Tray == [live    : 0..MaxPanes,
         dead    : 0..MaxPanes,
         size    : Sizes,
         overlay : Overlays \cup {NoOverlay}]

Open    == DOMAIN trays
Panes(t) == trays[t].live + trays[t].dead
Gone(t) == trays[t].live = 0   \* every shell of the tray has exited

------------------------------------------------------------------------------
(* Tray: construction and the parts the manager drives                     *)

FreshTray == [live |-> 1, dead |-> 0, size |-> size, overlay |-> NoOverlay]

\* ensure_tray, ensure_worktree_tray: a tray that is open is reused
Ensure(ts, t) ==
  [u \in DOMAIN ts \cup {t} |-> IF u \in DOMAIN ts THEN ts[u] ELSE FreshTray]

\* Tray::resize: the panes and the overlay follow the new size
ResizedTray(tr, s) ==
  [tr EXCEPT !.size = s,
             !.overlay = IF @ = NoOverlay THEN @ ELSE [@ EXCEPT !.size = s]]

\* refresh_active_overlay_session_trays: only the overlay of tray a is told
Refreshed(ts, a) ==
  [ts EXCEPT ![a].overlay =
     IF @ = NoOverlay THEN @ ELSE [@ EXCEPT !.session = Anon \cap DOMAIN ts]]

\* Mutant: a tray that becomes active keeps the size it had.
Activated_Unsized(ts, t) == Ensure(ts, t)

\* What switch_to, switch_to_worktree and activate_anonymous_tray_one share
Activated(ts, t) == [Ensure(ts, t) EXCEPT ![t] = ResizedTray(@, size)]

Without(ts, t) == [u \in DOMAIN ts \ {t} |-> ts[u]]

\* Mutant: every destruction sends the user home.
ActiveAfter_AlwaysHome(a, t) == 1

\* destroy_tray: the tray it leaves active, and the trays it leaves
ActiveAfter(a, t) == IF t = a THEN 1 ELSE a

\* Mutant: the overlay of the tray left active is not told.
Destroyed_Untold(ts, a, t) ==
  LET left == Without(ts, t)
  IN  IF t = a THEN Activated(left, 1) ELSE left

Destroyed(ts, a, t) ==
  LET left == Without(ts, t)
  IN  Refreshed(IF t = a THEN Activated(left, 1) ELSE left, ActiveAfter(a, t))

------------------------------------------------------------------------------
Init ==
  /\ size \in Sizes
  /\ trays = [t \in {1} |-> FreshTray]
  /\ active = 1
  /\ exited = {}

\* The operations below are calls from the main loop: none of them runs
\* while destroy_exited_trays is still working through its list.
Idle == exited = {}

SwitchTo(t) ==
  /\ Idle
  /\ active' = t
  /\ trays' = Refreshed(Activated(trays, t), t)
  /\ UNCHANGED <<size, exited>>

\* A destroy of a tray that is not open returns false and changes nothing
DestroyTray(t) ==
  /\ Idle
  /\ t \in Open
  /\ trays' = Destroyed(trays, active, t)
  /\ active' = ActiveAfter(active, t)
  /\ UNCHANGED <<size, exited>>

ResizeActive(s) ==
  /\ Idle
  /\ size' = s
  /\ trays' = [trays EXCEPT ![active] = ResizedTray(@, s)]
  /\ UNCHANGED <<active, exited>>

OpenOverlay ==
  /\ Idle
  /\ trays[active].overlay = NoOverlay
  /\ trays' = [trays EXCEPT ![active].overlay =
                 [session |-> Anon \cap Open, size |-> size]]
  /\ UNCHANGED <<active, size, exited>>

\* clear_worktree_management_overlay(id): also of a tray in the background
ClearOverlay(t) ==
  /\ Idle
  /\ t \in Open /\ trays[t].overlay # NoOverlay
  /\ trays' = [trays EXCEPT ![t].overlay = NoOverlay]
  /\ UNCHANGED <<active, size, exited>>

\* split_active_focused_pane
SplitPane ==
  /\ Idle
  /\ Panes(active) < MaxPanes
  /\ trays' = [trays EXCEPT ![active].live = @ + 1]
  /\ UNCHANGED <<active, size, exited>>

\* close_active_focused_pane: the focused pane may have exited unreaped
ClosePane ==
  \/ /\ Panes(active) = 1
     /\ DestroyTray(active)
  \/ /\ Idle
     /\ Panes(active) > 1
     /\ \/ trays[active].live > 0 /\ trays' = [trays EXCEPT ![active].live = @ - 1]
        \/ trays[active].dead > 0 /\ trays' = [trays EXCEPT ![active].dead = @ - 1]
     /\ UNCHANGED <<active, size, exited>>

------------------------------------------------------------------------------
(* Shells exit on their own, and the main loop reaps them                  *)

ShellExits(t) ==
  /\ t \in Open /\ trays[t].live > 0
  /\ trays' = [trays EXCEPT ![t].live = @ - 1, ![t].dead = @ + 1]
  /\ UNCHANGED <<active, size, exited>>

\* Mutant: a tray whose shells all exited loses its last pane.
Reaped_ToNothing(tr) == [tr EXCEPT !.dead = 0]

\* Tray::reap_exited_panes: the exited panes leave the tray, unless nothing
\* would be left of it; then the tray is kept as it is for destroy_tray
Reaped(tr) == IF tr.live = 0 THEN tr ELSE [tr EXCEPT !.dead = 0]

\* Mutant: a tray is listed when any of its shells has exited.
ReapExitedPanes_ListsAny ==
  /\ Idle
  /\ \E t \in Open : trays[t].dead > 0
  /\ trays' = [t \in Open |-> Reaped(trays[t])]
  /\ exited' = {t \in Open : trays[t].dead > 0}
  /\ UNCHANGED <<active, size>>

\* destroy_exited_trays, first part: one pass over all trays
ReapExitedPanes ==
  /\ Idle
  /\ \E t \in Open : trays[t].dead > 0
  /\ trays' = [t \in Open |-> Reaped(trays[t])]
  /\ exited' = {t \in Open : Gone(t)}
  /\ UNCHANGED <<active, size>>

\* Mutant: only the anonymous trays of the list are destroyed.
NextExited_AnonOnly(t) ==
  t \in exited \cap Anon /\ \A u \in exited \cap Anon : t <= u

\* destroy_exited_trays, second part: anonymous trays in the order of their
\* numbers, then the worktree trays
NextExited(t) ==
  /\ t \in exited
  /\ \/ t \in Anon /\ \A u \in exited \cap Anon : t <= u
     \/ exited \cap Anon = {}

DestroyNextExited(t) ==
  /\ NextExited(t)
  /\ trays' = Destroyed(trays, active, t)
  /\ active' = ActiveAfter(active, t)
  /\ exited' = exited \ {t}
  /\ UNCHANGED size

------------------------------------------------------------------------------
Next ==
  \/ \E t \in TrayIds : \/ SwitchTo(t) \/ DestroyTray(t) \/ ClearOverlay(t)
                        \/ DestroyNextExited(t) \/ ShellExits(t)
  \/ \E s \in Sizes : ResizeActive(s)
  \/ OpenOverlay \/ SplitPane \/ ClosePane \/ ReapExitedPanes

Spec == Init /\ [][Next]_vars

\* The main loop calls destroy_exited_trays at least once per poll timeout
\* and runs it to its end; nothing is assumed of the user or of the shells.
Fairness ==
  /\ WF_vars(ReapExitedPanes)
  /\ WF_vars(\E t \in TrayIds : DestroyNextExited(t))
FairSpec == Spec /\ Fairness

------------------------------------------------------------------------------
(* Properties                                                              *)

\* Every variable has its type: the open trays are well-formed trays with at
\* least one pane, and only open trays wait to be destroyed.
TypeOK ==
  /\ Open \subseteq TrayIds
  /\ \A t \in Open : trays[t] \in Tray /\ Panes(t) \in 1..MaxPanes
  /\ active \in TrayIds
  /\ size \in Sizes
  /\ exited \subseteq Open

\* The active tray is open, in every state and also between two destructions
\* of one reaping pass: active_tray() never throws "requested ... tray is
\* missing", which would end the parent.
ActiveTrayOpen == active \in Open

\* Background trays miss terminal resizes, but the tray the user looks at and
\* its overlay always have the current terminal size: every path that makes a
\* tray active resizes it.
ActiveTraySized ==
  /\ trays[active].size = size
  /\ trays[active].overlay # NoOverlay => trays[active].overlay.size = size

\* The overlay the user looks at offers exactly the anonymous trays that are
\* open, whichever of the four ways a tray came or went, and although an
\* overlay in the background is told of none of them.
ActiveOverlayListsOpenTrays ==
  trays[active].overlay # NoOverlay =>
    trays[active].overlay.session = Anon \cap Open

\* A tray waiting for its destruction has no shell left: the trays of the
\* list are still the ones that were found exited, and none of them was
\* replaced by a fresh tray by an earlier destruction of the same pass.
ExitedTraysAreGone == \A t \in exited : Gone(t)

\* A reaping pass never ends a shell that runs: while its list is worked
\* through, a tray with a running shell keeps its panes.
ReapSparesRunningShells ==
  [][exited # {} =>
       \A t \in Open : trays[t].live > 0 =>
         t \in Open' /\ Panes(t)' = Panes(t)]_vars

\* Every shell that exits is reaped: its pane leaves the tray, or its tray is
\* destroyed, whatever the user does in the meantime.
ExitedShellsAreReaped ==
  \A t \in TrayIds :
    (t \in Open /\ trays[t].dead > 0) ~> (t \in Open => trays[t].dead = 0)

\* Seen from the outside the manager is the switcher of TraySwitching.
Switching == INSTANCE TraySwitching
               WITH Trays <- TrayIds, Home <- 1, open <- Open, active <- active
Refines == Switching!Spec
=============================================================================
