----------------------------- MODULE ParentLoop -----------------------------
(***************************************************************************)
(* The event loop of the workspace parent (run_workspace_parent), with the *)
(* command dispatcher it calls.  One iteration reaps what has exited,      *)
(* remembers the descriptors of all panes and overlay processes, polls     *)
(* them, handles one batch of input and then, by what it remembered, the   *)
(* overlays and the panes.  Handlers change what was remembered, and       *)
(* shells, pickers and helpers exit at any time.                           *)
(*                                                                         *)
(* Panes have identities here.  An overlay is reduced to what it shows and *)
(* to its process; sizes, previews and drawing are left out.               *)
(***************************************************************************)
EXTENDS Naturals, FiniteSets

CONSTANTS Anon,        \* anonymous trays
          Worktrees,   \* worktree trays
          Home,        \* anonymous tray 1
          MaxPane,     \* bound: pane identities of one tray
          MaxOverlays, \* bound: overlays open at a time
          NoOverlay, None

Trays   == Anon \cup Worktrees
PaneIds == 1..MaxPane

\* switch: the fzf of the worktrees; repository: the fzf of the repositories;
\* dialog: a form, a result or an error; running: a helper process
Stages == {"switch", "repository", "dialog", "running"}

\* exited: the process behind the stage is a zombie
\* asks: the tray whose clearing or removal waits for confirmation
Overlays == [stage : Stages, exited : BOOLEAN, asks : Trays \cup {None}]

Dialogs == {o \in Overlays : o.stage = "dialog"}

Tray == [panes   : SUBSET PaneIds,
         dead    : SUBSET PaneIds,   \* of the panes, those whose shell exited
         next    : 1..MaxPane + 1,   \* next_pane_value
         overlay : Overlays \cup {NoOverlay}]

ASSUME ConstantsAssumption ==
  /\ Home \in Anon /\ Anon \cap Worktrees = {}
  /\ MaxPane \in Nat \ {0} /\ MaxOverlays \in Nat
  /\ NoOverlay \notin Overlays /\ None \notin Trays

VARIABLES phase,      \* where the loop is, or how it ended
          trays,      \* the open trays
          active,     \* active_tray_id
          command,    \* command_mode_enabled
          exited,     \* destroy_exited_trays: trays still to be destroyed
          changed,    \* destroy_exited_trays: its result
          sources,    \* output_sources: the panes there were at the poll
          polled,     \* overlay_sources: trays whose overlays had a process
          destroyed,  \* trays_destroyed of this batch
          published   \* the last status the bridge was sent

vars == <<phase, trays, active, command, exited, changed, sources, polled,
          destroyed, published>>
loop == <<exited, changed, sources, polled>>

\* "lost pane": an exception that nothing catches
Ended == phase \in {"lost pane", "stopped"}

Open == DOMAIN trays
Over(t) == trays[t].overlay
HasProcess(o) == o # NoOverlay /\ o.stage # "dialog"

\* The part of ParentStatus and ParentPaneView that names things
Status  == [command |-> command, tray |-> active,
            overlay |-> Over(active) # NoOverlay, panes |-> trays[active].panes]
Publish == published' = Status'
PublishIf(b) == IF b THEN Publish ELSE UNCHANGED published

------------------------------------------------------------------------------
(* The tray manager, as TrayManager has it                                 *)

FreshTray == [panes |-> {1}, dead |-> {}, next |-> 2, overlay |-> NoOverlay]

Ensured(ts, t) ==
  [u \in DOMAIN ts \cup {t} |-> IF u \in DOMAIN ts THEN ts[u] ELSE FreshTray]

Without(ts, t) == [u \in DOMAIN ts \ {t} |-> ts[u]]

Show(stage) == [stage |-> stage, exited |-> FALSE, asks |-> None]

\* update_session_trays restarts the picker if other trays are open than it
\* was last told, and shows a dialog if the picker can't be started
Told(o) ==
  IF o # NoOverlay /\ o.stage = "switch"
  THEN {o, [o EXCEPT !.exited = FALSE], [o EXCEPT !.stage = "dialog", !.exited = FALSE]}
  ELSE {o}

\* Tray a becomes or stays the active one of ts, and its overlay is told
Become(ts, a) ==
  /\ active' = a
  /\ \E o \in Told(ts[a].overlay) : trays' = [ts EXCEPT ![a].overlay = o]

SwitchTo(ts, t) == Become(Ensured(ts, t), t)

\* Mutant: the user lands in any tray that is open.
DestroyTray_LandsAnywhere(t) ==
  \E u \in (Open \ {t}) \cup {Home} :
    IF t = active THEN Become(Ensured(Without(trays, t), u), u)
                  ELSE Become(Without(trays, t), active)

\* destroy_tray: the user is sent home if the tray was the active one
DestroyTray(t) ==
  IF t = active THEN Become(Ensured(Without(trays, t), Home), Home)
                ELSE Become(Without(trays, t), active)

SetOverlay(t, o) == trays' = [trays EXCEPT ![t].overlay = o]

------------------------------------------------------------------------------
Init ==
  /\ phase = "top"
  /\ trays = [t \in {Home} |-> FreshTray]
  /\ active = Home /\ command = FALSE
  /\ exited = {} /\ changed = FALSE
  /\ sources = {} /\ polled = {} /\ destroyed = FALSE
  /\ published = Status

------------------------------------------------------------------------------
(* The top of an iteration: destroy_exited_trays and the poll              *)

\* SIGTERM or SIGINT
Stop ==
  /\ phase = "top" /\ phase' = "stopped"
  /\ UNCHANGED <<trays, active, command, loop, destroyed, published>>

\* Mutant: a tray whose shells all exited loses its panes like any other.
ReapExitedPanes_ToNothing ==
  /\ phase = "top" /\ phase' = "reap"
  /\ exited' = {t \in Open : trays[t].dead = trays[t].panes}
  /\ changed' = (\E t \in Open : trays[t].dead # {})
  /\ trays' = [t \in Open |-> [trays[t] EXCEPT !.panes = @ \ trays[t].dead, !.dead = {}]]
  /\ UNCHANGED <<active, command, sources, polled, destroyed, published>>

\* destroy_exited_trays, first part: one pass over all trays
ReapExitedPanes ==
  /\ phase = "top" /\ phase' = "reap"
  /\ exited' = {t \in Open : trays[t].dead = trays[t].panes}
  /\ changed' = (\E t \in Open : trays[t].dead # {})
  /\ trays' = [t \in Open |->
                 IF trays[t].dead = trays[t].panes THEN trays[t]
                 ELSE [trays[t] EXCEPT !.panes = @ \ trays[t].dead, !.dead = {}]]
  /\ UNCHANGED <<active, command, sources, polled, destroyed, published>>

\* TrayManager has the order; here any order will do
DestroyNextExited(t) ==
  /\ phase = "reap" /\ t \in exited
  /\ DestroyTray(t)
  /\ exited' = exited \ {t}
  /\ UNCHANGED <<phase, command, changed, sources, polled, destroyed, published>>

\* Mutant: what was reaped is not published.
EndReaping_Silent ==
  /\ phase = "reap" /\ exited = {} /\ phase' = "poll"
  /\ changed' = FALSE
  /\ UNCHANGED <<trays, active, command, exited, sources, polled, destroyed, published>>

EndReaping ==
  /\ phase = "reap" /\ exited = {} /\ phase' = "poll"
  /\ changed' = FALSE
  /\ UNCHANGED <<trays, active, command, exited, sources, polled, destroyed>>
  /\ PublishIf(changed)

\* Mutant: only output ends the poll, not a process that hangs up.
HungUp_Never == FALSE

\* What hangs up ends the poll at once
HungUp ==
  \E t \in Open : trays[t].dead # {} \/ (HasProcess(Over(t)) /\ Over(t).exited)

PollTimesOut ==
  /\ phase = "poll" /\ ~ HungUp /\ phase' = "top"
  /\ UNCHANGED <<trays, active, command, loop, destroyed, published>>

\* Something is readable, standard input or not
PollReturns ==
  /\ phase = "poll" /\ phase' \in {"input", "overlays"}
  /\ sources' = {s \in Open \X PaneIds : s[2] \in trays[s[1]].panes}
  /\ polled' = {t \in Open : HasProcess(Over(t))}
  /\ destroyed' = FALSE
  /\ UNCHANGED <<trays, active, command, exited, changed, published>>

------------------------------------------------------------------------------
(* route_parent_input_to_active_tray: the events of one batch, in any      *)
(* order and number; a shortcut is a command, all else is literal.  What   *)
(* goes to a pane or a process changes nothing here, and is lost without   *)
(* an error when that has exited.                                          *)

Input == phase = "input" /\ UNCHANGED <<phase, loop>>

\* The active overlay, when there is one
Overlay == Over(active)
Picking == Overlay # NoOverlay /\ Overlay.stage = "switch"
Asking  == Overlay # NoOverlay /\ Overlay.asks # None

\* The active overlay with the question a, or none
Ask(a) == SetOverlay(active, [Overlay EXCEPT !.asks = a])

\* What a batch of keys makes of overlay o: a helper gets them all; Tab and
\* Shift+Tab change the mode, which forgets everything; Enter in a dialog
\* starts a picker again or, in a form, a helper
Typed(o) ==
  IF o.stage = "running" THEN {o}
  ELSE {o} \cup {Show(s) : s \in Stages}
           \cup {[p EXCEPT !.stage = "switch"] : p \in {o} \cap Dialogs}

WriteOverlay ==
  /\ Input /\ Overlay # NoOverlay /\ (command => ~ Asking)
  /\ \E o \in Typed(Overlay) : SetOverlay(active, o)
  /\ UNCHANGED <<active, command, destroyed, published>>

\* Enter and n in command mode drop the question
DeclineTrayAction ==
  /\ Input /\ command
  /\ IF Asking THEN Ask(None) ELSE UNCHANGED trays
  /\ UNCHANGED <<active, command, destroyed>>
  /\ Publish

ToggleCommandMode ==
  /\ Input
  /\ command' = ~ command
  /\ IF Asking THEN Ask(None) ELSE UNCHANGED trays
  /\ UNCHANGED <<active, destroyed>>
  /\ Publish

SwitchAnonymousTray(t) ==
  /\ Input
  /\ SwitchTo(trays, t)
  /\ UNCHANGED <<command, destroyed>>
  /\ Publish

ToggleOverlay ==
  /\ Input
  /\ \/ /\ Overlay # NoOverlay
        /\ SetOverlay(active, NoOverlay)
        /\ UNCHANGED command
     \/ /\ Overlay = NoOverlay
        /\ Cardinality({t \in Open : Over(t) # NoOverlay}) < MaxOverlays
        /\ \E s \in {"switch", "dialog"} : SetOverlay(active, Show(s))
        /\ command' = FALSE
  /\ UNCHANGED <<active, destroyed>>
  /\ Publish

\* The highlighted tray may be open or not.  To remove the protected worktree
\* is refused, which drops the question; without a picker nothing is asked
BeginTrayAction(t) ==
  /\ Input /\ command
  /\ \/ /\ Picking
        /\ Ask(t) \/ (t \in Worktrees /\ Ask(None))
     \/ ~ Picking /\ UNCHANGED trays
  /\ UNCHANGED <<active, command, destroyed>>
  /\ Publish

\* refresh_worktree_picker
Restarted == {Show("switch"), Show("dialog")}

\* Mutant: what goes is the tray the user is in, not the one asked about.
ConfirmTrayAction_Active ==
  /\ Input /\ command /\ Asking
  /\ DestroyTray(active)
  /\ destroyed' = TRUE
  /\ UNCHANGED command
  /\ Publish

\* resolve_tray_action_confirmation.  A tray that is not open can't be
\* cleared, its worktree can be removed; git may refuse that
ConfirmTrayAction ==
  LET t == Overlay.asks IN
  /\ Input /\ command /\ Asking
  /\ \/ /\ t \in Open /\ t = active
        /\ DestroyTray(t)
        /\ destroyed' = TRUE
     \/ /\ t \in Open /\ t # active
        /\ \E o \in Restarted : trays' = [Without(trays, t) EXCEPT ![active].overlay = o]
        /\ destroyed' = TRUE
        /\ UNCHANGED active
     \/ /\ t \notin Open
        /\ \E o \in Restarted : SetOverlay(active, o)
        /\ UNCHANGED <<active, destroyed>>
     \/ /\ t \notin Open \/ t \in Worktrees
        /\ Ask(None)
        /\ UNCHANGED <<active, destroyed>>
  /\ UNCHANGED command
  /\ Publish

SplitPane ==
  /\ Input /\ command /\ Overlay = NoOverlay
  /\ trays[active].next <= MaxPane
  /\ trays' = [trays EXCEPT ![active].panes = @ \cup {trays[active].next},
                            ![active].next = @ + 1]
  /\ UNCHANGED <<active, command, destroyed>>
  /\ Publish

\* Any pane can have the focus
ClosePane ==
  /\ Input /\ command /\ Overlay = NoOverlay
  /\ \/ /\ Cardinality(trays[active].panes) > 1
        /\ \E p \in trays[active].panes :
             trays' = [trays EXCEPT ![active].panes = @ \ {p}, ![active].dead = @ \ {p}]
        /\ UNCHANGED <<active, destroyed>>
     \/ /\ Cardinality(trays[active].panes) = 1
        /\ DestroyTray(active)
        /\ destroyed' = TRUE
  /\ UNCHANGED command
  /\ Publish

\* Mutant: the iteration goes on after a tray was destroyed.
EndBatch_GoesOn ==
  /\ phase = "input" /\ phase' = "overlays"
  /\ destroyed' = FALSE
  /\ UNCHANGED <<trays, active, command, loop, published>>

\* What was remembered is dropped if a tray was destroyed
EndBatch ==
  /\ phase = "input"
  /\ phase' = IF destroyed THEN "top" ELSE "overlays"
  /\ destroyed' = FALSE
  /\ UNCHANGED <<trays, active, command, loop>>
  /\ PublishIf(Overlay # NoOverlay) \/ UNCHANGED published

------------------------------------------------------------------------------
(* The overlays and the panes that were remembered                         *)

NextOverlay(t) ==
  /\ phase = "overlays" /\ t \in polled
  /\ polled' = polled \ {t}
  /\ UNCHANGED <<command, exited, changed, sources, destroyed>>

\* The overlay or its process is gone since the poll, or it made some output
ReadOverlay(t) ==
  /\ NextOverlay(t)
  /\ HasProcess(Over(t)) => ~ Over(t).exited
  /\ UNCHANGED <<phase, trays, active>>
  /\ PublishIf(t = active /\ HasProcess(Over(t))) \/ UNCHANGED published

\* refresh_process_state: a picker or a helper has exited.  A worktree that
\* was selected and is unavailable restarts the picker
FinishProcess(t) ==
  /\ NextOverlay(t)
  /\ HasProcess(Over(t)) /\ Over(t).exited
  /\ \/ SetOverlay(t, [Over(t) EXCEPT !.stage = "dialog", !.exited = FALSE])
     \/ Over(t).stage = "switch" /\ \E o \in Restarted : SetOverlay(t, o)
  /\ UNCHANGED <<phase, active>>
  /\ PublishIf(t = active)

\* worktree_root_for a selected path: the worktree; if it was deleted since
\* it was offered, another that it lay in or none, and then nothing is opened
RootFor == Worktrees \cup {None}

\* take_tray_to_open: the picker selected tray u, or the helper made its
\* worktree; the overlay of tray t closes
OpenSelected(t, u) ==
  LET closed == [trays EXCEPT ![t].overlay = NoOverlay] IN
  /\ NextOverlay(t)
  /\ HasProcess(Over(t)) /\ Over(t).exited
  /\ Over(t).stage = "switch" \/ (Over(t).stage = "running" /\ u \in Worktrees)
  /\ \E root \in IF u \in Anon THEN {u} ELSE RootFor :
       IF root = None THEN trays' = closed /\ UNCHANGED <<active, published>>
                      ELSE SwitchTo(closed, root) /\ Publish
  /\ UNCHANGED phase

EndOverlays ==
  /\ phase = "overlays" /\ polled = {} /\ phase' = "outputs"
  /\ UNCHANGED <<trays, active, command, loop, destroyed, published>>

\* draw_tray_output of every pane that had output: it throws for one that is
\* not there any more
DrawOutputs ==
  /\ phase = "outputs"
  /\ \/ phase' = "top"
     \/ /\ \E s \in sources : s[2] \notin trays[s[1]].panes
        /\ phase' = "lost pane"
  /\ sources' = {}
  /\ UNCHANGED <<trays, active, command, exited, changed, polled, destroyed, published>>

------------------------------------------------------------------------------
(* Shells, pickers and helpers exit at any time                            *)

ShellExits(t) ==
  /\ ~ Ended /\ t \in Open
  /\ \E p \in trays[t].panes \ trays[t].dead :
       trays' = [trays EXCEPT ![t].dead = @ \cup {p}]
  /\ UNCHANGED <<phase, active, command, loop, destroyed, published>>

ProcessExits(t) ==
  /\ ~ Ended /\ t \in Open /\ HasProcess(Over(t)) /\ ~ Over(t).exited
  /\ SetOverlay(t, [Over(t) EXCEPT !.exited = TRUE])
  /\ UNCHANGED <<phase, active, command, loop, destroyed, published>>

------------------------------------------------------------------------------
\* What the loop does without anyone asking for it
Step ==
  \/ ReapExitedPanes \/ EndReaping \/ PollTimesOut \/ PollReturns
  \/ EndBatch \/ EndOverlays \/ DrawOutputs
  \/ \E t \in Trays : \/ DestroyNextExited(t) \/ ReadOverlay(t) \/ FinishProcess(t)
                      \/ \E u \in Trays : OpenSelected(t, u)

Keys ==
  \/ WriteOverlay \/ DeclineTrayAction \/ ToggleCommandMode
  \/ ToggleOverlay \/ ConfirmTrayAction \/ SplitPane \/ ClosePane
  \/ \E t \in Anon : SwitchAnonymousTray(t)
  \/ \E t \in Trays : BeginTrayAction(t)

Next ==
  \/ Step \/ Keys \/ Stop
  \/ \E t \in Trays : ShellExits(t) \/ ProcessExits(t)

\* One thread, and a batch of input is finite: the loop goes on by itself.
Spec == Init /\ [][Next]_vars /\ WF_vars(Step)

------------------------------------------------------------------------------
(* Properties                                                              *)

\* Every variable has its type, the active tray is open, and every open tray
\* has a pane.
TypeOK ==
  /\ phase \in {"top", "reap", "poll", "input", "overlays", "outputs",
                "stopped", "lost pane"}
  /\ Open \subseteq Trays /\ active \in Open
  /\ \A t \in Open : trays[t] \in Tray /\ trays[t].panes # {}
  /\ command \in BOOLEAN /\ changed \in BOOLEAN /\ destroyed \in BOOLEAN
  /\ exited \subseteq Trays /\ polled \subseteq Trays
  /\ sources \subseteq Trays \X PaneIds

\* What was remembered at the poll never names a tray that is gone when the
\* overlays and panes have their turn: worktree_management_overlay(id) and
\* read_output(id, pane) throw for a tray that is not open, which nothing
\* catches.
NoTrayIsLost ==
  phase \in {"overlays", "outputs"} =>
    polled \subseteq Open /\ \A s \in sources : s[1] \in Open

\* When the parent waits for events, the bridge has been told who it shows:
\* the command mode, the active tray and its panes, whatever happened before.
PublishedIdentity ==
  phase = "poll" =>
    /\ published.command = command
    /\ published.tray = active
    /\ published.panes = trays[active].panes

\* It has also been told whether an overlay is open.
PublishedOverlay ==
  phase = "poll" => published.overlay = (Overlay # NoOverlay)

\* A tray goes away only when all its shells have exited, when the user
\* closes its last pane, or when the user confirms the question about it.
OnlyAskedTraysGo ==
  [][\A t \in Open \ DOMAIN trays' :
       \/ trays[t].dead = trays[t].panes
       \/ command /\ t = active /\ Overlay = NoOverlay /\ Cardinality(trays[t].panes) = 1
       \/ command /\ Asking /\ t = Overlay.asks]_vars

\* Closing a pane, by a key or by its shell, never takes the parent down with
\* the other panes.
ParentSurvives == phase # "lost pane"

\* The loop is an implementation of switching between trays.
Switching == INSTANCE TraySwitching WITH open <- Open
RefinesSwitching == Switching!Spec

\* A picker or helper that exits is served, unless the user keeps destroying
\* trays: that makes the loop start over before it serves any overlay.
Waiting(t) == t \in Open /\ HasProcess(Over(t)) /\ Over(t).exited
ExitsAreServed ==
  \A t \in Trays : [](Waiting(t) => <>(~ Waiting(t) \/ destroyed \/ Ended))
=============================================================================
