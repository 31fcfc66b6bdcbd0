-------------------------- MODULE ParentLoop_proofs --------------------------
(***************************************************************************)
(* Proofs about ParentLoop.  All of the run's safety properties are        *)
(* consequences of one inductive invariant, IInv.                          *)
(***************************************************************************)
EXTENDS ParentLoop, FiniteSetTheorems, TLAPS

\* A tray as every operation leaves it
Good(tr) == tr \in Tray /\ tr.panes # {} /\ tr.dead \subseteq tr.panes

Shells == \A t \in Open : Good(trays[t])

\* What waits for its destruction has not been touched since it was listed
Listed ==
  phase = "reap" =>
    exited \subseteq Open /\ \A t \in exited : trays[t].dead = trays[t].panes

\* Until a tray is destroyed the lookups by what was remembered are safe
Remembered ==
  phase \in {"overlays", "outputs"} \/ (phase = "input" /\ ~ destroyed) =>
    polled \subseteq Open /\ \A s \in sources : s[1] \in Open

Match ==
  /\ published.command = command
  /\ published.tray = active
  /\ published.panes = trays[active].panes

\* Only between reaping and its publication is the bridge behind
Published ==
  /\ phase # "reap" => Match
  /\ phase = "reap" => (changed \/ Match) /\ (exited # {} => changed)

IInv == TypeOK /\ Shells /\ Listed /\ Remembered /\ Published

------------------------------------------------------------------------------
(* What the operations on trays do                                         *)

\* Publishing tells the bridge everything it has to know.
LEMMA PublishMatches == Publish => Match'
  BY DEF Publish, Match, Status

\* update_session_trays leaves an overlay or none.
LEMMA ToldIsOverlay ==
  ASSUME NEW o \in Overlays \cup {NoOverlay}, NEW p \in Told(o)
  PROVE  p \in Overlays \cup {NoOverlay}
<1>1. CASE o # NoOverlay /\ o.stage = "switch"
  BY <1>1, ConstantsAssumption DEF Told, Overlays, Stages
<1>2. CASE ~ (o # NoOverlay /\ o.stage = "switch")
  BY <1>2 DEF Told
<1> QED BY <1>1, <1>2

\* Changing the overlay of a tray changes nothing else.
LEMMA OverlayOnly ==
  ASSUME NEW tr, Good(tr), NEW o \in Overlays \cup {NoOverlay}
  PROVE  LET new == [tr EXCEPT !.overlay = o]
         IN  Good(new) /\ new.panes = tr.panes /\ new.dead = tr.dead /\ new.overlay = o
  BY DEF Good, Tray

\* A tray that becomes active keeps its panes, as do the others.
LEMMA Becoming ==
  ASSUME NEW ts, NEW a \in DOMAIN ts, \A u \in DOMAIN ts : Good(ts[u]), Become(ts, a)
  PROVE  /\ active' = a /\ Open' = DOMAIN ts
         /\ \A u \in DOMAIN ts : /\ Good(trays'[u])
                                 /\ trays'[u].panes = ts[u].panes
                                 /\ trays'[u].dead = ts[u].dead
<1>1. PICK o \in Told(ts[a].overlay) : trays' = [ts EXCEPT ![a].overlay = o]
  BY DEF Become
<1>2. ts[a].overlay \in Overlays \cup {NoOverlay}
  BY DEF Good, Tray
<1>3. o \in Overlays \cup {NoOverlay}
  BY <1>1, <1>2, ToldIsOverlay
<1>4. active' = a /\ Open' = DOMAIN ts
  BY <1>1 DEF Become, Open
<1>5. trays'[a] = [ts[a] EXCEPT !.overlay = o]
  BY <1>1
<1>6. \A u \in DOMAIN ts : u # a => trays'[u] = ts[u]
  BY <1>1
<1>7. Good(ts[a])
  OBVIOUS
<1>8. /\ Good(trays'[a])
      /\ trays'[a].panes = ts[a].panes /\ trays'[a].dead = ts[a].dead
  BY <1>3, <1>5, <1>7, OverlayOnly
<1> QED BY <1>4, <1>6, <1>8

\* A tray is started with one pane.
LEMMA FreshIsGood == Good(FreshTray) /\ FreshTray.dead = {}
  BY ConstantsAssumption DEF Good, FreshTray, Tray, PaneIds

\* Opening a tray keeps the ones that are open.
LEMMA Ensuring ==
  ASSUME NEW ts, \A u \in DOMAIN ts : Good(ts[u]), NEW t
  PROVE  /\ DOMAIN Ensured(ts, t) = DOMAIN ts \cup {t}
         /\ \A u \in DOMAIN ts : Ensured(ts, t)[u] = ts[u]
         /\ \A u \in DOMAIN Ensured(ts, t) : Good(Ensured(ts, t)[u])
  BY FreshIsGood DEF Ensured

\* Switching leads to the tray and closes none.
LEMMA SwitchingTo ==
  ASSUME NEW ts, \A u \in DOMAIN ts : Good(ts[u]), NEW t, SwitchTo(ts, t)
  PROVE  /\ active' = t /\ Open' = DOMAIN ts \cup {t}
         /\ \A u \in Open' : Good(trays'[u])
         /\ \A u \in DOMAIN ts : trays'[u].panes = ts[u].panes /\ trays'[u].dead = ts[u].dead
<1> DEFINE es == Ensured(ts, t)
<1>1. /\ DOMAIN es = DOMAIN ts \cup {t}
      /\ \A u \in DOMAIN ts : es[u] = ts[u]
      /\ \A u \in DOMAIN es : Good(es[u])
  BY Ensuring
<1>2. Become(es, t)
  BY DEF SwitchTo
<1> HIDE DEF es
<1>3. /\ active' = t /\ Open' = DOMAIN es
      /\ \A u \in DOMAIN es : /\ Good(trays'[u])
                              /\ trays'[u].panes = es[u].panes
                              /\ trays'[u].dead = es[u].dead
  BY <1>1, <1>2, Becoming
<1> QED BY <1>1, <1>3

\* Destroying a tray leads home from it, and nowhere from another tray.
LEMMA Destroying ==
  ASSUME Shells, active \in Open, NEW t \in Open, DestroyTray(t)
  PROVE  /\ t = active => active' = Home /\ Open' = (Open \ {t}) \cup {Home}
         /\ t # active => active' = active /\ Open' = Open \ {t}
         /\ active' \in Open'
         /\ \A u \in Open' : Good(trays'[u])
         /\ \A u \in Open \ {t} : /\ trays'[u].panes = trays[u].panes
                                  /\ trays'[u].dead = trays[u].dead
<1> DEFINE ts == Without(trays, t)
<1>1. DOMAIN ts = Open \ {t} /\ \A u \in DOMAIN ts : ts[u] = trays[u] /\ Good(ts[u])
  BY DEF Without, Open, Shells
<1>2. CASE t = active
  <2>1. SwitchTo(ts, Home)
    BY <1>2 DEF DestroyTray, SwitchTo
  <2> HIDE DEF ts
  <2>2. /\ active' = Home /\ Open' = DOMAIN ts \cup {Home}
        /\ \A u \in Open' : Good(trays'[u])
        /\ \A u \in DOMAIN ts : trays'[u].panes = ts[u].panes /\ trays'[u].dead = ts[u].dead
    BY <1>1, <2>1, SwitchingTo
  <2> QED BY <1>1, <1>2, <2>2
<1>3. CASE t # active
  <2>1. Become(ts, active) /\ active \in DOMAIN ts
    BY <1>1, <1>3 DEF DestroyTray
  <2> HIDE DEF ts
  <2>2. /\ active' = active /\ Open' = DOMAIN ts
        /\ \A u \in DOMAIN ts : /\ Good(trays'[u])
                                /\ trays'[u].panes = ts[u].panes
                                /\ trays'[u].dead = ts[u].dead
    BY <1>1, <2>1, Becoming
  <2> QED BY <1>1, <1>3, <2>2
<1> QED BY <1>2, <1>3

\* Giving a tray an overlay, another one or none keeps the panes.
LEMMA Overlaying ==
  ASSUME Shells, NEW t \in Open, NEW o \in Overlays \cup {NoOverlay}, SetOverlay(t, o)
  PROVE  /\ Open' = Open
         /\ \A u \in Open : /\ Good(trays'[u])
                            /\ trays'[u].panes = trays[u].panes
                            /\ trays'[u].dead = trays[u].dead
<1>1. trays'[t] = [trays[t] EXCEPT !.overlay = o]
  BY DEF SetOverlay, Open
<1>2. Open' = Open /\ \A u \in Open : u # t => trays'[u] = trays[u]
  BY DEF SetOverlay, Open
<1>3. Good(trays[t]) /\ \A u \in Open : Good(trays[u])
  BY DEF Shells
<1>4. /\ Good(trays'[t])
      /\ trays'[t].panes = trays[t].panes /\ trays'[t].dead = trays[t].dead
  BY <1>1, <1>3, OverlayOnly
<1> QED BY <1>2, <1>3, <1>4

\* What the handlers make of an overlay is one.
LEMMA ShownOverlays == \A s \in Stages : Show(s) \in Overlays
  BY DEF Show, Overlays

LEMMA RestartedOverlays == Restarted \subseteq Overlays
  BY ShownOverlays DEF Restarted, Stages

LEMMA ChangedOverlays ==
  ASSUME NEW o \in Overlays, NEW a \in Trays \cup {None}, NEW s \in Stages
  PROVE  /\ [o EXCEPT !.asks = a] \in Overlays
         /\ [o EXCEPT !.exited = TRUE] \in Overlays
         /\ [o EXCEPT !.stage = s] \in Overlays
         /\ [o EXCEPT !.stage = s, !.exited = FALSE] \in Overlays
<1>1. PICK x \in Stages, y \in BOOLEAN, z \in Trays \cup {None} :
        o = [stage |-> x, exited |-> y, asks |-> z]
  BY DEF Overlays
<1>2. [o EXCEPT !.asks = a] \in Overlays
  BY <1>1 DEF Overlays
<1>3. [o EXCEPT !.exited = TRUE] \in Overlays
  BY <1>1 DEF Overlays
<1>4. [o EXCEPT !.stage = s] \in Overlays
  BY <1>1 DEF Overlays
<1>5. [o EXCEPT !.stage = s, !.exited = FALSE] \in Overlays
  BY <1>1 DEF Overlays
<1> QED BY <1>2, <1>3, <1>4, <1>5

\* Keys lead from overlays to overlays.
LEMMA TypedOverlays ==
  ASSUME NEW o \in Overlays
  PROVE  Typed(o) \subseteq Overlays
<1>1. "switch" \in Stages
  BY DEF Stages
<1>2. [o EXCEPT !.stage = "switch"] \in Overlays
  BY <1>1, ChangedOverlays
<1>3. {Show(s) : s \in Stages} \subseteq Overlays
  BY ShownOverlays
<1>4. {[p EXCEPT !.stage = "switch"] : p \in {o} \cap Dialogs} \subseteq Overlays
  BY <1>2
<1> QED BY <1>3, <1>4 DEF Typed

\* The overlay of an open tray, if it has one.
LEMMA OpenOverlays ==
  ASSUME Shells, NEW t \in Open
  PROVE  Over(t) \in Overlays \cup {NoOverlay}
  BY DEF Shells, Good, Tray, Over

------------------------------------------------------------------------------
(* Where the user is, and which trays go                                   *)

Moved == [Switching!Next]_<<Open, active>>

\* OnlyAskedTraysGo, of one step
Asked(t) ==
  \/ trays[t].dead = trays[t].panes
  \/ command /\ t = active /\ Overlay = NoOverlay /\ Cardinality(trays[t].panes) = 1
  \/ command /\ Asking /\ t = Overlay.asks

Gone == \A t \in Open \ Open' : Asked(t)

\* A step that opens and closes nothing, and leaves the user where he is
LEMMA Staying ==
  ASSUME Open' = Open, active' = active
  PROVE  Moved /\ Gone
  BY DEF Moved, Gone

\* A step that leads to a tray, opened if need be
LEMMA Switched ==
  ASSUME NEW t \in Trays, active' = t, Open' = Open \cup {t}
  PROVE  Moved /\ Gone
<1>1. Switching!Switch(t)
  BY DEF Switching!Switch
<1> QED BY <1>1 DEF Moved, Gone, Switching!Next

\* A step that destroys a tray that may go
LEMMA Destroyed ==
  ASSUME Shells, active \in Open, NEW t \in Open, t \in Trays, DestroyTray(t), Asked(t)
  PROVE  Moved /\ Gone
<1>1. /\ t = active => active' = Home /\ Open' = (Open \ {t}) \cup {Home}
      /\ t # active => active' = active /\ Open' = Open \ {t}
  BY Destroying
<1>2. t = active => Switching!CloseActive
  BY <1>1 DEF Switching!CloseActive
<1>3. t # active => Switching!CloseInactive(t)
  BY <1>1 DEF Switching!CloseInactive
<1> QED BY <1>1, <1>2, <1>3 DEF Moved, Gone, Switching!Next

------------------------------------------------------------------------------
(* The keys of a batch                                                     *)

\* What a handler of a key has to see to
LEMMA KeyHandled ==
  ASSUME IInv, Input,
         command' \in BOOLEAN, destroyed' \in BOOLEAN,
         Open' \subseteq Trays, active' \in Open', \A u \in Open' : Good(trays'[u]),
         destroyed' \/ (Open \subseteq Open' /\ destroyed' = destroyed),
         Match'
  PROVE  IInv'
<1>1. phase = "input" /\ phase' = "input" /\ polled' = polled /\ sources' = sources
      /\ exited' = exited /\ changed' = changed
  BY DEF Input, loop
<1>2. TypeOK'
  BY <1>1 DEF IInv, TypeOK, Good
<1>3. Shells'
  BY DEF Shells
<1>4. Listed' /\ Published'
  BY <1>1 DEF Listed, Published
<1>5. Remembered'
  BY <1>1 DEF IInv, Remembered
<1> QED BY <1>2, <1>3, <1>4, <1>5 DEF IInv

\* A key that closes no tray and leaves the user and his panes where they are
LEMMA KeyStays ==
  ASSUME IInv, Input, Open' = Open, active' = active, destroyed' = destroyed,
         \A u \in Open : Good(trays'[u]),
         Publish \/ (/\ published' = published /\ command' = command
                     /\ trays'[active].panes = trays[active].panes),
         command' \in BOOLEAN
  PROVE  IInv' /\ Moved /\ Gone
<1>1. phase = "input" /\ TypeOK /\ Match
  BY DEF IInv, Published, Input
<1>2. Match'
  <2>1. CASE Publish
    BY <2>1, PublishMatches
  <2>2. CASE /\ published' = published /\ command' = command
             /\ trays'[active].panes = trays[active].panes
    BY <1>1, <2>2 DEF Match
  <2> QED BY <2>1, <2>2
<1>3. Open \subseteq Trays /\ active \in Open /\ destroyed \in BOOLEAN
  BY <1>1 DEF TypeOK
<1>4. IInv'
  BY <1>2, <1>3, KeyHandled
<1> QED BY <1>4, Staying

\* A key that changes the active overlay
LEMMA KeyToOverlay ==
  ASSUME IInv, Input, NEW o \in Overlays \cup {NoOverlay}, SetOverlay(active, o),
         active' = active, destroyed' = destroyed,
         Publish \/ (published' = published /\ command' = command),
         command' \in BOOLEAN
  PROVE  IInv' /\ Moved /\ Gone
<1>1. Shells /\ active \in Open
  BY DEF IInv, TypeOK
<1>2. /\ Open' = Open
      /\ \A u \in Open : Good(trays'[u]) /\ trays'[u].panes = trays[u].panes
  BY <1>1, Overlaying
<1> QED BY <1>1, <1>2, KeyStays

\* A key that changes no tray
LEMMA KeyToNone ==
  ASSUME IInv, Input, UNCHANGED <<trays, active, destroyed>>, Publish,
         command' \in BOOLEAN
  PROVE  IInv' /\ Moved /\ Gone
<1>1. Open' = Open /\ \A u \in Open : Good(trays'[u])
  BY DEF IInv, Shells, Open
<1> QED BY <1>1, KeyStays

\* A key that puts or drops the question of the active overlay
LEMMA KeyAsks ==
  ASSUME IInv, Input, NEW a \in Trays \cup {None}, Ask(a), Overlay # NoOverlay,
         active' = active, destroyed' = destroyed, Publish, command' \in BOOLEAN
  PROVE  IInv' /\ Moved /\ Gone
<1>1. Overlay \in Overlays
  BY OpenOverlays DEF IInv, TypeOK, Overlay
<1>2. [Overlay EXCEPT !.asks = a] \in Overlays
  BY <1>1, ChangedOverlays DEF Stages
<1> QED BY <1>2, KeyToOverlay DEF Ask

\* A key into an overlay
LEMMA WritingOverlay ==
  ASSUME IInv, WriteOverlay
  PROVE  IInv' /\ Moved /\ Gone
<1>1. /\ Input /\ Overlay # NoOverlay
      /\ UNCHANGED <<active, command, destroyed, published>>
  BY DEF WriteOverlay
<1>2. active \in Open /\ Shells /\ command \in BOOLEAN
  BY DEF IInv, TypeOK
<1>3. Overlay \in Overlays
  BY <1>1, <1>2, OpenOverlays DEF Overlay
<1>4. PICK o \in Typed(Overlay) : SetOverlay(active, o)
  BY DEF WriteOverlay
<1>5. o \in Overlays
  BY <1>3, TypedOverlays
<1> QED BY <1>1, <1>2, <1>4, <1>5, KeyToOverlay

\* Enter and n, and the command mode's own key
LEMMA DroppingQuestion ==
  ASSUME IInv, DeclineTrayAction \/ ToggleCommandMode
  PROVE  IInv' /\ Moved /\ Gone
<1>1. /\ Input /\ Publish /\ active' = active /\ destroyed' = destroyed
      /\ command' \in BOOLEAN
      /\ IF Asking THEN Ask(None) ELSE UNCHANGED trays
  BY DEF DeclineTrayAction, ToggleCommandMode, IInv, TypeOK
<1>2. CASE Asking
  BY <1>1, <1>2, KeyAsks DEF Asking
<1>3. CASE ~ Asking
  BY <1>1, <1>3, KeyToNone
<1> QED BY <1>2, <1>3

\* The keys of the anonymous trays
LEMMA SwitchingAnonymous ==
  ASSUME IInv, NEW t \in Anon, SwitchAnonymousTray(t)
  PROVE  IInv' /\ Moved /\ Gone
<1>1. /\ Input /\ Publish /\ SwitchTo(trays, t)
      /\ command' = command /\ destroyed' = destroyed
  BY DEF SwitchAnonymousTray
<1>2. t \in Trays /\ Open \subseteq Trays /\ command \in BOOLEAN /\ destroyed \in BOOLEAN
  BY DEF Trays, IInv, TypeOK
<1>3. \A u \in DOMAIN trays : Good(trays[u])
  BY DEF IInv, Shells, Open
<1>4. /\ active' = t /\ Open' = DOMAIN trays \cup {t}
      /\ \A u \in Open' : Good(trays'[u])
  BY <1>1, <1>3, SwitchingTo
<1>5. Open' = Open \cup {t}
  BY <1>4 DEF Open
<1>6. IInv'
  BY <1>1, <1>2, <1>4, <1>5, PublishMatches, KeyHandled
<1> QED BY <1>2, <1>4, <1>5, <1>6, Switched

\* An overlay opens in a tray without one, or the one there is closes.
LEMMA TogglingOverlay ==
  ASSUME IInv, ToggleOverlay
  PROVE  IInv' /\ Moved /\ Gone
<1>1. Input /\ Publish /\ active' = active /\ destroyed' = destroyed
      /\ command' \in BOOLEAN
  BY DEF ToggleOverlay, IInv, TypeOK
<1>2. PICK o \in Overlays \cup {NoOverlay} : SetOverlay(active, o)
  BY ShownOverlays DEF ToggleOverlay, Stages
<1> QED BY <1>1, <1>2, KeyToOverlay

\* The question about the highlighted tray
LEMMA BeginningTrayAction ==
  ASSUME IInv, NEW t \in Trays, BeginTrayAction(t)
  PROVE  IInv' /\ Moved /\ Gone
<1>1. Input /\ Publish /\ active' = active /\ destroyed' = destroyed
      /\ command' \in BOOLEAN
  BY DEF BeginTrayAction, IInv, TypeOK
<1>2. CASE Picking /\ Ask(t)
  BY <1>1, <1>2, KeyAsks DEF Picking
<1>3. CASE Picking /\ Ask(None)
  BY <1>1, <1>3, KeyAsks DEF Picking
<1>4. CASE UNCHANGED trays
  BY <1>1, <1>4, KeyToNone
<1> QED BY <1>2, <1>3, <1>4 DEF BeginTrayAction

\* A key that destroys the tray the user is in
LEMMA KeyDestroys ==
  ASSUME IInv, Input, DestroyTray(active), Asked(active), destroyed' = TRUE,
         Publish, command' = command
  PROVE  IInv' /\ Moved /\ Gone
<1>1. /\ Shells /\ active \in Open /\ Open \subseteq Trays /\ command \in BOOLEAN
  BY DEF IInv, TypeOK
<1>2. /\ Open' = (Open \ {active}) \cup {Home} /\ active' \in Open'
      /\ \A u \in Open' : Good(trays'[u])
  BY <1>1, Destroying
<1>3. Open' \subseteq Trays
  BY <1>1, <1>2, ConstantsAssumption DEF Trays
<1>4. IInv'
  BY <1>1, <1>2, <1>3, PublishMatches, KeyHandled
<1> QED BY <1>1, <1>4, Destroyed

\* The tray of the question goes, and the picker starts again.
LEMMA ClosingOther ==
  ASSUME IInv, Input, command, Asking, NEW t \in Open, t = Overlay.asks, t # active,
         NEW o \in Restarted,
         trays' = [Without(trays, t) EXCEPT ![active].overlay = o],
         active' = active, destroyed' = TRUE, command' = command, Publish
  PROVE  IInv' /\ Moved /\ Gone
<1>1. Shells /\ active \in Open /\ Open \subseteq Trays /\ command \in BOOLEAN
  BY DEF IInv, TypeOK
<1> DEFINE ts == Without(trays, t)
<1>2. DOMAIN ts = Open \ {t} /\ \A u \in DOMAIN ts : ts[u] = trays[u]
  BY DEF Without, Open
<1>3. trays' = [ts EXCEPT ![active].overlay = o]
  OBVIOUS
<1> HIDE DEF ts
<1>4. Open' = Open \ {t}
  BY <1>2, <1>3 DEF Open
<1>5. /\ trays'[active] = [trays[active] EXCEPT !.overlay = o]
      /\ \A u \in Open' : u # active => trays'[u] = trays[u]
  BY <1>1, <1>2, <1>3, <1>4
<1>6. o \in Overlays /\ Good(trays[active])
  BY <1>1, RestartedOverlays DEF Shells
<1>7. Good(trays'[active])
  BY <1>5, <1>6, OverlayOnly
<1>8. \A u \in Open' : Good(trays'[u])
  BY <1>1, <1>4, <1>5, <1>7 DEF Shells
<1>9. IInv'
  BY <1>1, <1>4, <1>8, PublishMatches, KeyHandled
<1>10. Switching!CloseInactive(t) /\ t \in Trays
  BY <1>1, <1>4 DEF Switching!CloseInactive
<1>11. Moved
  BY <1>10 DEF Moved, Switching!Next
<1>12. Gone
  BY <1>4 DEF Gone, Asked
<1> QED BY <1>9, <1>11, <1>12

\* The answer to the question
LEMMA ConfirmingTrayAction ==
  ASSUME IInv, ConfirmTrayAction
  PROVE  IInv' /\ Moved /\ Gone
<1> DEFINE t == Overlay.asks
<1>1. Input /\ command /\ Asking /\ Publish /\ command' = command /\ command \in BOOLEAN
  BY DEF ConfirmTrayAction, IInv, TypeOK
<1>2. CASE t = active /\ DestroyTray(t) /\ destroyed' = TRUE
  <2>1. Asked(active)
    BY <1>1, <1>2 DEF Asked
  <2> QED BY <1>1, <1>2, <2>1, KeyDestroys
<1>3. CASE /\ t \in Open /\ t # active
           /\ \E o \in Restarted : trays' = [Without(trays, t) EXCEPT ![active].overlay = o]
           /\ destroyed' = TRUE
           /\ UNCHANGED active
  BY <1>1, <1>3, ClosingOther
<1>4. CASE /\ \E o \in Restarted : SetOverlay(active, o)
           /\ UNCHANGED <<active, destroyed>>
  BY <1>1, <1>4, RestartedOverlays, KeyToOverlay
<1>5. CASE Ask(None) /\ UNCHANGED <<active, destroyed>>
  BY <1>1, <1>5, KeyAsks DEF Asking
<1> QED BY <1>2, <1>3, <1>4, <1>5 DEF ConfirmTrayAction

\* The active tray gets a pane of the next identity.
LEMMA SplittingPane ==
  ASSUME IInv, SplitPane
  PROVE  IInv' /\ Moved /\ Gone
<1>1. Input /\ Publish /\ active' = active /\ destroyed' = destroyed
      /\ command' = command /\ command \in BOOLEAN /\ active \in Open
  BY DEF SplitPane, IInv, TypeOK
<1> DEFINE old == trays[active]
           new == [old EXCEPT !.panes = @ \cup {old.next}, !.next = @ + 1]
<1>2. old.next <= MaxPane /\ trays' = [trays EXCEPT ![active] = new]
  BY DEF SplitPane
<1>3. Good(old)
  BY <1>1 DEF IInv, Shells
<1>4. Good(new)
  <2>1. /\ old.next \in 1..MaxPane + 1 /\ old.panes \subseteq PaneIds
        /\ old \in Tray
    BY <1>3 DEF Good, Tray
  <2>2. old.next \in PaneIds /\ old.next + 1 \in 1..MaxPane + 1
    BY <1>2, <2>1, ConstantsAssumption DEF PaneIds
  <2>3. new \in Tray
    BY <2>1, <2>2 DEF Tray
  <2>4. new.panes = old.panes \cup {old.next} /\ new.dead = old.dead
    BY <2>1 DEF Tray
  <2> QED BY <1>3, <2>3, <2>4 DEF Good
<1> HIDE DEF new
<1>5. Open' = Open /\ \A u \in Open : Good(trays'[u])
  BY <1>2, <1>4 DEF IInv, Shells, Open
<1> QED BY <1>1, <1>5, KeyStays

\* A pane that is not the last one closes.
LEMMA ClosingOnePane ==
  ASSUME IInv, ClosePane, Cardinality(trays[active].panes) > 1,
         NEW p \in trays[active].panes,
         trays' = [trays EXCEPT ![active].panes = @ \ {p}, ![active].dead = @ \ {p}],
         UNCHANGED <<active, destroyed>>
  PROVE  IInv' /\ Moved /\ Gone
<1>1. Input /\ Publish /\ command' = command /\ command \in BOOLEAN /\ active \in Open
  BY DEF ClosePane, IInv, TypeOK
<1> DEFINE old == trays[active]
           new == [old EXCEPT !.panes = @ \ {p}, !.dead = @ \ {p}]
<1>2. trays' = [trays EXCEPT ![active] = new]
  OBVIOUS
<1>3. Good(old)
  BY <1>1 DEF IInv, Shells
<1>4. old.panes # {p}
  <2>1. Cardinality({p}) = 1
    BY FS_Singleton
  <2> QED BY <2>1
<1>5. Good(new)
  <2>1. old \in Tray /\ new \in Tray
    BY <1>3 DEF Good, Tray
  <2>2. new.panes = old.panes \ {p} /\ new.dead = old.dead \ {p}
    BY <2>1 DEF Tray
  <2> QED BY <1>3, <1>4, <2>1, <2>2 DEF Good
<1> HIDE DEF new
<1>6. Open' = Open /\ \A u \in Open : Good(trays'[u])
  BY <1>2, <1>5 DEF IInv, Shells, Open
<1> QED BY <1>1, <1>6, KeyStays

\* Closing the last pane closes its tray.
LEMMA ClosingPane ==
  ASSUME IInv, ClosePane
  PROVE  IInv' /\ Moved /\ Gone
<1>1. Input /\ Publish /\ command /\ Overlay = NoOverlay /\ command' = command
  BY DEF ClosePane
<1>2. CASE /\ Cardinality(trays[active].panes) > 1
           /\ \E p \in trays[active].panes :
                trays' = [trays EXCEPT ![active].panes = @ \ {p}, ![active].dead = @ \ {p}]
           /\ UNCHANGED <<active, destroyed>>
  BY <1>2, ClosingOnePane
<1>3. CASE /\ Cardinality(trays[active].panes) = 1
           /\ DestroyTray(active)
           /\ destroyed' = TRUE
  <2>1. Asked(active)
    BY <1>1, <1>3 DEF Asked
  <2> QED BY <1>1, <1>3, <2>1, KeyDestroys
<1> QED BY <1>2, <1>3 DEF ClosePane

\* Every key keeps the invariant.
LEMMA KeysKeep == IInv /\ Keys => IInv' /\ Moved /\ Gone
  BY WritingOverlay, DroppingQuestion, SwitchingAnonymous,
     TogglingOverlay, BeginningTrayAction, ConfirmingTrayAction, SplittingPane,
     ClosingPane DEF Keys

------------------------------------------------------------------------------
(* The loop                                                                *)

\* A step of the loop alone changes nothing about the trays.
LEMMA TraysKept ==
  ASSUME IInv, UNCHANGED <<trays, active, command>>
  PROVE  Shells' /\ Moved /\ Gone /\ (Match /\ UNCHANGED published => Match') /\ Open' = Open
<1>1. Open' = Open
  BY DEF Open
<1>2. Shells'
  BY DEF IInv, Shells, Open
<1>3. Moved /\ Gone
  BY <1>1, Staying
<1>4. Match /\ UNCHANGED published => Match'
  BY DEF Match
<1> QED BY <1>1, <1>2, <1>3, <1>4

\* The steps between the phases, and those that do nothing at all
LEMMA Turning ==
  ASSUME IInv,
         \/ Stop \/ EndReaping \/ PollTimesOut \/ PollReturns \/ EndBatch
         \/ EndOverlays \/ DrawOutputs \/ UNCHANGED vars
  PROVE  IInv' /\ Moved /\ Gone
<1>1. UNCHANGED <<trays, active, command>>
  BY DEF Stop, EndReaping, PollTimesOut, PollReturns, EndBatch, EndOverlays,
         DrawOutputs, vars
<1>2. /\ Shells' /\ Moved /\ Gone /\ Open' = Open
      /\ Match /\ UNCHANGED published => Match'
  BY <1>1, TraysKept
<1>3. TypeOK'
  <2>1. TypeOK
    BY DEF IInv
  <2>2. CASE Stop \/ EndReaping \/ PollTimesOut \/ EndOverlays
    BY <1>1, <1>2, <2>1, <2>2
       DEF TypeOK, Stop, EndReaping, PollTimesOut, EndOverlays, loop
  <2>3. CASE PollReturns
    BY <1>1, <1>2, <2>1, <2>3 DEF TypeOK, PollReturns
  <2>4. CASE EndBatch
    BY <1>1, <1>2, <2>1, <2>4 DEF TypeOK, EndBatch, loop
  <2>5. CASE DrawOutputs
    BY <1>1, <1>2, <2>1, <2>5 DEF TypeOK, DrawOutputs
  <2>6. CASE UNCHANGED vars
    BY <1>1, <1>2, <2>1, <2>6 DEF TypeOK, vars
  <2> QED BY <2>2, <2>3, <2>4, <2>5, <2>6
<1>4. Listed'
  <2>1. CASE UNCHANGED vars
    BY <1>2, <2>1 DEF IInv, Listed, vars
  <2>2. CASE ~ UNCHANGED vars
    BY <2>2 DEF Listed, Stop, EndReaping, PollTimesOut, PollReturns, EndBatch,
                EndOverlays, DrawOutputs
  <2> QED BY <2>1, <2>2
<1>5. Remembered'
  <2>1. Remembered
    BY DEF IInv
  <2>2. CASE Stop \/ EndReaping \/ PollTimesOut
    BY <2>2 DEF Remembered, Stop, EndReaping, PollTimesOut
  <2>3. CASE PollReturns
    BY <1>2, <2>3 DEF Remembered, PollReturns
  <2>4. CASE EndBatch
    BY <1>2, <2>1, <2>4 DEF Remembered, EndBatch, loop
  <2>5. CASE EndOverlays
    BY <1>2, <2>1, <2>5 DEF Remembered, EndOverlays, loop
  <2>6. CASE DrawOutputs
    BY <2>6 DEF Remembered, DrawOutputs
  <2>7. CASE UNCHANGED vars
    BY <1>2, <2>1, <2>7 DEF Remembered, vars
  <2> QED BY <2>2, <2>3, <2>4, <2>5, <2>6, <2>7
<1>6. Published'
  <2>1. Published
    BY DEF IInv
  <2>2. CASE UNCHANGED vars
    BY <1>2, <2>1, <2>2 DEF Published, vars
  <2>3. CASE EndReaping
    <3>1. changed \/ Match
      BY <2>1, <2>3 DEF Published, EndReaping
    <3>2. Match'
      BY <1>2, <2>3, <3>1, PublishMatches DEF EndReaping, PublishIf
    <3> QED BY <2>3, <3>2 DEF Published, EndReaping
  <2>4. CASE EndBatch
    <3>1. Match'
      BY <1>2, <2>1, <2>4, PublishMatches DEF Published, EndBatch, PublishIf
    <3> QED BY <2>4, <3>1 DEF Published, EndBatch
  <2>5. CASE Stop \/ PollTimesOut \/ PollReturns \/ EndOverlays \/ DrawOutputs
    BY <1>2, <2>1, <2>5
       DEF Published, Stop, PollTimesOut, PollReturns, EndOverlays, DrawOutputs
  <2> QED BY <2>2, <2>3, <2>4, <2>5
<1> QED BY <1>2, <1>3, <1>4, <1>5, <1>6 DEF IInv

\* Reaping lists the trays whose shells all exited, and takes the panes of
\* the other shells.
LEMMA Reaping ==
  ASSUME IInv, ReapExitedPanes
  PROVE  IInv' /\ Moved /\ Gone
<1>1. TypeOK /\ Shells /\ Match /\ Open' = Open
  BY DEF IInv, Published, ReapExitedPanes, Open
<1>2. \A u \in Open : trays[u].dead = trays[u].panes => trays'[u] = trays[u]
  BY DEF ReapExitedPanes
<1>3. \A u \in Open : trays[u].dead # trays[u].panes =>
         trays'[u] = [trays[u] EXCEPT !.panes = @ \ trays[u].dead, !.dead = {}]
  BY DEF ReapExitedPanes
<1>4. ASSUME NEW u \in Open, trays[u].dead # trays[u].panes
      PROVE  /\ Good(trays'[u])
             /\ trays'[u].panes = trays[u].panes \ trays[u].dead
             /\ trays'[u].dead = {}
  <2> DEFINE old == trays[u]
             new == [old EXCEPT !.panes = @ \ old.dead, !.dead = {}]
  <2>1. Good(old)
    BY <1>1 DEF Shells
  <2>2. old \in Tray /\ new \in Tray
    BY <2>1 DEF Good, Tray
  <2>3. new.panes = old.panes \ old.dead /\ new.dead = {}
    BY <2>2 DEF Tray
  <2>4. trays'[u] = new
    BY <1>3, <1>4
  <2> HIDE DEF new
  <2> QED BY <1>4, <2>1, <2>2, <2>3, <2>4 DEF Good
<1>5. \A u \in Open : Good(trays'[u])
  BY <1>1, <1>2, <1>4 DEF Shells
<1>6. /\ phase' = "reap" /\ active' = active /\ command' = command
      /\ exited' = {t \in Open : trays[t].dead = trays[t].panes}
      /\ changed' = (\E t \in Open : trays[t].dead # {})
      /\ UNCHANGED <<sources, polled, destroyed, published>>
  BY DEF ReapExitedPanes
<1>7. TypeOK'
  BY <1>1, <1>5, <1>6 DEF TypeOK, Good
<1>8. Shells' /\ Remembered'
  BY <1>1, <1>5, <1>6 DEF Shells, Remembered
<1>9. Listed'
  BY <1>1, <1>2, <1>6 DEF Listed
<1>10. Published'
  <2>1. CASE changed'
    BY <1>6, <2>1 DEF Published
  <2>2. CASE ~ changed'
    <3>1. \A t \in Open : trays[t].dead = {} /\ trays[t].panes # {}
      BY <1>1, <1>6, <2>2 DEF Shells, Good
    <3>2. exited' = {}
      BY <1>6, <3>1
    <3>3. active \in Open
      BY <1>1 DEF TypeOK
    <3>4. trays'[active].panes = trays[active].panes
      BY <1>4, <3>1, <3>3
    <3>5. Match'
      BY <1>1, <1>6, <3>4 DEF Match
    <3> QED BY <1>6, <3>2, <3>5 DEF Published
  <2> QED BY <2>1, <2>2
<1> QED BY <1>1, <1>6, <1>7, <1>8, <1>9, <1>10, Staying DEF IInv

\* A listed tray goes; the others stay as they were listed.
LEMMA DestroyingExited ==
  ASSUME IInv, NEW t \in Trays, DestroyNextExited(t)
  PROVE  IInv' /\ Moved /\ Gone
<1>1. /\ phase = "reap" /\ phase' = "reap" /\ t \in exited /\ DestroyTray(t)
      /\ exited' = exited \ {t}
      /\ UNCHANGED <<command, changed, sources, polled, destroyed, published>>
  BY DEF DestroyNextExited
<1>2. /\ TypeOK /\ Shells /\ active \in Open /\ t \in Open /\ changed
      /\ exited \subseteq Open /\ \A u \in exited : trays[u].dead = trays[u].panes
  BY <1>1 DEF IInv, TypeOK, Listed, Published
<1>3. /\ Open' \subseteq Open \cup {Home} /\ Open \ {t} \subseteq Open' /\ active' \in Open'
      /\ \A u \in Open' : Good(trays'[u])
      /\ \A u \in Open \ {t} : /\ trays'[u].panes = trays[u].panes
                               /\ trays'[u].dead = trays[u].dead
  BY <1>1, <1>2, Destroying
<1>4. Home \in Trays
  BY ConstantsAssumption DEF Trays
<1>5. TypeOK'
  BY <1>1, <1>2, <1>3, <1>4 DEF TypeOK, Good
<1>6. Shells' /\ Remembered' /\ Published'
  BY <1>1, <1>2, <1>3 DEF Shells, Remembered, Published
<1>7. Listed'
  BY <1>1, <1>2, <1>3 DEF Listed
<1>8. Asked(t)
  BY <1>1, <1>2 DEF Asked
<1> QED BY <1>1, <1>2, <1>5, <1>6, <1>7, <1>8, Destroyed DEF IInv

------------------------------------------------------------------------------
(* The overlays that were remembered                                       *)

\* What the handler of an overlay has to see to
LEMMA OverlayHandled ==
  ASSUME IInv, NEW t \in Trays, NextOverlay(t), phase' = phase,
         Open \subseteq Open', Open' \subseteq Trays, active' \in Open',
         \A u \in Open' : Good(trays'[u]), Match'
  PROVE  IInv'
<1>1. /\ phase = "overlays" /\ phase' = "overlays" /\ polled' = polled \ {t}
      /\ UNCHANGED <<command, exited, changed, sources, destroyed>>
  BY DEF NextOverlay
<1>2. TypeOK'
  BY <1>1 DEF IInv, TypeOK, Good
<1>3. Shells' /\ Listed' /\ Published'
  BY <1>1 DEF Shells, Listed, Published
<1>4. Remembered'
  BY <1>1 DEF IInv, Remembered
<1> QED BY <1>2, <1>3, <1>4 DEF IInv

\* What is known when an overlay has its turn
LEMMA AtOverlay ==
  ASSUME IInv, NEW t \in Trays, NextOverlay(t)
  PROVE  /\ t \in Open /\ Open \subseteq Trays /\ active \in Open
         /\ Shells /\ Match /\ command' = command
         /\ HasProcess(Over(t)) => Over(t) \in Overlays
<1>1. /\ phase = "overlays" /\ t \in polled /\ command' = command
      /\ polled \subseteq Open /\ TypeOK /\ Shells /\ Match
  BY DEF NextOverlay, IInv, Remembered, Published
<1>2. HasProcess(Over(t)) => Over(t) \in Overlays
  BY <1>1, OpenOverlays DEF HasProcess
<1> QED BY <1>1, <1>2 DEF TypeOK

\* Output is drawn, or there is nothing any more that made some.
LEMMA ReadingOverlay ==
  ASSUME IInv, NEW t \in Trays, ReadOverlay(t)
  PROVE  IInv' /\ Moved /\ Gone
<1>1. /\ NextOverlay(t) /\ phase' = phase /\ UNCHANGED <<trays, active>>
      /\ Publish \/ UNCHANGED published
  BY DEF ReadOverlay, PublishIf
<1>2. /\ Open \subseteq Trays /\ active \in Open /\ Shells /\ Match /\ command' = command
  BY <1>1, AtOverlay
<1>3. Shells' /\ Moved /\ Gone /\ Open' = Open /\ (Match /\ UNCHANGED published => Match')
  BY <1>1, <1>2, TraysKept
<1>4. Match'
  BY <1>1, <1>2, <1>3, PublishMatches
<1>5. \A u \in Open' : Good(trays'[u])
  BY <1>3 DEF Shells
<1>6. IInv'
  BY <1>1, <1>2, <1>3, <1>4, <1>5, OverlayHandled
<1> QED BY <1>3, <1>6

\* A dialog or a new picker takes the place of a process that exited.
LEMMA FinishingProcess ==
  ASSUME IInv, NEW t \in Trays, FinishProcess(t)
  PROVE  IInv' /\ Moved /\ Gone
<1>1. /\ NextOverlay(t) /\ phase' = phase /\ active' = active
      /\ HasProcess(Over(t)) /\ PublishIf(t = active)
  BY DEF FinishProcess
<1>2. /\ t \in Open /\ Open \subseteq Trays /\ active \in Open
      /\ Shells /\ Match /\ command' = command /\ Over(t) \in Overlays
  BY <1>1, AtOverlay
<1>3. PICK o \in Overlays : SetOverlay(t, o)
  <2>1. [Over(t) EXCEPT !.stage = "dialog", !.exited = FALSE] \in Overlays
    BY <1>2, ChangedOverlays DEF Stages
  <2> QED BY <2>1, RestartedOverlays DEF FinishProcess
<1>4. /\ Open' = Open
      /\ \A u \in Open : Good(trays'[u]) /\ trays'[u].panes = trays[u].panes
  BY <1>2, <1>3, Overlaying
<1>5. Match'
  <2>1. CASE Publish
    BY <2>1, PublishMatches
  <2>2. CASE UNCHANGED published
    BY <1>1, <1>2, <1>4, <2>2 DEF Match
  <2> QED BY <1>1, <2>1, <2>2 DEF PublishIf
<1>6. IInv'
  BY <1>1, <1>2, <1>4, <1>5, OverlayHandled
<1> QED BY <1>1, <1>4, <1>6, Staying

\* The overlay closes and, if there is one, the selected tray opens.
LEMMA OpeningSelected ==
  ASSUME IInv, NEW t \in Trays, NEW u \in Trays, OpenSelected(t, u)
  PROVE  IInv' /\ Moved /\ Gone
<1> DEFINE closed == [trays EXCEPT ![t].overlay = NoOverlay]
<1>1. NextOverlay(t) /\ phase' = phase
  BY DEF OpenSelected
<1>2. /\ t \in Open /\ Open \subseteq Trays /\ active \in Open
      /\ Shells /\ Match /\ command' = command
  BY <1>1, AtOverlay
<1>3. /\ DOMAIN closed = Open
      /\ \A v \in Open : Good(closed[v]) /\ closed[v].panes = trays[v].panes
  <2>1. DOMAIN closed = Open /\ \A v \in Open \ {t} : closed[v] = trays[v]
    BY DEF Open
  <2>2. closed[t] = [trays[t] EXCEPT !.overlay = NoOverlay]
    BY <1>2 DEF Open
  <2>3. Good(closed[t]) /\ closed[t].panes = trays[t].panes
    BY <1>2, <2>2, OverlayOnly DEF Shells
  <2> QED BY <1>2, <2>1, <2>3 DEF Shells
<1>4. \/ trays' = closed /\ UNCHANGED <<active, published>>
      \/ \E root \in Trays : SwitchTo(closed, root) /\ Publish
  BY ConstantsAssumption DEF OpenSelected, RootFor, Trays
<1> HIDE DEF closed
<1>5. CASE trays' = closed /\ UNCHANGED <<active, published>>
  <2>1. /\ Open' = Open
        /\ \A v \in Open : Good(trays'[v]) /\ trays'[v].panes = trays[v].panes
    BY <1>3, <1>5 DEF Open
  <2>2. Match'
    BY <1>2, <1>5, <2>1 DEF Match
  <2>3. IInv'
    BY <1>1, <1>2, <1>5, <2>1, <2>2, OverlayHandled
  <2> QED BY <1>5, <2>1, <2>3, Staying
<1>6. ASSUME NEW root \in Trays, SwitchTo(closed, root), Publish
      PROVE  IInv' /\ Moved /\ Gone
  <2>1. /\ active' = root /\ Open' = Open \cup {root}
        /\ \A v \in Open' : Good(trays'[v])
    BY <1>3, <1>6, SwitchingTo
  <2>2. Match'
    BY <1>6, PublishMatches
  <2>3. IInv'
    BY <1>1, <1>2, <2>1, <2>2, OverlayHandled
  <2> QED BY <2>1, <2>3, Switched
<1> QED BY <1>4, <1>5, <1>6

------------------------------------------------------------------------------
(* What exits                                                              *)

\* An exit that the loop has not seen yet changes no pane and no tray that
\* waits for its destruction.
LEMMA ExitUnseen ==
  ASSUME IInv, Open' = Open, \A u \in Open : Good(trays'[u]),
         \A u \in Open : trays'[u].panes = trays[u].panes,
         \A u \in Open : trays[u].dead = trays[u].panes => trays'[u].dead = trays[u].dead,
         UNCHANGED <<phase, active, command, loop, destroyed, published>>
  PROVE  IInv' /\ Moved /\ Gone
<1>1. TypeOK /\ Shells /\ Listed /\ Remembered /\ Published
  BY DEF IInv
<1>2. active \in Open
  BY <1>1 DEF TypeOK
<1>3. TypeOK'
  BY <1>1 DEF TypeOK, loop, Good
<1>4. Shells'
  BY DEF Shells
<1>5. Listed'
  BY <1>1 DEF Listed, loop
<1>6. Remembered'
  BY <1>1 DEF Remembered, loop
<1>7. Match => Match'
  BY <1>2 DEF Match
<1>8. Published'
  BY <1>1, <1>7 DEF Published, loop
<1> QED BY <1>3, <1>4, <1>5, <1>6, <1>8, Staying DEF IInv

\* A shell
LEMMA ShellExiting ==
  ASSUME IInv, NEW t \in Trays, ShellExits(t)
  PROVE  IInv' /\ Moved /\ Gone
<1>1. t \in Open /\ Shells /\ UNCHANGED <<phase, active, command, loop, destroyed, published>>
  BY DEF ShellExits, IInv
<1>2. PICK p \in trays[t].panes \ trays[t].dead :
        trays' = [trays EXCEPT ![t].dead = @ \cup {p}]
  BY DEF ShellExits
<1> DEFINE old == trays[t]
           new == [old EXCEPT !.dead = @ \cup {p}]
<1>3. Open' = Open /\ trays' = [trays EXCEPT ![t] = new]
  BY <1>2 DEF Open
<1>4. Good(old)
  BY <1>1 DEF Shells
<1>5. new.panes = old.panes /\ new.dead = old.dead \cup {p} /\ new \in Tray
  BY <1>2, <1>4 DEF Good, Tray
<1>6. Good(new) /\ old.dead # old.panes
  BY <1>2, <1>4, <1>5 DEF Good
<1> HIDE DEF new
<1>7. trays'[t] = new /\ \A u \in Open : u # t => trays'[u] = trays[u]
  BY <1>1, <1>3 DEF Open
<1> QED BY <1>1, <1>3, <1>5, <1>6, <1>7, ExitUnseen DEF Shells

\* The process of an overlay
LEMMA ProcessExiting ==
  ASSUME IInv, NEW t \in Trays, ProcessExits(t)
  PROVE  IInv' /\ Moved /\ Gone
<1>1. /\ t \in Open /\ Shells /\ HasProcess(Over(t))
      /\ SetOverlay(t, [Over(t) EXCEPT !.exited = TRUE])
      /\ UNCHANGED <<phase, active, command, loop, destroyed, published>>
  BY DEF ProcessExits, IInv
<1>2. [Over(t) EXCEPT !.exited = TRUE] \in Overlays
  BY <1>1, OpenOverlays, ChangedOverlays DEF HasProcess, Stages
<1>3. /\ Open' = Open
      /\ \A u \in Open : /\ Good(trays'[u])
                         /\ trays'[u].panes = trays[u].panes
                         /\ trays'[u].dead = trays[u].dead
  BY <1>1, <1>2, Overlaying
<1> QED BY <1>1, <1>3, ExitUnseen

------------------------------------------------------------------------------
(* The theorems                                                            *)

\* The parent starts in the home tray with one shell, and says so.
LEMMA Starting == Init => IInv
<1> SUFFICES ASSUME Init PROVE IInv
  OBVIOUS
<1>1. Home \in Trays
  BY ConstantsAssumption DEF Trays
<1>2. Open = {Home} /\ trays[Home] = FreshTray
  BY DEF Init, Open
<1>3. Good(FreshTray)
  BY FreshIsGood
<1>4. TypeOK
  BY <1>1, <1>2, <1>3 DEF Init, TypeOK, Good
<1>5. Shells /\ Listed /\ Remembered
  BY <1>2, <1>3 DEF Init, Shells, Listed, Remembered
<1>6. Published
  BY DEF Init, Published, Match, Status
<1> QED BY <1>4, <1>5, <1>6 DEF IInv

\* Every step keeps the invariant, moves the user as the tray manager
\* promises, and destroys only trays that may go.
LEMMA Stepping == IInv /\ [Next]_vars => IInv' /\ Moved /\ Gone
<1> SUFFICES ASSUME IInv, [Next]_vars PROVE IInv' /\ Moved /\ Gone
  OBVIOUS
<1>1. CASE UNCHANGED vars \/ Stop
  BY <1>1, Turning
<1>2. CASE Keys
  BY <1>2, KeysKeep
<1>3. CASE Step
  <2>1. CASE ReapExitedPanes
    BY <2>1, Reaping
  <2>2. CASE EndReaping \/ PollTimesOut \/ PollReturns \/ EndBatch \/ EndOverlays
             \/ DrawOutputs
    BY <2>2, Turning
  <2>3. CASE \E t \in Trays : \/ DestroyNextExited(t) \/ ReadOverlay(t) \/ FinishProcess(t)
                              \/ \E u \in Trays : OpenSelected(t, u)
    BY <2>3, DestroyingExited, ReadingOverlay, FinishingProcess, OpeningSelected
  <2> QED BY <1>3, <2>1, <2>2, <2>3 DEF Step
<1>4. CASE \E t \in Trays : ShellExits(t) \/ ProcessExits(t)
  BY <1>4, ShellExiting, ProcessExiting
<1> QED BY <1>1, <1>2, <1>3, <1>4 DEF Next

\* The invariant holds in every state of every run, for any number of trays,
\* panes and overlays.
THEOREM Invariance == Spec => []IInv
<1>1. Init => IInv
  BY Starting
<1>2. IInv /\ [Next]_vars => IInv'
  BY Stepping
<1> QED BY <1>1, <1>2, PTL DEF Spec

\* The variables keep their types, the active tray is open, and no open tray
\* is without a pane.
THEOREM TypeCorrectness == Spec => []TypeOK
<1>1. IInv => TypeOK
  BY DEF IInv
<1> QED BY <1>1, Invariance, PTL

\* The lookups of trays by what was remembered before a batch of input never
\* throw, because a batch that destroyed a tray ends the iteration.
THEOREM RememberedTraysAreOpen == Spec => []NoTrayIsLost
<1>1. IInv => NoTrayIsLost
  BY DEF IInv, Remembered, NoTrayIsLost
<1> QED BY <1>1, Invariance, PTL

\* Whenever the parent waits, the bridge knows the command mode, the active
\* tray and its panes.
THEOREM BridgeKnowsTheTray == Spec => []PublishedIdentity
<1>1. IInv => PublishedIdentity
  BY DEF IInv, Published, Match, PublishedIdentity
<1> QED BY <1>1, Invariance, PTL

\* No tray goes that has a running shell, unless the user closed its last
\* pane or answered the question about it.
THEOREM TraysGoOnlyWhenAsked == Spec => OnlyAskedTraysGo
<1>1. IInv /\ [Next]_vars =>
        [\A t \in Open \ DOMAIN trays' :
           \/ trays[t].dead = trays[t].panes
           \/ command /\ t = active /\ Overlay = NoOverlay /\ Cardinality(trays[t].panes) = 1
           \/ command /\ Asking /\ t = Overlay.asks]_vars
  BY Stepping DEF Gone, Asked, Open
<1> QED BY <1>1, Invariance, PTL DEF Spec, OnlyAskedTraysGo

\* The loop, its dispatcher and its overlays open, close and activate trays
\* only as the tray manager's promise has it.
THEOREM Refinement == Spec => RefinesSwitching
<1>1. Init => Switching!Init
  BY DEF Init, Switching!Init, Open
<1>2. IInv /\ [Next]_vars => [Switching!Next]_<<Open, active>>
  BY Stepping DEF Moved
<1> QED BY <1>1, <1>2, Invariance, PTL DEF Spec, RefinesSwitching, Switching!Spec
=============================================================================
