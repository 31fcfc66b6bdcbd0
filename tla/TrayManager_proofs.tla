------------------------- MODULE TrayManager_proofs -------------------------
(***************************************************************************)
(* Proofs about TrayManager, for any number of anonymous trays, worktrees, *)
(* panes and terminal sizes.  The conjunction of the module's invariants   *)
(* is inductive; the action property and the refinement follow from it.    *)
(***************************************************************************)
EXTENDS TrayManager, TLAPS

\* A collection of well-formed trays, the first two conjuncts of TypeOK.
GoodTrays(ts) ==
  /\ DOMAIN ts \subseteq TrayIds
  /\ \A t \in DOMAIN ts : ts[t] \in Tray /\ ts[t].live + ts[t].dead \in 1..MaxPanes

\* Tray a of ts and its overlay have size s.
Sized(ts, a, s) ==
  /\ ts[a].size = s
  /\ ts[a].overlay # NoOverlay => ts[a].overlay.size = s

\* The overlay of tray a of ts offers the anonymous trays of ts.
Listing(ts, a) ==
  ts[a].overlay # NoOverlay => ts[a].overlay.session = Anon \cap DOMAIN ts

\* A tray of both collections keeps its running and its exited shells.
SameShells(ts, us) ==
  \A t \in DOMAIN ts \cap DOMAIN us :
    us[t].live = ts[t].live /\ us[t].dead = ts[t].dead

\* The inductive invariant.
IInv ==
  /\ GoodTrays(trays) /\ active \in DOMAIN trays /\ size \in Sizes
  /\ exited \subseteq DOMAIN trays
  /\ \A t \in exited : trays[t].live = 0
  /\ Sized(trays, active, size) /\ Listing(trays, active)

\* Anonymous tray 1, the tray the manager falls back to, is a tray.
LEMMA HomeIsATray == 1 \in TrayIds /\ 1 \in Anon
BY ConstantsAssumption DEF TrayIds, Anon

\* A tray resized to s stays well-formed, keeps its shells and has size s.
LEMMA ResizedTrayType ==
  ASSUME NEW tr \in Tray, NEW s \in Sizes
  PROVE  /\ ResizedTray(tr, s) \in Tray
         /\ ResizedTray(tr, s).live = tr.live
         /\ ResizedTray(tr, s).dead = tr.dead
         /\ ResizedTray(tr, s).size = s
         /\ ResizedTray(tr, s).overlay # NoOverlay =>
              /\ ResizedTray(tr, s).overlay.size = s
              /\ tr.overlay # NoOverlay
              /\ ResizedTray(tr, s).overlay.session = tr.overlay.session
<1> DEFINE o == IF tr.overlay = NoOverlay THEN tr.overlay
                ELSE [tr.overlay EXCEPT !.size = s]
<1>1. /\ o \in Overlays \cup {NoOverlay}
      /\ o # NoOverlay => /\ o.size = s /\ tr.overlay # NoOverlay
                          /\ o.session = tr.overlay.session
  BY DEF Tray, Overlays
<1>2. ResizedTray(tr, s) = [tr EXCEPT !.size = s, !.overlay = o]
  BY DEF ResizedTray, Tray
<1> HIDE DEF o
<1> QED  BY <1>1, <1>2 DEF Tray

\* A tray that is started is well-formed and has one running shell.
LEMMA FreshTrayType ==
  ASSUME size \in Sizes
  PROVE  FreshTray \in Tray /\ FreshTray.live + FreshTray.dead \in 1..MaxPanes
BY ConstantsAssumption DEF FreshTray, Tray

\* Activating a tray opens it if need be, gives it the current size and
\* leaves the shells of the other trays alone.
LEMMA ActivatedType ==
  ASSUME NEW ts, GoodTrays(ts), NEW t \in TrayIds, size \in Sizes
  PROVE  /\ DOMAIN Activated(ts, t) = DOMAIN ts \cup {t}
         /\ GoodTrays(Activated(ts, t))
         /\ Sized(Activated(ts, t), t, size)
         /\ SameShells(ts, Activated(ts, t))
<1> DEFINE us == Ensure(ts, t)
<1>1. DOMAIN us = DOMAIN ts \cup {t} /\ GoodTrays(us) /\ SameShells(ts, us)
  BY FreshTrayType DEF Ensure, GoodTrays, SameShells
<1>2. Activated(ts, t) = [us EXCEPT ![t] = ResizedTray(us[t], size)]
  BY DEF Activated
<1> HIDE DEF us
<1>3. us[t] \in Tray
  BY <1>1 DEF GoodTrays
<1> DEFINE r == ResizedTray(us[t], size)
<1>4. /\ r \in Tray /\ r.live = us[t].live /\ r.dead = us[t].dead
      /\ r.size = size
      /\ r.overlay # NoOverlay => r.overlay.size = size
  BY <1>3, ResizedTrayType
<1> HIDE DEF r
<1>5. Activated(ts, t) = [us EXCEPT ![t] = r]
  BY <1>2 DEF r
<1>6. /\ DOMAIN Activated(ts, t) = DOMAIN us
      /\ Activated(ts, t)[t] = r
      /\ \A u \in DOMAIN us \ {t} : Activated(ts, t)[u] = us[u]
  BY <1>1, <1>5
<1>7. GoodTrays(Activated(ts, t))
  BY <1>1, <1>4, <1>6 DEF GoodTrays
<1>8. SameShells(ts, Activated(ts, t))
  BY <1>1, <1>4, <1>6 DEF SameShells
<1>9. Sized(Activated(ts, t), t, size)
  BY <1>4, <1>6 DEF Sized
<1> QED  BY <1>1, <1>6, <1>7, <1>8, <1>9

\* Refreshing the overlay of tray a makes it offer the open trays and changes
\* nothing else.
LEMMA RefreshedType ==
  ASSUME NEW ts, GoodTrays(ts), NEW a \in DOMAIN ts
  PROVE  /\ DOMAIN Refreshed(ts, a) = DOMAIN ts
         /\ GoodTrays(Refreshed(ts, a))
         /\ Listing(Refreshed(ts, a), a)
         /\ SameShells(ts, Refreshed(ts, a))
         /\ \A s : Sized(ts, a, s) => Sized(Refreshed(ts, a), a, s)
<1> DEFINE offered == Anon \cap DOMAIN ts
           o == IF ts[a].overlay = NoOverlay THEN ts[a].overlay
                ELSE [ts[a].overlay EXCEPT !.session = offered]
           r == [ts[a] EXCEPT !.overlay = o]
<1>1. ts[a] \in Tray
  BY DEF GoodTrays
<1>2. /\ o \in Overlays \cup {NoOverlay}
      /\ o # NoOverlay => /\ o.session = offered
                          /\ ts[a].overlay # NoOverlay
                          /\ o.size = ts[a].overlay.size
  BY <1>1 DEF Tray, Overlays
<1>3. Refreshed(ts, a) = [ts EXCEPT ![a] = r]
  BY DEF Refreshed
<1> HIDE DEF o
<1>4. /\ r \in Tray /\ r.live = ts[a].live /\ r.dead = ts[a].dead
      /\ r.size = ts[a].size /\ r.overlay = o
  BY <1>1, <1>2 DEF Tray
<1> HIDE DEF r
<1>5. /\ DOMAIN Refreshed(ts, a) = DOMAIN ts
      /\ Refreshed(ts, a)[a] = r
      /\ \A t \in DOMAIN ts \ {a} : Refreshed(ts, a)[t] = ts[t]
  BY <1>3
<1>6. GoodTrays(Refreshed(ts, a)) /\ SameShells(ts, Refreshed(ts, a))
  BY <1>4, <1>5 DEF GoodTrays, SameShells
<1>7. Listing(Refreshed(ts, a), a)
  BY <1>2, <1>4, <1>5 DEF Listing
<1>8. \A s : Sized(ts, a, s) => Sized(Refreshed(ts, a), a, s)
  BY <1>2, <1>4, <1>5 DEF Sized
<1> QED  BY <1>5, <1>6, <1>7, <1>8

\* Destroying tray t while tray a is active leaves the other trays with their
\* shells, and leaves an active tray that is open, sized and up to date.
LEMMA DestroyedType ==
  ASSUME NEW ts, GoodTrays(ts), size \in Sizes,
         NEW a \in DOMAIN ts, Sized(ts, a, size), NEW t \in DOMAIN ts
  PROVE  /\ DOMAIN Destroyed(ts, a, t) =
              (DOMAIN ts \ {t}) \cup {ActiveAfter(a, t)}
         /\ GoodTrays(Destroyed(ts, a, t))
         /\ Sized(Destroyed(ts, a, t), ActiveAfter(a, t), size)
         /\ Listing(Destroyed(ts, a, t), ActiveAfter(a, t))
         /\ \A u \in DOMAIN ts \ {t} :
              /\ Destroyed(ts, a, t)[u].live = ts[u].live
              /\ Destroyed(ts, a, t)[u].dead = ts[u].dead
<1> DEFINE left == Without(ts, t)
           b    == ActiveAfter(a, t)
           kept == IF t = a THEN Activated(left, 1) ELSE left
<1>1. /\ DOMAIN left = DOMAIN ts \ {t} /\ GoodTrays(left)
      /\ \A u \in DOMAIN left : left[u] = ts[u]
  BY DEF Without, GoodTrays
<1>2. Destroyed(ts, a, t) = Refreshed(kept, b)
  BY DEF Destroyed
<1>3. /\ DOMAIN kept = DOMAIN left \cup {b}
      /\ GoodTrays(kept) /\ Sized(kept, b, size) /\ SameShells(left, kept)
  <2>1. CASE t = a
    <3>1. b = 1 /\ kept = Activated(left, 1)
      BY <2>1 DEF ActiveAfter
    <3> HIDE DEF left, kept, b
    <3> QED  BY <1>1, <3>1, HomeIsATray, ActivatedType
  <2>2. CASE t # a
    <3>1. b = a /\ kept = left
      BY <2>2 DEF ActiveAfter
    <3> HIDE DEF left, kept, b
    <3>2. a \in DOMAIN left /\ left[a] = ts[a]
      BY <1>1, <2>2
    <3> QED  BY <1>1, <3>1, <3>2 DEF Sized, SameShells
  <2> QED  BY <2>1, <2>2
<1> HIDE DEF left, kept, b
<1>4. /\ DOMAIN Destroyed(ts, a, t) = DOMAIN kept
      /\ GoodTrays(Destroyed(ts, a, t))
      /\ Sized(Destroyed(ts, a, t), b, size)
      /\ Listing(Destroyed(ts, a, t), b)
      /\ SameShells(kept, Destroyed(ts, a, t))
  BY <1>2, <1>3, RefreshedType
<1>5. \A u \in DOMAIN ts \ {t} :
        /\ Destroyed(ts, a, t)[u].live = ts[u].live
        /\ Destroyed(ts, a, t)[u].dead = ts[u].dead
  BY <1>1, <1>3, <1>4 DEF SameShells
<1> QED  BY <1>1, <1>3, <1>4, <1>5 DEF b

------------------------------------------------------------------------------
\* The inductive invariant is the conjunction of the module's invariants.
LEMMA IInvMeans ==
  IInv <=> /\ TypeOK /\ ActiveTrayOpen /\ ActiveTraySized
           /\ ActiveOverlayListsOpenTrays /\ ExitedTraysAreGone
BY DEF IInv, TypeOK, ActiveTrayOpen, ActiveTraySized, Gone, Panes, Open,
       ActiveOverlayListsOpenTrays, ExitedTraysAreGone, GoodTrays, Sized, Listing

\* The manager starts with anonymous tray 1 alone, open and active.
LEMMA InitIInv == Init => IInv
<1> SUFFICES ASSUME Init PROVE IInv
  OBVIOUS
<1>1. GoodTrays(trays)
  BY HomeIsATray, FreshTrayType DEF Init, GoodTrays
<1>2. Sized(trays, active, size) /\ Listing(trays, active)
  BY DEF Init, FreshTray, Sized, Listing
<1> QED  BY <1>1, <1>2 DEF Init, IInv

\* The effect of destroy_tray on the trays of a reachable state.
LEMMA DestroyEffect ==
  ASSUME IInv, NEW t \in Open
  PROVE  LET us == Destroyed(trays, active, t)
             b  == ActiveAfter(active, t)
         IN  /\ DOMAIN us = (Open \ {t}) \cup {b}
             /\ GoodTrays(us) /\ Sized(us, b, size) /\ Listing(us, b)
             /\ \A u \in Open \ {t} :
                  us[u].live = trays[u].live /\ us[u].dead = trays[u].dead
<1>1. /\ GoodTrays(trays) /\ active \in DOMAIN trays /\ size \in Sizes
      /\ Sized(trays, active, size) /\ t \in DOMAIN trays
  BY DEF IInv, Open
<1> QED  BY <1>1, DestroyedType DEF Open

\* What the operations that destroy a tray have in common.
LEMMA DestroyStep ==
  ASSUME IInv, NEW t \in Open,
         trays' = Destroyed(trays, active, t),
         active' = ActiveAfter(active, t),
         exited' = exited \ {t}, size' = size
  PROVE  IInv'
<1>1. /\ size \in Sizes /\ exited \subseteq Open
      /\ \A u \in exited : trays[u].live = 0
  BY DEF IInv, Open
<1>2. /\ DOMAIN trays' = (Open \ {t}) \cup {active'}
      /\ GoodTrays(trays') /\ Sized(trays', active', size)
      /\ Listing(trays', active')
      /\ \A u \in Open \ {t} : trays'[u].live = trays[u].live
  BY DestroyEffect
<1>3. \A u \in exited' : u \in DOMAIN trays' /\ trays'[u].live = 0
  BY <1>1, <1>2
<1> QED  BY <1>1, <1>2, <1>3 DEF IInv

\* What the operations that change one tray in place have in common.
LEMMA UpdateStep ==
  ASSUME IInv, NEW t \in Open, NEW r \in Tray,
         r.live + r.dead \in 1..MaxPanes,
         t \in exited => r.live = 0,
         trays' = [trays EXCEPT ![t] = r],
         active' = active, exited' = exited, size' \in Sizes,
         t # active => size' = size,
         t = active => /\ r.size = size'
                       /\ r.overlay # NoOverlay =>
                            /\ r.overlay.size = size'
                            /\ r.overlay.session = Anon \cap Open
  PROVE  IInv'
<1>1. /\ GoodTrays(trays) /\ active \in DOMAIN trays
      /\ exited \subseteq DOMAIN trays
      /\ \A u \in exited : trays[u].live = 0
      /\ Sized(trays, active, size) /\ Listing(trays, active)
  BY DEF IInv
<1>2. /\ DOMAIN trays' = DOMAIN trays /\ trays'[t] = r
      /\ \A u \in DOMAIN trays \ {t} : trays'[u] = trays[u]
  BY DEF Open
<1>3. GoodTrays(trays')
  BY <1>1, <1>2 DEF GoodTrays
<1>4. Sized(trays', active, size')
  BY <1>1, <1>2 DEF Sized
<1>5. Listing(trays', active)
  BY <1>1, <1>2 DEF Listing, Open
<1>6. \A u \in exited : trays'[u].live = 0
  BY <1>1, <1>2
<1> QED  BY <1>1, <1>2, <1>3, <1>4, <1>5, <1>6 DEF IInv

\* Every step preserves the inductive invariant.
LEMMA NextIInv == IInv /\ [Next]_vars => IInv'
<1> SUFFICES ASSUME IInv, [Next]_vars PROVE IInv'
  OBVIOUS
<1>inv. /\ GoodTrays(trays) /\ active \in DOMAIN trays /\ size \in Sizes
        /\ exited \subseteq DOMAIN trays
        /\ \A t \in exited : trays[t].live = 0
        /\ Sized(trays, active, size) /\ Listing(trays, active)
  BY DEF IInv
<1>act. trays[active] \in Tray /\ trays[active].live + trays[active].dead \in 1..MaxPanes
  BY <1>inv DEF GoodTrays
<1>1. ASSUME NEW t \in TrayIds, SwitchTo(t) PROVE IInv'
  <2> DEFINE us == Activated(trays, t)
  <2>1. /\ DOMAIN us = DOMAIN trays \cup {t} /\ GoodTrays(us)
        /\ Sized(us, t, size)
    BY <1>inv, ActivatedType
  <2>2. /\ trays' = Refreshed(us, t) /\ active' = t /\ size' = size
        /\ exited = {} /\ exited' = {}
    BY <1>1 DEF SwitchTo, Idle
  <2> HIDE DEF us
  <2>3. /\ DOMAIN trays' = DOMAIN us /\ GoodTrays(trays')
        /\ Sized(trays', t, size) /\ Listing(trays', t)
    BY <2>1, <2>2, RefreshedType
  <2> QED  BY <1>inv, <2>1, <2>2, <2>3 DEF IInv
<1>2. ASSUME NEW t \in TrayIds, DestroyTray(t) PROVE IInv'
  BY <1>2, DestroyStep DEF DestroyTray, Idle
<1>3. ASSUME NEW t \in TrayIds, ClearOverlay(t) PROVE IInv'
  <2> DEFINE r == [trays[t] EXCEPT !.overlay = NoOverlay]
  <2>1. /\ trays' = [trays EXCEPT ![t] = r] /\ t \in Open /\ trays[t] \in Tray
        /\ trays[t].live + trays[t].dead \in 1..MaxPanes
        /\ exited' = exited /\ exited = {} /\ active' = active /\ size' = size
    BY <1>3, <1>inv DEF ClearOverlay, Open, GoodTrays, Idle
  <2>2. /\ r \in Tray /\ r.live = trays[t].live /\ r.dead = trays[t].dead
        /\ r.size = trays[t].size /\ r.overlay = NoOverlay
    BY <2>1 DEF Tray
  <2> HIDE DEF r
  <2> QED  BY <1>inv, <2>1, <2>2, UpdateStep DEF Sized
<1>4. ASSUME NEW t \in TrayIds, DestroyNextExited(t) PROVE IInv'
  <2>1. t \in exited /\ t \in Open
    BY <1>4, <1>inv DEF DestroyNextExited, NextExited, Open
  <2> QED  BY <1>4, <2>1, DestroyStep DEF DestroyNextExited
<1>5. ASSUME NEW t \in TrayIds, ShellExits(t) PROVE IInv'
  <2> DEFINE r == [trays[t] EXCEPT !.live = @ - 1, !.dead = @ + 1]
  <2>1. /\ trays' = [trays EXCEPT ![t] = r] /\ t \in Open /\ trays[t] \in Tray
        /\ trays[t].live + trays[t].dead \in 1..MaxPanes /\ trays[t].live > 0
        /\ exited' = exited /\ active' = active /\ size' = size
    BY <1>5, <1>inv DEF ShellExits, Open, GoodTrays
  <2>2. /\ trays[t].live \in 0..MaxPanes /\ trays[t].dead \in 0..MaxPanes
        /\ r.live = trays[t].live - 1 /\ r.dead = trays[t].dead + 1
    BY <2>1 DEF Tray
  <2>3. /\ r.live \in 0..MaxPanes /\ r.dead \in 0..MaxPanes
        /\ r.live + r.dead \in 1..MaxPanes
    BY <2>1, <2>2, ConstantsAssumption
  <2>4. /\ r \in Tray /\ r.live + r.dead \in 1..MaxPanes
        /\ r.size = trays[t].size /\ r.overlay = trays[t].overlay
    BY <2>1, <2>3 DEF Tray
  <2>5. t \notin exited
    BY <1>inv, <2>1
  <2> HIDE DEF r
  <2> QED  BY <1>inv, <2>1, <2>4, <2>5, UpdateStep DEF Sized, Listing, Open
<1>6. ASSUME NEW s \in Sizes, ResizeActive(s) PROVE IInv'
  <2> DEFINE r == ResizedTray(trays[active], s)
  <2>1. /\ trays' = [trays EXCEPT ![active] = r]
        /\ exited = {} /\ exited' = exited /\ active' = active /\ size' = s
    BY <1>6 DEF ResizeActive, Idle
  <2>2. /\ r \in Tray /\ r.size = s
        /\ r.live = trays[active].live /\ r.dead = trays[active].dead
        /\ r.overlay # NoOverlay => /\ r.overlay.size = s
                                    /\ trays[active].overlay # NoOverlay
                                    /\ r.overlay.session = trays[active].overlay.session
    BY <1>act, ResizedTrayType
  <2> HIDE DEF r
  <2> QED  BY <1>inv, <1>act, <2>1, <2>2, UpdateStep DEF Listing, Open
<1>7. CASE OpenOverlay
  <2> DEFINE o == [session |-> Anon \cap Open, size |-> size]
             r == [trays[active] EXCEPT !.overlay = o]
  <2>1. /\ trays' = [trays EXCEPT ![active] = r]
        /\ exited = {} /\ exited' = exited /\ active' = active /\ size' = size
    BY <1>7 DEF OpenOverlay, Idle
  <2>2. /\ r \in Tray /\ r.live = trays[active].live /\ r.dead = trays[active].dead
        /\ r.size = trays[active].size /\ r.overlay = o
    BY <1>inv, <1>act DEF Tray, Overlays
  <2>3. o.session = Anon \cap Open /\ o.size = size
    OBVIOUS
  <2> HIDE DEF r, o
  <2> QED  BY <1>inv, <1>act, <2>1, <2>2, <2>3, UpdateStep DEF Sized, Open
<1>8. CASE SplitPane
  <2> DEFINE r == [trays[active] EXCEPT !.live = @ + 1]
  <2>1. /\ trays' = [trays EXCEPT ![active] = r]
        /\ trays[active].live + trays[active].dead < MaxPanes
        /\ exited = {} /\ exited' = exited /\ active' = active /\ size' = size
    BY <1>8 DEF SplitPane, Idle, Panes
  <2>2. /\ r \in Tray /\ r.live + r.dead \in 1..MaxPanes
        /\ r.size = trays[active].size /\ r.overlay = trays[active].overlay
    BY <1>act, <2>1, ConstantsAssumption DEF Tray
  <2> HIDE DEF r
  <2> QED  BY <1>inv, <2>1, <2>2, UpdateStep DEF Sized, Listing, Open
<1>9. CASE ClosePane
  <2>1. CASE DestroyTray(active)
    BY <1>2, <2>1, <1>inv DEF GoodTrays
  <2> DEFINE left(r) ==
        /\ trays' = [trays EXCEPT ![active] = r]
        /\ Panes(active) > 1 /\ exited = {} /\ exited' = exited
        /\ active' = active /\ size' = size
  <2>2. ASSUME trays[active].live > 0,
               left([trays[active] EXCEPT !.live = @ - 1])
        PROVE  IInv'
    <3> DEFINE r == [trays[active] EXCEPT !.live = @ - 1]
    <3>1. /\ r \in Tray /\ r.live + r.dead \in 1..MaxPanes
          /\ r.size = trays[active].size /\ r.overlay = trays[active].overlay
      BY <1>act, <2>2, ConstantsAssumption DEF Tray, Panes
    <3>2. trays' = [trays EXCEPT ![active] = r]
      BY <2>2
    <3> HIDE DEF r
    <3> QED  BY <1>inv, <2>2, <3>1, <3>2, UpdateStep DEF Sized, Listing, Open
  <2>3. ASSUME trays[active].dead > 0,
               left([trays[active] EXCEPT !.dead = @ - 1])
        PROVE  IInv'
    <3> DEFINE r == [trays[active] EXCEPT !.dead = @ - 1]
    <3>1. /\ r \in Tray /\ r.live + r.dead \in 1..MaxPanes
          /\ r.size = trays[active].size /\ r.overlay = trays[active].overlay
      BY <1>act, <2>3, ConstantsAssumption DEF Tray, Panes
    <3>2. trays' = [trays EXCEPT ![active] = r]
      BY <2>3
    <3> HIDE DEF r
    <3> QED  BY <1>inv, <2>3, <3>1, <3>2, UpdateStep DEF Sized, Listing, Open
  <2> QED  BY <1>9, <2>1, <2>2, <2>3 DEF ClosePane, Idle
<1>10. CASE ReapExitedPanes
  <2>1. /\ trays' = [t \in DOMAIN trays |-> Reaped(trays[t])]
        /\ exited' = {t \in DOMAIN trays : trays[t].live = 0}
        /\ active' = active /\ size' = size
    BY <1>10 DEF ReapExitedPanes, Open, Gone
  <2>2. \A t \in DOMAIN trays :
          /\ trays'[t] \in Tray
          /\ trays'[t].live + trays'[t].dead \in 1..MaxPanes
          /\ trays'[t].live = trays[t].live
          /\ trays'[t].size = trays[t].size
          /\ trays'[t].overlay = trays[t].overlay
    <3> TAKE t \in DOMAIN trays
    <3>1. trays[t] \in Tray /\ trays[t].live + trays[t].dead \in 1..MaxPanes
      BY <1>inv DEF GoodTrays
    <3>2. trays'[t] = Reaped(trays[t])
      BY <2>1
    <3>3. CASE trays[t].live = 0
      BY <3>1, <3>2, <3>3 DEF Reaped
    <3>4. CASE trays[t].live # 0
      BY <3>1, <3>2, <3>4, ConstantsAssumption DEF Reaped, Tray
    <3> QED  BY <3>3, <3>4
  <2>3. DOMAIN trays' = DOMAIN trays
    BY <2>1
  <2>4. GoodTrays(trays')
    BY <1>inv, <2>2, <2>3 DEF GoodTrays
  <2>5. Sized(trays', active, size) /\ Listing(trays', active)
    BY <1>inv, <2>2, <2>3 DEF Sized, Listing
  <2> QED  BY <1>inv, <2>1, <2>2, <2>3, <2>4, <2>5 DEF IInv
<1>11. CASE UNCHANGED vars
  BY <1>11 DEF vars, IInv
<1> QED
  BY <1>1, <1>2, <1>3, <1>4, <1>5, <1>6, <1>7, <1>8, <1>9, <1>10, <1>11 DEF Next

------------------------------------------------------------------------------
\* The inductive invariant holds in every reachable state.
THEOREM Invariance == Spec => []IInv
BY InitIInv, NextIInv, PTL DEF Spec

\* Every variable of the manager keeps its type (TrayManager's data members
\* and the trays it owns).
THEOREM TypeCorrectness == Spec => []TypeOK
BY Invariance, IInvMeans, PTL

\* The active tray is always open: active_tray() and mutable_active_tray()
\* never throw.
THEOREM ActiveTrayIsOpen == Spec => []ActiveTrayOpen
BY Invariance, IInvMeans, PTL

\* The active tray and its overlay always have the current terminal size.
THEOREM ActiveTrayIsSized == Spec => []ActiveTraySized
BY Invariance, IInvMeans, PTL

\* The overlay of the active tray always offers the open anonymous trays.
THEOREM ActiveOverlayIsCurrent == Spec => []ActiveOverlayListsOpenTrays
BY Invariance, IInvMeans, PTL

\* No tray that waits for its destruction was replaced by a running one.
THEOREM ExitedTraysStayGone == Spec => []ExitedTraysAreGone
BY Invariance, IInvMeans, PTL

\* destroy_exited_trays never ends a running shell.
THEOREM ReapingSparesRunningShells == Spec => ReapSparesRunningShells
<1> DEFINE P == exited # {} =>
                  \A t \in Open : trays[t].live > 0 =>
                    t \in Open' /\ Panes(t)' = Panes(t)
<1>1. IInv /\ [Next]_vars => [P]_vars
  <2> SUFFICES ASSUME IInv, Next, exited # {},
                      NEW t \in Open, trays[t].live > 0
               PROVE  t \in Open' /\ Panes(t)' = Panes(t)
    BY DEF P
  <2>1. PICK u \in TrayIds : DestroyNextExited(u) \/ ShellExits(u)
    BY DEF Next, SwitchTo, DestroyTray, ClearOverlay, ResizeActive, OpenOverlay,
           SplitPane, ClosePane, ReapExitedPanes, Idle
  <2>2. CASE DestroyNextExited(u)
    <3>1. u \in Open /\ trays[u].live = 0 /\ trays' = Destroyed(trays, active, u)
      BY <2>2 DEF IInv, DestroyNextExited, NextExited, Open
    <3>2. /\ DOMAIN trays' = (Open \ {u}) \cup {ActiveAfter(active, u)}
          /\ GoodTrays(trays')
          /\ \A v \in Open \ {u} :
               trays'[v].live = trays[v].live /\ trays'[v].dead = trays[v].dead
      BY <3>1, DestroyEffect
    <3> QED  BY <3>1, <3>2 DEF Open, Panes
  <2>3. CASE ShellExits(u)
    <3> DEFINE r == [trays[u] EXCEPT !.live = @ - 1, !.dead = @ + 1]
    <3>1. trays' = [trays EXCEPT ![u] = r] /\ u \in DOMAIN trays /\ trays[u] \in Tray
      BY <2>3 DEF ShellExits, IInv, GoodTrays, Open
    <3>2. r.live + r.dead = trays[u].live + trays[u].dead
      BY <3>1, ConstantsAssumption DEF Tray
    <3> HIDE DEF r
    <3> QED  BY <3>1, <3>2 DEF Open, Panes
  <2> QED  BY <2>1, <2>2, <2>3
<1> QED  BY <1>1, Invariance, PTL DEF Spec, ReapSparesRunningShells

\* The manager implements TraySwitching: whatever happens to panes, sizes and
\* overlays, trays come and go and the user is moved as that module says.
THEOREM Refinement == Spec => Refines
<1>1. Init => Switching!Init
  BY DEF Init, Switching!Init, Open
<1>2. IInv /\ [Next]_vars => [Switching!Next]_<<Open, active>>
  <2> SUFFICES ASSUME IInv, [Next]_vars
               PROVE  Switching!Next \/ UNCHANGED <<Open, active>>
    OBVIOUS
  <2>inv. /\ GoodTrays(trays) /\ active \in DOMAIN trays /\ size \in Sizes
          /\ Sized(trays, active, size) /\ exited \subseteq DOMAIN trays
    BY DEF IInv
  <2>0. ASSUME NEW t \in Open, trays' = Destroyed(trays, active, t),
               active' = ActiveAfter(active, t)
        PROVE  Switching!Next
    <3>1. Open' = (Open \ {t}) \cup {active'}
      BY <2>0, DestroyEffect DEF Open
    <3>2. CASE t = active
      BY <2>0, <3>1, <3>2 DEF ActiveAfter, Switching!Next, Switching!CloseActive
    <3>3. CASE t # active
      <4>1. active' = active /\ Open' = Open \ {t} /\ t \in TrayIds
        BY <2>inv, <2>0, <3>1, <3>3 DEF ActiveAfter, Open, GoodTrays
      <4> QED  BY <3>3, <4>1 DEF Switching!Next, Switching!CloseInactive
    <3> QED  BY <3>2, <3>3
  <2>1. ASSUME NEW t \in TrayIds, SwitchTo(t) PROVE Switching!Next
    <3>1. DOMAIN Activated(trays, t) = DOMAIN trays \cup {t} /\ GoodTrays(Activated(trays, t))
      BY <2>inv, ActivatedType
    <3>2. DOMAIN trays' = DOMAIN trays \cup {t}
      BY <2>1, <3>1, RefreshedType DEF SwitchTo
    <3> QED  BY <2>1, <3>2 DEF SwitchTo, Open, Switching!Next, Switching!Switch
  <2>2. ASSUME NEW t \in TrayIds, DestroyTray(t) PROVE Switching!Next
    BY <2>0, <2>2 DEF DestroyTray
  <2>3. ASSUME NEW t \in TrayIds, DestroyNextExited(t) PROVE Switching!Next
    BY <2>0, <2>3, <2>inv DEF DestroyNextExited, NextExited, Open
  <2>4. ASSUME NEW t \in TrayIds, ClearOverlay(t) \/ ShellExits(t)
        PROVE  UNCHANGED <<Open, active>>
    BY <2>4 DEF ClearOverlay, ShellExits, Open
  <2>5. ASSUME NEW s \in Sizes, ResizeActive(s) PROVE UNCHANGED <<Open, active>>
    BY <2>5 DEF ResizeActive, Open
  <2>6. ASSUME OpenOverlay \/ SplitPane PROVE UNCHANGED <<Open, active>>
    BY <2>6 DEF OpenOverlay, SplitPane, Open
  <2>7. CASE ClosePane
    <3>1. CASE DestroyTray(active)
      BY <2>0, <2>inv, <3>1 DEF DestroyTray
    <3>2. CASE ~ DestroyTray(active)
      BY <2>7, <3>2 DEF ClosePane, Open
    <3> QED  BY <3>1, <3>2
  <2>8. CASE ReapExitedPanes
    BY <2>8 DEF ReapExitedPanes, Open
  <2>9. CASE UNCHANGED vars
    BY <2>9 DEF vars, Open
  <2> QED  BY <2>1, <2>2, <2>3, <2>4, <2>5, <2>6, <2>7, <2>8, <2>9 DEF Next
<1> QED  BY <1>1, <1>2, Invariance, PTL DEF Spec, Refines, Switching!Spec
=============================================================================
