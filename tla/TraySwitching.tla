--------------------------- MODULE TraySwitching ---------------------------
(***************************************************************************)
(* What the tray manager promises to the rest of the parent, with panes,   *)
(* sizes and overlays left out: which trays are open, which one of them    *)
(* is active, and where the user lands when a tray goes away.              *)
(***************************************************************************)
EXTENDS Naturals

CONSTANTS Trays,   \* every identity a tray can have
          Home     \* the tray the manager falls back to: anonymous tray 1

VARIABLES open,    \* the identities that have a tray
          active   \* the identity the user is looking at

Init == open = {Home} /\ active = Home

\* The user asks for a tray; it is started if it is not open yet.
Switch(t) == open' = open \cup {t} /\ active' = t

\* A tray the user is not looking at goes away: the active one stays.
CloseInactive(t) ==
  /\ t \in open \ {active}
  /\ open' = open \ {t}
  /\ UNCHANGED active

\* The active tray goes away: the user lands on Home, started if need be.
CloseActive ==
  /\ open' = (open \ {active}) \cup {Home}
  /\ active' = Home

Next == (\E t \in Trays : Switch(t) \/ CloseInactive(t)) \/ CloseActive

Spec == Init /\ [][Next]_<<open, active>>
=============================================================================
