-------------------------- MODULE MCBrowserBridge --------------------------
(***************************************************************************)
(* A small instance of BrowserBridge: two connections and a parent that    *)
(* writes more than the backlogs keep.                                     *)
(***************************************************************************)
EXTENDS BrowserBridge

TwoOrOne == [p \in Channels \cup Inputs |-> IF p = "terminal" THEN 2 ELSE 1]
KeepOne == [k \in Channels |-> 1]

=============================================================================
