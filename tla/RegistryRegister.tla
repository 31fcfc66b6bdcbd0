-------------------------- MODULE RegistryRegister --------------------------
(***************************************************************************)
(* What WorktreeRegistryStore promises: the registry is one value that is  *)
(* replaced as a whole, and a crash of the machine loses at most the last  *)
(* replacements nobody was told about.  Versions stand for the values.     *)
(***************************************************************************)
EXTENDS Naturals

VARIABLES head,   \* the version a load() returns; 0 is "no registry yet"
          acked   \* the latest version whose save() returned

Init == head = 0 /\ acked = 0

Replace == head' = head + 1 /\ UNCHANGED acked

Acknowledge == acked' \in acked..head /\ UNCHANGED head

Crash == head' \in acked..head /\ UNCHANGED acked

Next == Replace \/ Acknowledge \/ Crash

Spec == Init /\ [][Next]_<<head, acked>>
=============================================================================
