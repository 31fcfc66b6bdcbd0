------------------------ MODULE RegistryStore_proofs ------------------------
(***************************************************************************)
(* Proofs about RegistryStore, for any set of writers and any number of    *)
(* renames: the registry is never torn, acknowledged saves survive, and    *)
(* the store implements RegistryRegister.                                  *)
(***************************************************************************)
EXTENDS RegistryStore, TLAPS

\* The inductive invariant: every version ever renamed into place was fsynced
\* first, and what was acknowledged was in the directory on disk by then.
IInv ==
  /\ TypeOK
  /\ torn = FALSE
  /\ 1..head \subseteq intact
  /\ acked <= durable /\ durable <= head
  /\ \A w \in Writers : pc[w] = "rename" => w \in flushed
  /\ \A w \in Writers : pc[w] = "dirsync" => mine[w] <= head
  /\ TemporaryFilesHaveAnOwner

\* There is no registry yet.
LEMMA InitIInv == Init => IInv
<1> SUFFICES ASSUME Init PROVE IInv
  OBVIOUS
<1>1. TypeOK
  <2>1. 0 \in 0..MaxVersion
    BY MaxVersionAssumption
  <2>2. pc \in [Writers -> Steps]
    BY DEF Init, Steps
  <2>3. mine \in [Writers -> 0..MaxVersion]
    BY <2>1 DEF Init
  <2> QED  BY <2>1, <2>2, <2>3 DEF Init, TypeOK
<1>2. 1..head \subseteq intact
  BY DEF Init
<1> QED  BY <1>1, <1>2 DEF Init, IInv, TemporaryFilesHaveAnOwner

\* Every step preserves the inductive invariant.
LEMMA NextIInv == IInv /\ [Next]_vars => IInv'
<1> SUFFICES ASSUME IInv, [Next]_vars PROVE IInv'
  OBVIOUS
<1> USE MaxVersionAssumption
<1> USE DEF IInv, TypeOK, Steps, TemporaryFilesHaveAnOwner, Goto, disk
<1>1. ASSUME NEW w \in Writers, Begin(w) PROVE IInv'
  BY <1>1 DEF Begin
<1>2. ASSUME NEW w \in Writers, Check(w) PROVE IInv'
  BY <1>2 DEF Check
<1>3. ASSUME NEW w \in Writers, CreateTemporary(w) PROVE IInv'
  BY <1>3 DEF CreateTemporary
<1>4. ASSUME NEW w \in Writers, Write(w) PROVE IInv'
  BY <1>4 DEF Write
<1>5. ASSUME NEW w \in Writers, SyncFile(w) PROVE IInv'
  BY <1>5 DEF SyncFile
<1>6. ASSUME NEW w \in Writers, Rename(w) PROVE IInv'
  <2>1. /\ head' = head + 1 /\ head' \in 0..MaxVersion
        /\ intact' = intact \cup {head + 1}
    BY <1>6 DEF Rename
  <2>2. 1..head' \subseteq intact' /\ intact' \subseteq 1..MaxVersion
    BY <2>1
  <2>3. mine' \in [Writers -> 0..MaxVersion] /\ mine'[w] = head'
        /\ \A v \in Writers \ {w} : mine'[v] = mine[v]
    BY <1>6, <2>1 DEF Rename
  <2>4. pc' \in [Writers -> Steps] /\ pc'[w] = "dirsync"
        /\ \A v \in Writers \ {w} : pc'[v] = pc[v]
    BY <1>6 DEF Rename
  <2>5. \A v \in Writers : pc'[v] = "dirsync" => mine'[v] <= head'
    BY <2>1, <2>3, <2>4
  <2>6. \A v \in Writers : pc'[v] = "rename" => v \in flushed'
    BY <1>6, <2>4 DEF Rename
  <2>7. TemporaryFilesHaveAnOwner'
    BY <1>6, <2>4 DEF Rename
  <2>8. TypeOK'
    <3> HIDE DEF Steps
    <3> QED  BY <1>6, <2>1, <2>2, <2>3, <2>4 DEF Rename
  <2>9. acked' <= durable' /\ durable' <= head' /\ torn' = FALSE
    BY <1>6, <2>1 DEF Rename
  <2> QED  BY <2>2, <2>5, <2>6, <2>7, <2>8, <2>9
<1>7. ASSUME NEW w \in Writers, SyncDirectory(w) PROVE IInv'
  BY <1>7 DEF SyncDirectory, Later
<1>8. ASSUME NEW w \in Writers, Fail(w) PROVE IInv'
  BY <1>8 DEF Fail
<1>9. ASSUME NEW w \in Writers, Kill(w) PROVE IInv'
  BY <1>9 DEF Kill
<1>10. ASSUME NEW w \in Writers, Restart(w) PROVE IInv'
  BY <1>10 DEF Restart
<1>11. CASE HostCrash
  <2>1. PICK k \in durable..head :
          /\ head' = k /\ durable' = k /\ intact' = intact \cap 1..k
          /\ torn' \in {b \in BOOLEAN : b => k \notin intact \cup {0}}
          /\ pc' = [w \in Writers |-> "idle"]
          /\ temp' = {} /\ flushed' = {}
          /\ mine' = [w \in Writers |-> 0] /\ acked' = acked
    BY <1>11 DEF HostCrash
  <2>2. k \in 0..MaxVersion /\ k \in intact \cup {0}
    OBVIOUS
  <2> QED  BY <2>1, <2>2
<1>12. CASE UNCHANGED vars
  BY <1>12 DEF vars
<1> QED
  BY <1>1, <1>2, <1>3, <1>4, <1>5, <1>6, <1>7, <1>8, <1>9, <1>10, <1>11, <1>12
  DEF Next

\* The inductive invariant holds in every reachable state.
THEOREM Invariance == Spec => []IInv
BY InitIInv, NextIInv, PTL DEF Spec

\* Every variable keeps its type.
THEOREM TypeCorrectness == Spec => []TypeOK
<1>1. IInv => TypeOK
  BY DEF IInv
<1> QED  BY <1>1, Invariance, PTL

\* No interleaving of saves, failures, kills and crashes leaves a registry
\* that load() refuses.
THEOREM RegistryAlwaysLoads == Spec => []RegistryIsNeverTorn
<1>1. IInv => RegistryIsNeverTorn
  BY DEF IInv, RegistryIsNeverTorn
<1> QED  BY <1>1, Invariance, PTL

\* A version whose save() returned is never lost to a crash of the machine.
THEOREM SavesSurvive == Spec => []AcknowledgedSavesSurvive
<1>1. IInv => AcknowledgedSavesSurvive
  BY MaxVersionAssumption DEF IInv, TypeOK, AcknowledgedSavesSurvive
<1> QED  BY <1>1, Invariance, PTL

\* A save() that failed cleans up after itself.
THEOREM NoLitter == Spec => []TemporaryFilesHaveAnOwner
<1>1. IInv => TemporaryFilesHaveAnOwner
  BY DEF IInv
<1> QED  BY <1>1, Invariance, PTL

\* The store implements the register of RegistryRegister.
THEOREM Refinement == Spec => Refines
<1>1. Init => Register!Init
  BY DEF Init, Register!Init
<1>2. IInv /\ [Next]_vars => [Register!Next]_<<head, acked>>
  <2> SUFFICES ASSUME IInv, [Next]_vars
               PROVE  Register!Next \/ UNCHANGED <<head, acked>>
    OBVIOUS
  <2> USE MaxVersionAssumption DEF IInv, TypeOK, disk
  <2>1. ASSUME NEW w \in Writers, Rename(w) PROVE Register!Replace
    BY <2>1 DEF Rename, Register!Replace
  <2>2. ASSUME NEW w \in Writers, SyncDirectory(w) PROVE Register!Acknowledge
    BY <2>2 DEF SyncDirectory, Goto, Later, Register!Acknowledge
  <2>3. CASE HostCrash
    <3>1. Register!Crash
      BY <2>3 DEF HostCrash, Register!Crash
    <3> QED  BY <3>1 DEF Register!Next
  <2>4. ASSUME NEW w \in Writers,
               \/ Begin(w) \/ Check(w) \/ CreateTemporary(w) \/ Write(w)
               \/ SyncFile(w) \/ Fail(w) \/ Kill(w) \/ Restart(w)
        PROVE  UNCHANGED <<head, acked>>
    BY <2>4 DEF Begin, Check, CreateTemporary, Write, SyncFile, Fail, Kill, Restart
  <2>5. CASE UNCHANGED vars
    BY <2>5 DEF vars
  <2> QED  BY <2>1, <2>2, <2>3, <2>4, <2>5 DEF Next, Register!Next
<1> QED  BY <1>1, <1>2, Invariance, PTL DEF Spec, Refines, Register!Spec
=============================================================================
