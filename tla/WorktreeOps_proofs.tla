------------------------- MODULE WorktreeOps_proofs -------------------------
(***************************************************************************)
(* Proofs about WorktreeOps, for any repositories, paths and branches.     *)
(* For any number of operations side by side every variable has its type.  *)
(* Where only one operation is ever under way: registered roots stay       *)
(* whole, no registry entry is dropped, and the registry, git and the disk *)
(* agree about what a provisioning added and a removal took.               *)
(*                                                                         *)
(* Every step is a move of one operation (the ...Moves lemmas) and a       *)
(* change of the data it works on.                                         *)
(***************************************************************************)
EXTENDS WorktreeOps, TLAPS

\* The types of what the operations work on, and of the operations.
DataOK ==
  /\ registry \in Registries
  /\ root \in [Repos -> Roots]
  /\ configured \subseteq Repos
  /\ fetched \subseteq Branches /\ local \subseteq Branches
  /\ listed \subseteq Paths /\ dirs \subseteq Paths
  /\ head \in [Paths -> Branches \cup {NoBranch}]
ProcOK == proc \in [Procs -> Process]

\* Only process i moved.
Others(i) == \A j \in Procs \ {i} : proc'[j] = proc[j]

\* A process that moves leaves the others where they are.
LEMMA Moves ==
  ASSUME ProcOK, NEW i \in Procs, NEW pr \in Process,
         proc' = [proc EXCEPT ![i] = pr]
  PROVE  ProcOK' /\ proc'[i] = pr /\ Others(i)
  BY DEF ProcOK, Others

\* The process goes on to its next command ...
LEMMA GotoMoves ==
  ASSUME ProcOK, NEW i \in Procs, NEW at \in Steps, Goto(i, at)
  PROVE  /\ ProcOK' /\ Others(i)
         /\ proc'[i] = [proc[i] EXCEPT !.at = at]
<1> DEFINE pr == [proc[i] EXCEPT !.at = at]
<1>1. proc[i] \in Process
  BY DEF ProcOK
<1>2. pr \in Process
  BY <1>1 DEF Process
<1>3. proc' = [proc EXCEPT ![i] = pr]
  BY DEF Goto
<1> HIDE DEF pr
<1>4. ProcOK' /\ proc'[i] = pr /\ Others(i)
  BY <1>2, <1>3, Moves
<1> QED  BY <1>4 DEF pr

\* ... with another copy of the registry ...
LEMMA GotoWithMoves ==
  ASSUME ProcOK, NEW i \in Procs, NEW at \in Steps, NEW reg \in Registries,
         GotoWith(i, at, reg)
  PROVE  /\ ProcOK' /\ Others(i)
         /\ proc'[i] = [proc[i] EXCEPT !.at = at, !.reg = reg]
<1> DEFINE pr == [proc[i] EXCEPT !.at = at, !.reg = reg]
<1>1. proc[i] \in Process
  BY DEF ProcOK
<1>2. pr \in Process
  BY <1>1 DEF Process
<1>3. proc' = [proc EXCEPT ![i] = pr]
  BY DEF GotoWith
<1> HIDE DEF pr
<1>4. ProcOK' /\ proc'[i] = pr /\ Others(i)
  BY <1>2, <1>3, Moves
<1> QED  BY <1>4 DEF pr

\* ... with what a query found ...
LEMMA GotoHavingMoves ==
  ASSUME ProcOK, NEW i \in Procs, NEW at \in Steps, NEW it \in Found,
         GotoHaving(i, at, it)
  PROVE  /\ ProcOK' /\ Others(i)
         /\ proc'[i] = [proc[i] EXCEPT !.at = at, !.with = it]
<1> DEFINE pr == [proc[i] EXCEPT !.at = at, !.with = it]
<1>1. proc[i] \in Process
  BY DEF ProcOK
<1>2. pr \in Process
  BY <1>1 DEF Process
<1>3. proc' = [proc EXCEPT ![i] = pr]
  BY DEF GotoHaving
<1> HIDE DEF pr
<1>4. ProcOK' /\ proc'[i] = pr /\ Others(i)
  BY <1>2, <1>3, Moves
<1> QED  BY <1>4 DEF pr

\* ... or to its end.
LEMMA EndMoves ==
  ASSUME ProcOK, NEW i \in Procs, End(i)
  PROVE  ProcOK' /\ Others(i) /\ proc'[i] = Idle
<1>1. Idle \in Process
  BY DEF Idle, Process, NoRegistry, Registries, Steps, Found
<1> QED  BY <1>1, Moves DEF End

\* A removal gives the entry up in its copy and goes on to save it.
LEMMA UnregisterMoves ==
  ASSUME ProcOK, NEW i \in Procs, Unregister(i)
  PROVE  /\ ProcOK' /\ Others(i)
         /\ proc'[i] = [proc[i] EXCEPT !.at = "save",
                                       !.reg.tracked = @ \ {proc[i].what}]
<1> DEFINE pr == [proc[i] EXCEPT !.at = "save", !.reg.tracked = @ \ {proc[i].what}]
<1>1. proc[i] \in Process
  BY DEF ProcOK
<1>2. pr \in Process
  BY <1>1 DEF Process, Registries, Steps
<1>3. proc' = [proc EXCEPT ![i] = pr]
  BY DEF Unregister
<1> HIDE DEF pr
<1>4. ProcOK' /\ proc'[i] = pr /\ Others(i)
  BY <1>2, <1>3, Moves
<1> QED  BY <1>4 DEF pr

\* An operation begins.
LEMMA StartMoves ==
  ASSUME ProcOK, NEW i \in Procs, NEW do, NEW what, Start(i, do, what),
         \/ do = "register"  /\ what \in Repos
         \/ do = "provision" /\ what \in Branches
         \/ do = "remove"    /\ what \in Paths
  PROVE  /\ ProcOK' /\ Others(i)
         /\ proc'[i] = [Idle EXCEPT !.do = do, !.what = what, !.at = "load"]
<1> DEFINE pr == [Idle EXCEPT !.do = do, !.what = what, !.at = "load"]
<1>1. pr \in Process
  BY DEF Idle, Process, NoRegistry, Registries, Steps, Found
<1>2. proc' = [proc EXCEPT ![i] = pr]
  BY DEF Start
<1> HIDE DEF pr
<1>3. ProcOK' /\ proc'[i] = pr /\ Others(i)
  BY <1>1, <1>2, Moves
<1> QED  BY <1>3 DEF pr
------------------------------------------------------------------------------
(* The inductive invariant                                                 *)

\* Only one operation is ever under way.
Alone == \A i, j \in Procs : i = j

Whole == \A r \in registry.repos : root[r].bare /\ root[r].git = "good"

\* What process i loaded is the registry, but for what it is about to save.
UpToDate(i) ==
  proc[i].at \notin {"idle", "load"} =>
    /\ registry.repos \subseteq proc[i].reg.repos
    /\ \A p \in registry.tracked \ proc[i].reg.tracked :
         Running(i, "remove", "save") /\ proc[i].what = p
    /\ \A r \in proc[i].reg.repos \ registry.repos :
         Running(i, "register", "save") /\ proc[i].what = r

\* A root is cloned and pointed at before it is registered, not after.
Registering(i) ==
  proc[i].do = "register" =>
    /\ proc[i].at \in {"clone", "pointer", "write"} =>
         proc[i].what \notin registry.repos
    /\ proc[i].at \in {"config", "fetch", "list", "save"} =>
         root[proc[i].what].git = "good"
    /\ proc[i].at = "save" => root[proc[i].what].bare

Sound(i) == UpToDate(i) /\ Registering(i)

\* The parts under Alone fail for two operations: the clone that fails because
\* the other one's succeeded removes it, and the later save drops the earlier.
IInv ==
  /\ DataOK
  /\ ProcOK
  /\ Alone => Whole
  /\ Alone => \A i \in Procs : Sound(i)

\* A step of process i preserves the invariant if it does so for process i.
LEMMA Assembled ==
  ASSUME IInv, NEW i \in Procs, Others(i), ProcOK', DataOK',
         Alone => Whole' /\ Sound(i)'
  PROVE  IInv'
<1>1. Alone => \A j \in Procs : Sound(j)'
  BY DEF Alone
<1> QED  BY <1>1 DEF IInv, Alone

\* Nothing is registered yet, and nothing runs.
LEMMA InitIInv == Init => IInv
<1> SUFFICES ASSUME Init PROVE IInv
  OBVIOUS
<1>1. DataOK
  BY DEF Init, DataOK, Registries, NoRegistry, Roots
<1>2. Idle \in Process
  BY DEF Idle, Process, NoRegistry, Registries, Steps, Found
<1>3. ProcOK
  BY <1>2 DEF Init, ProcOK
<1> QED  BY <1>1, <1>3 DEF Init, IInv, Whole, Sound, UpToDate, Registering,
                           Idle, NoRegistry

\* An operation that throws, or is killed, leaves everything as it is.
LEMMA ThrowIInv ==
  ASSUME IInv, NEW i \in Procs, Throw(i) PROVE IInv'
<1>1. ProcOK' /\ Others(i) /\ proc'[i] = Idle
  BY EndMoves DEF Throw, IInv
<1>2. DataOK' /\ (Alone => Whole')
  BY DEF Throw, IInv, DataOK, repo, trees, Whole
<1>3. Sound(i)'
  BY <1>1 DEF Idle, NoRegistry, Sound, UpToDate, Registering
<1> QED  BY <1>1, <1>2, <1>3, Assembled

\* Clone preserves the inductive invariant.
LEMMA CloneIInv ==
  ASSUME IInv, NEW i \in Procs, Clone(i) PROVE IInv'
<1>1. proc[i] \in Process
  BY DEF IInv, ProcOK
<1>2. ProcOK' /\ Others(i) /\ proc'[i] = [proc[i] EXCEPT !.at = "pointer"]
  BY <1>1, GotoMoves DEF Clone, IInv, Steps
<1>3. DataOK'
  BY <1>1, ConstantsAssumption, ZenonT(60) DEF Clone, IInv, DataOK, Running, Process, Roots,
                                   repo, trees, BranchesOf
<1>4. ASSUME Alone PROVE Whole' /\ Sound(i)'
  BY <1>1, <1>2, <1>4 DEF Clone, IInv, DataOK, Roots, Whole, Sound, UpToDate,
                          Registering, Running, Process, HasBare, repo, trees
<1> QED  BY <1>2, <1>3, <1>4, Assembled

\* OpenPointer preserves the inductive invariant.
LEMMA OpenPointerIInv ==
  ASSUME IInv, NEW i \in Procs, OpenPointer(i) PROVE IInv'
<1>1. proc[i] \in Process
  BY DEF IInv, ProcOK
<1>2. ProcOK' /\ Others(i) /\ proc'[i] = [proc[i] EXCEPT !.at = "write"]
  BY <1>1, GotoMoves DEF OpenPointer, IInv, Steps
<1>3. DataOK'
  BY <1>1, ConstantsAssumption DEF OpenPointer, IInv, DataOK, Running, Process,
                                   Roots, repo, trees
<1>4. ASSUME Alone PROVE Whole' /\ Sound(i)'
  BY <1>1, <1>2, <1>4 DEF OpenPointer, IInv, DataOK, Roots, Whole, Sound, UpToDate,
                          Registering, Running, Process, HasBare, repo, trees
<1> QED  BY <1>2, <1>3, <1>4, Assembled

\* WritePointer preserves the inductive invariant.
LEMMA WritePointerIInv ==
  ASSUME IInv, NEW i \in Procs, WritePointer(i) PROVE IInv'
<1>1. proc[i] \in Process
  BY DEF IInv, ProcOK
<1>2. ProcOK' /\ Others(i) /\ proc'[i] = [proc[i] EXCEPT !.at = "config"]
  BY <1>1, GotoMoves DEF WritePointer, IInv, Steps
<1>3. DataOK'
  BY <1>1, ConstantsAssumption DEF WritePointer, IInv, DataOK, Running, Process,
                                   Roots, repo, trees
<1>4. ASSUME Alone PROVE Whole' /\ Sound(i)'
  BY <1>1, <1>2, <1>4 DEF WritePointer, IInv, DataOK, Roots, Whole, Sound, UpToDate,
                          Registering, Running, Process, HasBare, repo, trees
<1> QED  BY <1>2, <1>3, <1>4, Assembled

\* Configure preserves the inductive invariant.
LEMMA ConfigureIInv ==
  ASSUME IInv, NEW i \in Procs, Configure(i) PROVE IInv'
<1> SUFFICES ASSUME ~ Throw(i) PROVE IInv'
  BY ThrowIInv
<1>1. proc[i] \in Process
  BY DEF IInv, ProcOK
<1>2. ProcOK' /\ Others(i) /\ proc'[i] = [proc[i] EXCEPT !.at = "fetch"]
  BY <1>1, GotoMoves DEF Configure, IInv, Steps, Throw
<1>3. DataOK'
  BY <1>1, ConstantsAssumption DEF Configure, IInv, DataOK, Running, Process, Roots,
                                   repo, trees, Throw
<1>4. ASSUME Alone PROVE Whole' /\ Sound(i)'
  BY <1>1, <1>2, <1>4 DEF Configure, IInv, DataOK, Roots, Whole, Sound, UpToDate,
                          Registering, Running, Process, HasBare, repo, trees, Throw
<1> QED  BY <1>2, <1>3, <1>4, Assembled

\* FetchAll preserves the inductive invariant.
LEMMA FetchAllIInv ==
  ASSUME IInv, NEW i \in Procs, FetchAll(i) PROVE IInv'
<1> SUFFICES ASSUME ~ Throw(i) PROVE IInv'
  BY ThrowIInv
<1>1. proc[i] \in Process
  BY DEF IInv, ProcOK
<1>2. ProcOK' /\ Others(i) /\ proc'[i] = [proc[i] EXCEPT !.at = "list"]
  BY <1>1, GotoMoves DEF FetchAll, IInv, Steps, Throw
<1>3. DataOK'
  BY <1>1, ConstantsAssumption DEF FetchAll, IInv, DataOK, Running, Process, Roots,
                                   repo, trees, Throw, BranchesOf
<1>4. ASSUME Alone PROVE Whole' /\ Sound(i)'
  BY <1>1, <1>2, <1>4 DEF FetchAll, IInv, DataOK, Roots, Whole, Sound, UpToDate,
                          Registering, Running, Process, HasBare, repo, trees, Throw
<1> QED  BY <1>2, <1>3, <1>4, Assembled

\* AddWorktree preserves the inductive invariant.
LEMMA AddWorktreeIInv ==
  ASSUME IInv, NEW i \in Procs, AddWorktree(i) PROVE IInv'
<1>1. proc[i] \in Process
  BY DEF IInv, ProcOK
<1>2. ProcOK' /\ Others(i) /\ proc'[i] = [proc[i] EXCEPT !.at = "save"]
  BY <1>1, GotoMoves DEF AddWorktree, IInv, Steps
<1>3. DataOK'
  BY <1>1, ConstantsAssumption, ZenonT(60) DEF AddWorktree, IInv, DataOK, Running, Process,
                                   Roots, repo, trees
<1>4. ASSUME Alone PROVE Whole' /\ Sound(i)'
  BY <1>1, <1>2, <1>4 DEF AddWorktree, IInv, DataOK, Roots, Whole, Sound, UpToDate,
                          Registering, Running, Process, HasBare, repo, trees
<1> QED  BY <1>2, <1>3, <1>4, Assembled

\* AddFails preserves the inductive invariant.
LEMMA AddFailsIInv ==
  ASSUME IInv, NEW i \in Procs, AddFails(i) PROVE IInv'
<1>1. proc[i] \in Process /\ proc[i].do = "provision" /\ End(i)
  BY DEF AddFails, IInv, ProcOK, Running
<1>2. ProcOK' /\ Others(i) /\ proc'[i] = Idle
  BY <1>1, EndMoves DEF IInv
<1>3. DataOK'
  BY <1>1 DEF AddFails, IInv, DataOK, Process, trees
<1>4. Whole' <=> Whole
  BY DEF AddFails, Whole
<1>5. Sound(i)'
  BY <1>2 DEF Idle, Sound, UpToDate, Registering
<1> QED  BY <1>2, <1>3, <1>4, <1>5, Assembled DEF IInv

\* FetchBranch preserves the inductive invariant.
LEMMA FetchBranchIInv ==
  ASSUME IInv, NEW i \in Procs, FetchBranch(i) PROVE IInv'
<1>1. proc[i] \in Process
  BY DEF IInv, ProcOK
<1>2. ProcOK' /\ Others(i) /\ proc'[i] = [proc[i] EXCEPT !.at = "choose"]
  BY <1>1, GotoMoves DEF FetchBranch, IInv, Steps
<1>3. DataOK'
  BY <1>1, ConstantsAssumption DEF FetchBranch, IInv, DataOK, Running, Process,
                                   Roots, repo, trees
<1>4. ASSUME Alone PROVE Whole' /\ Sound(i)'
  BY <1>1, <1>2, <1>4 DEF FetchBranch, IInv, DataOK, Roots, Whole, Sound, UpToDate,
                          Registering, Running, Process, HasBare, repo, trees
<1> QED  BY <1>2, <1>3, <1>4, Assembled

\* PurgeWorktree preserves the inductive invariant.
LEMMA PurgeWorktreeIInv ==
  ASSUME IInv, NEW i \in Procs, PurgeWorktree(i) PROVE IInv'
<1>1. proc[i] \in Process
  BY DEF IInv, ProcOK
<1>2. ProcOK' /\ Others(i) /\ proc'[i] = [proc[i] EXCEPT !.at = "branch"]
  BY <1>1, GotoMoves DEF PurgeWorktree, IInv, Steps
<1>3. DataOK'
  BY <1>1, ConstantsAssumption DEF PurgeWorktree, IInv, DataOK, Running, Process,
                                   Roots, repo, trees
<1>4. ASSUME Alone PROVE Whole' /\ Sound(i)'
  BY <1>1, <1>2, <1>4 DEF PurgeWorktree, IInv, DataOK, Roots, Whole, Sound,
                          UpToDate, Registering, Running, Process, HasBare, repo,
                          trees
<1> QED  BY <1>2, <1>3, <1>4, Assembled

\* A removal that ends, or goes on before it saves, touches git's worktrees
\* only.
LEMMA RemovalIInv ==
  ASSUME IInv, NEW i \in Procs, proc[i].do = "remove",
         proc[i].at \in {"purge", "prune"},
         \/ End(i)
         \/ \E at \in {"prune", "branch"} : Goto(i, at),
         DataOK', UNCHANGED <<registry, root>>
  PROVE  IInv'
<1>1. proc[i] \in Process
  BY DEF IInv, ProcOK
<1>2. CASE End(i)
  <2>1. ProcOK' /\ Others(i) /\ proc'[i] = Idle
    BY <1>2, EndMoves DEF IInv
  <2>2. (Whole' <=> Whole) /\ Sound(i)'
    BY <2>1 DEF Idle, Whole, Sound, UpToDate, Registering
  <2> QED  BY <2>1, <2>2, Assembled DEF IInv
<1>3. CASE \E at \in {"prune", "branch"} : Goto(i, at)
  <2>1. PICK at \in {"prune", "branch"} : Goto(i, at)
    BY <1>3
  <2>2. ProcOK' /\ Others(i) /\ proc'[i] = [proc[i] EXCEPT !.at = at]
    BY <2>1, GotoMoves DEF IInv, Steps
  <2>3. ASSUME Alone PROVE Whole' /\ Sound(i)'
    BY <1>1, <2>2, <2>3 DEF IInv, Whole, Sound, UpToDate, Registering, Running, Process
  <2> QED  BY <2>2, <2>3, Assembled
<1> QED  BY <1>2, <1>3

\* PurgeFails preserves the inductive invariant.
LEMMA PurgeFailsIInv ==
  ASSUME IInv, NEW i \in Procs, PurgeFails(i) PROVE IInv'
<1>1. DataOK'
  BY DEF PurgeFails, IInv, DataOK, repo
<1>2. /\ Running(i, "remove", "purge") /\ UNCHANGED <<registry, root>>
      /\ End(i) \/ Goto(i, "prune")
  BY DEF PurgeFails, repo
<1> QED  BY <1>1, <1>2, RemovalIInv DEF Running

\* Prune preserves the inductive invariant.
LEMMA PruneIInv ==
  ASSUME IInv, NEW i \in Procs, Prune(i) PROVE IInv'
<1>1. DataOK'
  BY DEF Prune, IInv, DataOK, repo
<1>2. /\ Running(i, "remove", "prune") /\ UNCHANGED <<registry, root>>
      /\ End(i) \/ Goto(i, "branch")
  BY DEF Prune, repo
<1> QED  BY <1>1, <1>2, RemovalIInv DEF Running

\* CloneFails preserves the inductive invariant.
LEMMA CloneFailsIInv ==
  ASSUME IInv, NEW i \in Procs, CloneFails(i) PROVE IInv'
<1>1. proc[i] \in Process
  BY DEF IInv, ProcOK
<1>2. ProcOK' /\ Others(i) /\ proc'[i] = Idle
  BY <1>1, EndMoves DEF CloneFails, IInv, Steps
<1>3. DataOK'
  BY <1>1, ConstantsAssumption, ZenonT(60) DEF CloneFails, IInv, DataOK, Running, Process,
                                   Roots, repo, trees, BranchesOf, Below
<1>4. ASSUME Alone PROVE Whole' /\ Sound(i)'
  BY <1>1, <1>2, <1>4 DEF CloneFails, IInv, DataOK, Roots, Whole, Idle, Sound,
                          UpToDate, Registering, Running, Process, HasBare, repo,
                          trees
<1> QED  BY <1>2, <1>3, <1>4, Assembled

\* ListWorktrees preserves the inductive invariant.
LEMMA ListWorktreesIInv ==
  ASSUME IInv, NEW i \in Procs, ListWorktrees(i) PROVE IInv'
<1> DEFINE r == proc[i].what
           new == [repos   |-> proc[i].reg.repos \cup {r},
                   tracked |-> proc[i].reg.tracked \cup Available(r)]
<1> SUFFICES ASSUME ~ Throw(i) PROVE IInv'
  BY ThrowIInv
<1>1. /\ proc[i] \in Process /\ r \in Repos
      /\ Running(i, "register", "list") /\ HasBare(r)
      /\ GotoWith(i, "save", new)
      /\ UNCHANGED <<registry, repo, trees>>
  BY DEF ListWorktrees, IInv, ProcOK, Process, Running
<1>2. new \in Registries
  BY <1>1 DEF Process, Registries, Available, Below
<1>3. /\ ProcOK' /\ Others(i)
      /\ proc'[i] = [proc[i] EXCEPT !.at = "save", !.reg = new]
  <2> HIDE DEF new
  <2> QED  BY <1>1, <1>2, GotoWithMoves DEF IInv, Steps
<1>4. DataOK'
  BY <1>1 DEF IInv, DataOK, repo, trees
<1>5. ASSUME Alone PROVE Whole' /\ Sound(i)'
  BY <1>1, <1>3, <1>5 DEF IInv, Whole, Sound, UpToDate, Registering, Running,
                          Process,
                          HasBare, repo, trees
<1> QED  BY <1>3, <1>4, <1>5, Assembled

\* ProvisionLoad preserves the inductive invariant.
LEMMA ProvisionLoadIInv ==
  ASSUME IInv, NEW i \in Procs, ProvisionLoad(i) PROVE IInv'
<1> DEFINE b == proc[i].what
           new == [registry EXCEPT !.tracked = @ \cup {PathFor[b]}]
<1> SUFFICES ASSUME ~ Throw(i) PROVE IInv'
  BY ThrowIInv
<1>1. /\ proc[i] \in Process /\ b \in Branches
      /\ Running(i, "provision", "load") /\ RepoOfBranch(b) \in registry.repos
      /\ GotoWith(i, "inspect", new)
      /\ UNCHANGED <<registry, repo, trees>>
  BY DEF ProvisionLoad, IInv, ProcOK, Process, Running
<1>2. /\ new \in Registries /\ new.repos = registry.repos
      /\ new.tracked = registry.tracked \cup {PathFor[b]}
  BY <1>1, ConstantsAssumption DEF IInv, DataOK, Registries, RepoOfBranch
<1> HIDE DEF new
<1>3. /\ ProcOK' /\ Others(i)
      /\ proc'[i] = [proc[i] EXCEPT !.at = "inspect", !.reg = new]
  <2>1. ProcOK /\ "inspect" \in Steps
    BY DEF IInv, Steps
  <2> QED  BY <1>1, <1>2, <2>1, GotoWithMoves, ZenonT(60)
<1>4. DataOK'
  BY <1>1 DEF IInv, DataOK, repo, trees
<1>5. ASSUME Alone PROVE Whole' /\ Sound(i)'
  BY <1>1, <1>2, <1>3, <1>5 DEF IInv, Whole, Sound, UpToDate, Registering, Running,
                                Process, repo, trees
<1> QED  BY <1>3, <1>4, <1>5, Assembled

\* RemoveLoad preserves the inductive invariant.
LEMMA RemoveLoadIInv ==
  ASSUME IInv, NEW i \in Procs, RemoveLoad(i) PROVE IInv'
<1> SUFFICES ASSUME ~ Throw(i) PROVE IInv'
  BY ThrowIInv
<1>1. /\ proc[i] \in Process
      /\ Running(i, "remove", "load")
      /\ GotoWith(i, "query", registry)
      /\ UNCHANGED <<registry, repo, trees>>
  BY DEF RemoveLoad, IInv, ProcOK
<1>2. /\ ProcOK' /\ Others(i)
      /\ proc'[i] = [proc[i] EXCEPT !.at = "query", !.reg = registry]
  BY <1>1, GotoWithMoves, ZenonT(60) DEF IInv, DataOK, Steps
<1>3. DataOK'
  BY <1>1 DEF IInv, DataOK, repo, trees
<1>4. ASSUME Alone PROVE Whole' /\ Sound(i)'
  BY <1>1, <1>2, <1>4 DEF IInv, Whole, Sound, UpToDate, Registering, Running,
                          Process, repo, trees
<1> QED  BY <1>1, <1>2, <1>3, <1>4, Assembled

\* RegisterLoad preserves the inductive invariant.
LEMMA RegisterLoadIInv ==
  ASSUME IInv, NEW i \in Procs, RegisterLoad(i) PROVE IInv'
<1> DEFINE r == proc[i].what
<1> SUFFICES ASSUME ~ Throw(i) PROVE IInv'
  BY ThrowIInv
<1>1. /\ proc[i] \in Process /\ r \in Repos
      /\ Running(i, "register", "load")
      /\ UNCHANGED <<registry, repo, trees>>
  BY DEF RegisterLoad, IInv, ProcOK, Process, Running
<1>2. PICK at \in {"clone", "pointer", "list"} :
        /\ GotoWith(i, at, registry)
        /\ at \in {"clone", "pointer"} => ~ (root[r].bare /\ root[r].git = "good")
        /\ at = "list" => root[r].git = "good"
  BY DEF RegisterLoad, RootState
<1>3. /\ ProcOK' /\ Others(i)
      /\ proc'[i] = [proc[i] EXCEPT !.at = at, !.reg = registry]
  <2>1. ProcOK /\ at \in Steps /\ registry \in Registries
    BY DEF IInv, DataOK, Steps
  <2> QED  BY <1>2, <2>1, GotoWithMoves
<1>4. DataOK'
  BY <1>1 DEF IInv, DataOK, repo, trees
<1>5. ASSUME Alone PROVE Whole' /\ Sound(i)'
  BY <1>1, <1>2, <1>3, <1>5 DEF IInv, Whole, Sound, UpToDate, Registering, Running,
                                Process, repo, trees
<1> QED  BY <1>1, <1>3, <1>4, <1>5, Assembled

\* InspectPath preserves the inductive invariant.
LEMMA InspectPathIInv ==
  ASSUME IInv, NEW i \in Procs, InspectPath(i) PROVE IInv'
<1> SUFFICES ASSUME ~ Throw(i) PROVE IInv'
  BY ThrowIInv
<1>1. /\ proc[i] \in Process
      /\ Running(i, "provision", "inspect")
      /\ UNCHANGED <<registry, repo, trees>>
  BY DEF InspectPath, IInv, ProcOK
<1>2. PICK at \in {"save", "fetch"} : Goto(i, at)
  BY DEF InspectPath
<1>3. /\ ProcOK' /\ Others(i)
      /\ proc'[i] = [proc[i] EXCEPT !.at = at]
  BY <1>1, <1>2, GotoMoves, ZenonT(60) DEF IInv, Steps
<1>4. DataOK'
  BY <1>1 DEF IInv, DataOK, repo, trees
<1>5. ASSUME Alone PROVE Whole' /\ Sound(i)'
  BY <1>1, <1>2, <1>3, <1>5 DEF IInv, Whole, Sound, UpToDate, Registering, Running,
                                Process, repo, trees
<1> QED  BY <1>1, <1>3, <1>4, <1>5, Assembled

\* ChooseStart preserves the inductive invariant.
LEMMA ChooseStartIInv ==
  ASSUME IInv, NEW i \in Procs, ChooseStart(i) PROVE IInv'
<1> SUFFICES ASSUME ~ Throw(i) PROVE IInv'
  BY ThrowIInv
<1>1. /\ proc[i] \in Process
      /\ Running(i, "provision", "choose")
      /\ UNCHANGED <<registry, repo, trees>>
  BY DEF ChooseStart, IInv, ProcOK
<1>2. PICK how \in {"existing", "tracking", "new"} : GotoHaving(i, "add", how)
  BY DEF ChooseStart
<1>3. /\ ProcOK' /\ Others(i)
      /\ proc'[i] = [proc[i] EXCEPT !.at = "add", !.with = how]
  BY <1>1, <1>2, GotoHavingMoves, ZenonT(60) DEF IInv, Steps, Found
<1>4. DataOK'
  BY <1>1 DEF IInv, DataOK, repo, trees
<1>5. ASSUME Alone PROVE Whole' /\ Sound(i)'
  BY <1>1, <1>3, <1>5 DEF IInv, Whole, Sound, UpToDate, Registering, Running,
                          Process, repo, trees
<1> QED  BY <1>1, <1>3, <1>4, <1>5, Assembled

\* An entry is given up: the copy that is saved lacks it.
LEMMA UnregisterIInv ==
  ASSUME IInv, NEW i \in Procs, proc[i].do = "remove",
         proc[i].at \in {"query", "branch"}, Unregister(i),
         DataOK', UNCHANGED <<registry, root>>
  PROVE  IInv'
<1>1. proc[i] \in Process
  BY DEF IInv, ProcOK
<1>2. /\ ProcOK' /\ Others(i)
      /\ proc'[i] = [proc[i] EXCEPT !.at = "save", !.reg.tracked = @ \ {proc[i].what}]
  BY UnregisterMoves DEF IInv
<1>3. /\ proc'[i].reg.repos = proc[i].reg.repos
      /\ proc'[i].reg.tracked = proc[i].reg.tracked \ {proc[i].what}
      /\ proc'[i].do = "remove" /\ proc'[i].at = "save" /\ proc'[i].what = proc[i].what
  BY <1>1, <1>2 DEF Process, Registries
<1>4. ASSUME Alone PROVE Whole' /\ Sound(i)'
  BY <1>3, <1>4 DEF IInv, Whole, Sound, UpToDate, Registering, Running
<1> QED  BY <1>2, <1>4, Assembled

\* DeleteBranch preserves the inductive invariant.
LEMMA DeleteBranchIInv ==
  ASSUME IInv, NEW i \in Procs, DeleteBranch(i) PROVE IInv'
<1> SUFFICES ASSUME ~ Throw(i) PROVE IInv'
  BY ThrowIInv
<1>1. /\ Running(i, "remove", "branch") /\ Unregister(i)
      /\ UNCHANGED <<registry, root>>
  BY DEF DeleteBranch
<1>2. DataOK'
  BY DEF DeleteBranch, Throw, IInv, DataOK, trees
<1> QED  BY <1>1, <1>2, UnregisterIInv DEF Running

\* QueryGit preserves the inductive invariant.
LEMMA QueryGitIInv ==
  ASSUME IInv, NEW i \in Procs, QueryGit(i) PROVE IInv'
<1> SUFFICES ASSUME ~ Throw(i) PROVE IInv'
  BY ThrowIInv
<1>1. /\ proc[i] \in Process
      /\ Running(i, "remove", "query") /\ proc[i].what \in Paths
      /\ UNCHANGED <<registry, repo, trees>>
  BY DEF QueryGit, IInv, ProcOK, Process, Running
<1>2. DataOK'
  BY <1>1 DEF IInv, DataOK, repo, trees
<1>3. CASE Unregister(i)
  BY <1>1, <1>2, <1>3, UnregisterIInv DEF Running, repo
<1>4. CASE GotoHaving(i, "purge", head[proc[i].what])
  <2>1. PICK it \in Found : GotoHaving(i, "purge", it)
    BY <1>1, <1>4 DEF IInv, DataOK, Found
  <2>2. /\ ProcOK' /\ Others(i)
        /\ proc'[i] = [proc[i] EXCEPT !.at = "purge", !.with = it]
    <3>1. ProcOK /\ "purge" \in Steps
      BY DEF IInv, Steps
    <3> QED  BY <1>1, <2>1, <3>1, GotoHavingMoves DEF Process
  <2>3. ASSUME Alone PROVE Whole' /\ Sound(i)'
    BY <1>1, <2>2, <2>3 DEF IInv, Whole, Sound, UpToDate, Registering, Running,
                            Process, repo, trees
  <2> QED  BY <1>2, <2>2, <2>3, Assembled
<1> QED  BY <1>3, <1>4 DEF QueryGit

\* Save preserves the inductive invariant.
LEMMA SaveIInv ==
  ASSUME IInv, NEW i \in Procs, Save(i) PROVE IInv'
<1> SUFFICES ASSUME ~ Throw(i) PROVE IInv'
  BY ThrowIInv
<1>1. /\ proc[i] \in Process /\ proc[i].at = "save"
      /\ registry' = proc[i].reg /\ End(i) /\ UNCHANGED <<repo, trees>>
  BY DEF Save, IInv, ProcOK
<1>2. ProcOK' /\ Others(i) /\ proc'[i] = Idle
  BY <1>1, EndMoves DEF IInv
<1>3. DataOK'
  BY <1>1 DEF IInv, DataOK, repo, trees, Process
<1>4. ASSUME Alone PROVE Whole' /\ Sound(i)'
  BY <1>1, <1>2, <1>4 DEF IInv, Whole, Sound, UpToDate, Registering, Running, Idle,
                          repo, trees
<1> QED  BY <1>2, <1>3, <1>4, Assembled

\* Start preserves the inductive invariant.
LEMMA StartIInv ==
  ASSUME IInv, NEW i \in Procs, NEW do, NEW what, Start(i, do, what),
         \/ do = "register"  /\ what \in Repos
         \/ do = "provision" /\ what \in Branches
         \/ do = "remove"    /\ what \in Paths
  PROVE  IInv'
<1>1. /\ ProcOK' /\ Others(i)
      /\ proc'[i] = [Idle EXCEPT !.do = do, !.what = what, !.at = "load"]
  BY StartMoves, ZenonT(60) DEF IInv
<1>2. DataOK'
  BY DEF Start, IInv, DataOK, repo, trees
<1>3. ASSUME Alone PROVE Whole' /\ Sound(i)'
  BY <1>1, <1>3 DEF Start, IInv, Whole, Sound, UpToDate, Registering, Idle, repo,
                    trees
<1> QED  BY <1>1, <1>2, <1>3, Assembled

\* What the user does to a directory, and stuttering, leave the processes,
\* the registry and the roots alone.
LEMMA AsideIInv ==
  ASSUME IInv, DataOK', UNCHANGED <<registry, root, proc>> PROVE IInv'
  BY DEF IInv, ProcOK, Whole, Sound, UpToDate, Registering, Running

\* Every step preserves the inductive invariant.
LEMMA NextIInv == IInv /\ [Next]_vars => IInv'
<1> SUFFICES ASSUME IInv, [Next]_vars PROVE IInv'
  OBVIOUS
<1>1. ASSUME NEW i \in Procs, Command(i) PROVE IInv'
  BY <1>1, RegisterLoadIInv, CloneIInv, CloneFailsIInv, OpenPointerIInv, WritePointerIInv,
     ConfigureIInv, FetchAllIInv, ListWorktreesIInv, ProvisionLoadIInv, InspectPathIInv,
     FetchBranchIInv, ChooseStartIInv, AddWorktreeIInv, AddFailsIInv, RemoveLoadIInv,
     QueryGitIInv, PurgeWorktreeIInv, PurgeFailsIInv, PruneIInv, DeleteBranchIInv,
     SaveIInv DEF Command
<1>2. ASSUME NEW i \in Procs, NEW r \in Repos, Start(i, "register", r) PROVE IInv'
  BY <1>2, StartIInv
<1>3. ASSUME NEW i \in Procs, NEW b \in Branches, Start(i, "provision", b) PROVE IInv'
  BY <1>3, StartIInv
<1>4. ASSUME NEW i \in Procs, NEW p \in Paths \ {Startup}, Start(i, "remove", p) PROVE IInv'
  BY <1>4, StartIInv
<1>5. ASSUME NEW i \in Procs, Kill(i) PROVE IInv'
  BY <1>5, ThrowIInv DEF Kill
<1>6. ASSUME NEW p \in Paths, DirectoryVanishes(p) PROVE IInv'
  <2>1. DataOK' /\ UNCHANGED <<registry, root, proc>>
    BY <1>6 DEF DirectoryVanishes, IInv, DataOK, repo
  <2> QED  BY <2>1, AsideIInv
<1>7. CASE UNCHANGED vars
  <2>1. DataOK' /\ UNCHANGED <<registry, root, proc>>
    BY <1>7 DEF vars, IInv, DataOK
  <2> QED  BY <2>1, AsideIInv
<1> QED  BY <1>1, <1>2, <1>3, <1>4, <1>5, <1>6, <1>7 DEF Next

\* The inductive invariant holds in every state.
LEMMA Invariance == Spec => []IInv
<1>1. Init => IInv
  BY InitIInv
<1>2. IInv /\ [Next]_vars => IInv'
  BY NextIInv
<1> QED  BY <1>1, <1>2, PTL DEF Spec

------------------------------------------------------------------------------
(* The worktrees                                                           *)

\* Where one operation is ever under way: what git lists is the derived path of
\* its branch below a registered root.
TreesOK ==
  \A p \in listed : /\ head[p] \in Branches /\ PathFor[head[p]] = p
                    /\ RepoOf[p] \in registry.repos

\* A provisioning has the path in its copy of the registry from the start,
\* and git has the worktree there before the copy is saved.
Provisioning(i) ==
  proc[i].do = "provision" /\ proc[i].at \notin {"idle", "load"} =>
    /\ PathFor[proc[i].what] \in proc[i].reg.tracked
    /\ proc[i].at = "save" => /\ PathFor[proc[i].what] \in listed
                              /\ head[PathFor[proc[i].what]] = proc[i].what

\* A removal takes the worktree from git before the entry from its copy.  It
\* has a branch only if git listed the worktree; then it deletes that branch
\* only after the directory is gone.
Removing(i) ==
  proc[i].do = "remove" =>
    /\ proc[i].at \in {"load", "query"} => proc[i].with = NoBranch
    /\ proc[i].at = "prune" => proc[i].what \notin dirs
    /\ proc[i].at = "branch" => proc[i].what \notin listed \cup dirs
    /\ proc[i].at = "save" =>
         /\ proc[i].what \notin listed \cup proc[i].reg.tracked
         /\ proc[i].with # NoBranch => /\ proc[i].what \notin dirs
                                       /\ proc[i].with \notin local

Ordered(i) == Provisioning(i) /\ Removing(i)

\* It rests on IInv: a clone that fails drops only what lies below a root that
\* is not registered, where nothing is listed.
TreeInv == TreesOK /\ \A i \in Procs : Ordered(i)

\* The parts of IInv that a step of the only operation is judged by.
LEMMA OnlyOne ==
  ASSUME Alone, IInv, NEW i \in Procs
  PROVE  /\ DataOK /\ ProcOK /\ proc[i] \in Process
         /\ UpToDate(i) /\ Registering(i)
  BY DEF Alone, IInv, ProcOK, Sound

\* Nothing is listed yet, and nothing runs.
LEMMA InitTreeInv == Init => TreeInv
  BY DEF Init, TreeInv, TreesOK, Ordered, Provisioning, Removing, Idle

\* An operation that throws, or is killed, leaves the worktrees as they are.
LEMMA ThrowTreeInv ==
  ASSUME Alone, IInv, TreeInv, NEW i \in Procs, Throw(i) PROVE TreeInv'
<1>1. proc'[i] = Idle
  BY EndMoves DEF Throw, IInv
<1>2. TreesOK'
  BY DEF Throw, TreeInv, TreesOK, trees
<1>3. Ordered(i)'
  BY <1>1 DEF Ordered, Provisioning, Removing, Idle
<1> QED  BY <1>2, <1>3 DEF TreeInv, Alone

\* An operation that leaves git's worktrees, the disk and the registry alone
\* preserves the invariant if it goes on in the right order itself.
LEMMA QuietTreeInv ==
  ASSUME Alone, TreeInv, NEW i \in Procs,
         UNCHANGED <<registry, listed, head, dirs>>, Ordered(i)'
  PROVE  TreeInv'
  BY DEF Alone, TreeInv, TreesOK

\* A registration is no provisioning and no removal, and but for the clone
\* that fails it leaves the worktrees alone.
LEMMA RegisterTreeInv ==
  ASSUME Alone, IInv, TreeInv, NEW i \in Procs,
         \/ RegisterLoad(i) \/ Clone(i) \/ OpenPointer(i) \/ WritePointer(i)
         \/ Configure(i) \/ FetchAll(i) \/ ListWorktrees(i)
  PROVE  TreeInv'
<1> SUFFICES ASSUME ~ Throw(i) PROVE TreeInv'
  BY ThrowTreeInv
<1>1. proc \in [Procs -> Process] /\ proc[i].do = "register"
  BY DEF IInv, ProcOK, RegisterLoad, Clone, OpenPointer, WritePointer, Configure,
         FetchAll, ListWorktrees, Running
<1>2. UNCHANGED <<registry, listed, head, dirs>>
  BY DEF RegisterLoad, Clone, OpenPointer, WritePointer, Configure, FetchAll,
         ListWorktrees, repo, trees
<1>3. proc'[i].do = "register"
  <2>1. \/ \E at : Goto(i, at)
        \/ \E at, reg : GotoWith(i, at, reg)
    BY DEF RegisterLoad, Clone, OpenPointer, WritePointer, Configure, FetchAll,
           ListWorktrees
  <2>2. proc[i] \in Process
    BY <1>1
  <2>3. ASSUME NEW at, Goto(i, at) PROVE proc'[i].do = proc[i].do
    BY <1>1, <2>2, <2>3 DEF Goto, Process
  <2>4. ASSUME NEW at, NEW reg, GotoWith(i, at, reg) PROVE proc'[i].do = proc[i].do
    BY <1>1, <2>2, <2>4 DEF GotoWith, Process
  <2> QED  BY <1>1, <2>1, <2>3, <2>4
<1>4. Ordered(i)'
  BY <1>3 DEF Ordered, Provisioning, Removing
<1> QED  BY <1>2, <1>4, QuietTreeInv

\* The clone that fails removes the .bare of a root that is not registered:
\* no worktree is listed below it.
LEMMA CloneFailsTreeInv ==
  ASSUME Alone, IInv, TreeInv, NEW i \in Procs, CloneFails(i) PROVE TreeInv'
<1>1. proc'[i] = Idle
  BY EndMoves DEF CloneFails, IInv
<1>2. proc[i].what \notin registry.repos
  BY OnlyOne DEF CloneFails, Running, Registering
<1>3. listed \cap Below(proc[i].what) = {}
  BY <1>2 DEF TreeInv, TreesOK, Below
<1>4. UNCHANGED <<registry, listed, head, dirs>>
  BY <1>3 DEF CloneFails
<1>5. Ordered(i)'
  BY <1>1 DEF Ordered, Provisioning, Removing, Idle
<1> QED  BY <1>4, <1>5, QuietTreeInv

\* ProvisionLoad preserves the invariant: the copy tracks the derived path.
LEMMA ProvisionLoadTreeInv ==
  ASSUME Alone, IInv, TreeInv, NEW i \in Procs, ProvisionLoad(i) PROVE TreeInv'
<1> DEFINE b == proc[i].what
           new == [registry EXCEPT !.tracked = @ \cup {PathFor[b]}]
<1> SUFFICES ASSUME ~ Throw(i) PROVE TreeInv'
  BY ThrowTreeInv
<1>1. proc \in [Procs -> Process] /\ proc[i] \in Process /\ registry \in Registries
  BY OnlyOne DEF ProcOK, DataOK
<1>2. /\ proc[i].do = "provision" /\ GotoWith(i, "inspect", new)
      /\ UNCHANGED <<registry, listed, head, dirs>>
  BY DEF ProvisionLoad, Running, repo, trees
<1>3. PathFor[b] \in new.tracked
  BY <1>1 DEF Registries
<1> HIDE DEF new
<1>4. /\ proc'[i].do = "provision" /\ proc'[i].at = "inspect"
      /\ proc'[i].what = b /\ proc'[i].reg = new
  BY <1>1, <1>2 DEF GotoWith, Process
<1>5. Ordered(i)'
  BY <1>3, <1>4 DEF Ordered, Provisioning, Removing
<1> QED  BY <1>2, <1>5, QuietTreeInv

\* Up to git worktree add, a provisioning only goes on: it adopts a path that
\* is listed and whose head is the branch.
LEMMA ProvisionTreeInv ==
  ASSUME Alone, IInv, TreeInv, NEW i \in Procs,
         InspectPath(i) \/ FetchBranch(i) \/ ChooseStart(i)
  PROVE  TreeInv'
<1> DEFINE b == proc[i].what
<1> SUFFICES ASSUME ~ Throw(i) PROVE TreeInv'
  BY ThrowTreeInv
<1>1. proc \in [Procs -> Process] /\ proc[i] \in Process
  BY OnlyOne DEF ProcOK
<1>2. proc[i].do = "provision" /\ proc[i].at \in {"inspect", "fetch", "choose"}
  BY DEF InspectPath, FetchBranch, ChooseStart, Running
<1>3. UNCHANGED <<registry, listed, head, dirs>>
  BY DEF InspectPath, FetchBranch, ChooseStart, repo, trees
<1>4. PathFor[b] \in proc[i].reg.tracked
  BY <1>2 DEF TreeInv, Ordered, Provisioning
<1>5. \/ \E at : Goto(i, at) /\ (at = "save" => PathFor[b] \in listed /\ head[PathFor[b]] = b)
      \/ \E it : GotoHaving(i, "add", it)
  BY DEF InspectPath, FetchBranch, ChooseStart
<1>6. /\ proc'[i].do = "provision" /\ proc'[i].what = b /\ proc'[i].reg = proc[i].reg
      /\ proc'[i].at = "save" => PathFor[b] \in listed /\ head[PathFor[b]] = b
  <2>1. CASE \E it : GotoHaving(i, "add", it)
    BY <1>1, <1>2, <2>1 DEF GotoHaving, Process
  <2>2. CASE \E at : Goto(i, at) /\ (at = "save" => PathFor[b] \in listed /\ head[PathFor[b]] = b)
    BY <1>1, <1>2, <2>2 DEF Goto, Process
  <2> QED  BY <1>5, <2>1, <2>2
<1>7. Ordered(i)'
  BY <1>3, <1>4, <1>6 DEF Ordered, Provisioning, Removing
<1> QED  BY <1>3, <1>7, QuietTreeInv

\* git worktree add makes the derived path, its directory and its head at
\* once, below the registered root that ProvisionLoad found.
LEMMA AddWorktreeTreeInv ==
  ASSUME Alone, IInv, TreeInv, NEW i \in Procs, AddWorktree(i) PROVE TreeInv'
<1> DEFINE b == proc[i].what
           p == PathFor[b]
<1>1. proc \in [Procs -> Process] /\ proc[i] \in Process
  BY OnlyOne DEF ProcOK
<1>2. /\ proc[i].do = "provision" /\ proc[i].at = "add" /\ Goto(i, "save")
      /\ listed' = listed \cup {p}
      /\ head' = [head EXCEPT ![p] = b] /\ registry' = registry
  BY DEF AddWorktree, Running
<1>3. b \in Branches /\ p \in Paths /\ listed \subseteq Paths
      /\ head \in [Paths -> Branches \cup {NoBranch}]
  BY <1>1, <1>2, OnlyOne, ConstantsAssumption DEF Process, DataOK
<1>4. p \in proc[i].reg.tracked
  BY <1>2 DEF TreeInv, Ordered, Provisioning
<1>5. RepoOf[p] \in registry.repos
  <2>1. RepoOf[p] \in proc[i].reg.repos
    BY <1>4, OnlyOne DEF Process, Registries
  <2> QED  BY <1>2, <2>1, OnlyOne DEF UpToDate, Running
<1>6. head'[p] = b /\ \A q \in Paths \ {p} : head'[q] = head[q]
  BY <1>2, <1>3
<1> HIDE DEF p
<1>7. TreesOK'
  <2> SUFFICES ASSUME NEW q \in listed'
               PROVE  /\ head'[q] \in Branches /\ PathFor[head'[q]] = q
                      /\ RepoOf[q] \in registry'.repos
    BY DEF TreesOK
  <2>1. CASE q = p
    BY <1>2, <1>3, <1>5, <1>6, <2>1 DEF p
  <2>2. CASE q # p
    BY <1>2, <1>3, <1>6, <2>2 DEF TreeInv, TreesOK
  <2> QED  BY <2>1, <2>2
<1>8. /\ proc'[i].do = "provision" /\ proc'[i].what = b
      /\ proc'[i].reg = proc[i].reg
  BY <1>1, <1>2 DEF Goto, Process
<1>9. Ordered(i)'
  BY <1>2, <1>4, <1>6, <1>8 DEF Ordered, Provisioning, Removing, p
<1> QED  BY <1>7, <1>9 DEF TreeInv, Alone

\* The git worktree add that fails leaves the worktrees as they are.
LEMMA AddFailsTreeInv ==
  ASSUME Alone, IInv, TreeInv, NEW i \in Procs, AddFails(i) PROVE TreeInv'
<1>1. proc'[i] = Idle
  BY EndMoves DEF AddFails, IInv
<1>2. UNCHANGED <<registry, listed, head, dirs>>
  BY DEF AddFails, trees
<1>3. Ordered(i)'
  BY <1>1 DEF Ordered, Provisioning, Removing, Idle
<1> QED  BY <1>2, <1>3, QuietTreeInv

\* The removal loads the registry, and asks git for the worktree: what git
\* does not list it may unregister at once, and it has no branch then.
LEMMA QueryTreeInv ==
  ASSUME Alone, IInv, TreeInv, NEW i \in Procs, RemoveLoad(i) \/ QueryGit(i)
  PROVE  TreeInv'
<1> DEFINE p == proc[i].what
<1> SUFFICES ASSUME ~ Throw(i) PROVE TreeInv'
  BY ThrowTreeInv
<1>1. proc \in [Procs -> Process] /\ proc[i] \in Process /\ proc[i].reg \in Registries
  BY OnlyOne DEF ProcOK, Process
<1>2. proc[i].do = "remove" /\ UNCHANGED <<registry, listed, head, dirs>>
  BY DEF RemoveLoad, QueryGit, Running, repo, trees
<1>3. \/ proc[i].at = "load" /\ GotoWith(i, "query", registry)
      \/ GotoHaving(i, "purge", head[p])
      \/ proc[i].at = "query" /\ p \notin listed /\ Unregister(i)
  BY DEF RemoveLoad, QueryGit, Running
<1>4. proc[i].at \in {"load", "query"} => proc[i].with = NoBranch
  BY <1>2 DEF TreeInv, Ordered, Removing
<1>5. /\ proc'[i].do = "remove" /\ proc'[i].what = p
      /\ \/ proc'[i].at = "query" /\ proc'[i].with = NoBranch
         \/ proc'[i].at = "purge"
         \/ /\ proc'[i].at = "save" /\ proc'[i].with = NoBranch
            /\ p \notin listed /\ p \notin proc'[i].reg.tracked
  <2>1. CASE proc[i].at = "load" /\ GotoWith(i, "query", registry)
    BY <1>1, <1>2, <1>4, <2>1 DEF GotoWith, Process
  <2>2. CASE GotoHaving(i, "purge", head[p])
    BY <1>1, <1>2, <2>2 DEF GotoHaving, Process
  <2>3. CASE proc[i].at = "query" /\ p \notin listed /\ Unregister(i)
    BY <1>1, <1>2, <1>4, <2>3 DEF Unregister, Process, Registries
  <2> QED  BY <1>3, <2>1, <2>2, <2>3
<1>6. Ordered(i)'
  BY <1>2, <1>5 DEF Ordered, Provisioning, Removing
<1> QED  BY <1>2, <1>6, QuietTreeInv

\* git worktree remove and git worktree prune only take worktrees from git's
\* list.  The branch comes next only when this one is gone from the list and
\* from the disk, and the prune only when it is gone from the disk.
LEMMA PurgeTreeInv ==
  ASSUME Alone, IInv, TreeInv, NEW i \in Procs,
         PurgeWorktree(i) \/ PurgeFails(i) \/ Prune(i)
  PROVE  TreeInv'
<1> DEFINE p == proc[i].what
<1>1. proc \in [Procs -> Process] /\ proc[i] \in Process
  BY OnlyOne DEF ProcOK
<1>2. /\ proc[i].do = "remove" /\ UNCHANGED <<registry, head>>
      /\ listed' \subseteq listed
  BY DEF PurgeWorktree, PurgeFails, Prune, Running, repo
<1>3. proc[i].at = "prune" => p \notin dirs
  BY <1>2 DEF TreeInv, Ordered, Removing
<1>4. \/ End(i)
      \/ Goto(i, "prune") /\ p \notin dirs'
      \/ Goto(i, "branch") /\ p \notin listed' \cup dirs'
  BY <1>3 DEF PurgeWorktree, PurgeFails, Prune, Running
<1>5. TreesOK'
  BY <1>2 DEF TreeInv, TreesOK
<1>6. Ordered(i)'
  <2>1. CASE End(i)
    <3>1. proc'[i] = Idle
      BY <2>1, EndMoves DEF IInv
    <3> QED  BY <3>1 DEF Ordered, Provisioning, Removing, Idle
  <2>2. CASE Goto(i, "prune") /\ p \notin dirs'
    <3>1. proc'[i].do = "remove" /\ proc'[i].what = p /\ proc'[i].at = "prune"
      BY <1>1, <1>2, <2>2 DEF Goto, Process
    <3> QED  BY <2>2, <3>1 DEF Ordered, Provisioning, Removing
  <2>3. CASE Goto(i, "branch") /\ p \notin listed' \cup dirs'
    <3>1. proc'[i].do = "remove" /\ proc'[i].what = p /\ proc'[i].at = "branch"
      BY <1>1, <1>2, <2>3 DEF Goto, Process
    <3> QED  BY <2>3, <3>1 DEF Ordered, Provisioning, Removing
  <2> QED  BY <1>4, <2>1, <2>2, <2>3
<1> QED  BY <1>5, <1>6 DEF TreeInv, Alone

\* git branch --delete, and the entry goes from the copy.
LEMMA DeleteBranchTreeInv ==
  ASSUME Alone, IInv, TreeInv, NEW i \in Procs, DeleteBranch(i) PROVE TreeInv'
<1> DEFINE p == proc[i].what
<1> SUFFICES ASSUME ~ Throw(i) PROVE TreeInv'
  BY ThrowTreeInv
<1>1. proc \in [Procs -> Process] /\ proc[i] \in Process /\ proc[i].reg \in Registries
  BY OnlyOne DEF ProcOK, Process
<1>2. /\ proc[i].do = "remove" /\ proc[i].at = "branch" /\ Unregister(i)
      /\ UNCHANGED <<registry, listed, head, dirs>>
      /\ proc[i].with \notin local'
  BY DEF DeleteBranch, Running, trees
<1>3. /\ proc'[i].do = "remove" /\ proc'[i].what = p /\ p \notin proc'[i].reg.tracked
      /\ proc'[i].at = "save" /\ proc'[i].with = proc[i].with
  BY <1>1, <1>2 DEF Unregister, Process, Registries
<1>4. p \notin listed \cup dirs
  BY <1>2 DEF TreeInv, Ordered, Removing
<1>5. Ordered(i)'
  BY <1>2, <1>3, <1>4 DEF Ordered, Provisioning, Removing
<1> QED  BY <1>2, <1>5, QuietTreeInv

\* The copy that is saved has every registered root: none loses its worktrees.
LEMMA SaveTreeInv ==
  ASSUME Alone, IInv, TreeInv, NEW i \in Procs, Save(i) PROVE TreeInv'
<1> SUFFICES ASSUME ~ Throw(i) PROVE TreeInv'
  BY ThrowTreeInv
<1>1. /\ proc[i].at = "save" /\ registry' = proc[i].reg /\ End(i)
      /\ UNCHANGED <<listed, head, dirs>>
  BY DEF Save, trees
<1>2. registry.repos \subseteq registry'.repos
  BY <1>1, OnlyOne DEF UpToDate
<1>3. TreesOK'
  BY <1>1, <1>2 DEF TreeInv, TreesOK
<1>4. proc'[i] = Idle
  BY <1>1, EndMoves DEF IInv
<1>5. Ordered(i)'
  BY <1>4 DEF Ordered, Provisioning, Removing, Idle
<1> QED  BY <1>3, <1>5 DEF TreeInv, Alone

\* An operation that begins is at its first command.
LEMMA StartTreeInv ==
  ASSUME Alone, IInv, TreeInv, NEW i \in Procs, NEW do, NEW what, Start(i, do, what),
         \/ do = "register"  /\ what \in Repos
         \/ do = "provision" /\ what \in Branches
         \/ do = "remove"    /\ what \in Paths
  PROVE  TreeInv'
<1>1. proc'[i] = [Idle EXCEPT !.do = do, !.what = what, !.at = "load"]
  BY StartMoves, ZenonT(60) DEF IInv
<1>2. proc'[i].at = "load" /\ proc'[i].with = NoBranch
  BY <1>1 DEF Idle
<1>3. UNCHANGED <<registry, listed, head, dirs>>
  BY DEF Start, trees
<1>4. Ordered(i)'
  BY <1>2 DEF Ordered, Provisioning, Removing
<1> QED  BY <1>3, <1>4, QuietTreeInv

\* Every step preserves it.
LEMMA NextTreeInv ==
  ASSUME Alone, IInv, TreeInv, [Next]_vars PROVE TreeInv'
<1>1. ASSUME NEW i \in Procs, Command(i) PROVE TreeInv'
  BY <1>1, RegisterTreeInv, CloneFailsTreeInv, ProvisionLoadTreeInv, ProvisionTreeInv,
     AddWorktreeTreeInv, AddFailsTreeInv, QueryTreeInv, PurgeTreeInv, DeleteBranchTreeInv, SaveTreeInv
     DEF Command
<1>2. ASSUME NEW i \in Procs, NEW r \in Repos, Start(i, "register", r) PROVE TreeInv'
  BY <1>2, StartTreeInv
<1>3. ASSUME NEW i \in Procs, NEW b \in Branches, Start(i, "provision", b) PROVE TreeInv'
  BY <1>3, StartTreeInv
<1>4. ASSUME NEW i \in Procs, NEW p \in Paths \ {Startup}, Start(i, "remove", p)
      PROVE  TreeInv'
  BY <1>4, StartTreeInv
<1>5. ASSUME NEW i \in Procs, Kill(i) PROVE TreeInv'
  BY <1>5, ThrowTreeInv DEF Kill
<1>6. ASSUME NEW p \in Paths, DirectoryVanishes(p) PROVE TreeInv'
  BY <1>6 DEF DirectoryVanishes, repo, TreeInv, TreesOK, Ordered, Provisioning, Removing
<1>7. CASE UNCHANGED vars
  BY <1>7 DEF vars, TreeInv, TreesOK, Ordered, Provisioning, Removing
<1> QED  BY <1>1, <1>2, <1>3, <1>4, <1>5, <1>6, <1>7 DEF Next

\* It holds in every state.
LEMMA TreeInvariance == ASSUME Alone PROVE Spec => [](IInv /\ TreeInv)
<1>1. Init => IInv /\ TreeInv
  BY InitIInv, InitTreeInv
<1>2. (IInv /\ TreeInv) /\ [Next]_vars => (IInv /\ TreeInv)'
  BY Alone, NextIInv, NextTreeInv
<1> QED  BY <1>1, <1>2, PTL DEF Spec

------------------------------------------------------------------------------
(* Theorems                                                                *)

\* Every variable has its type, however many operations run side by side.
THEOREM TypeCorrectness == Spec => []TypeOK
<1>1. IInv => TypeOK
  BY DEF IInv, DataOK, ProcOK, TypeOK
<1> QED  BY <1>1, Invariance, PTL

\* If only one operation is ever under way, a registered root keeps its .bare
\* and its .git, whatever failed or was killed before.
THEOREM RegisteredRootsStayWhole ==
  ASSUME Alone PROVE Spec => []RegisteredRootsAreWhole
<1>1. IInv => RegisteredRootsAreWhole
  BY Alone DEF IInv, Whole, RegisteredRootsAreWhole, RootState
<1> QED  BY <1>1, Invariance, PTL

\* Only Save writes the registry.
LEMMA OnlySaveWrites ==
  ASSUME [Next]_vars, registry' # registry
  PROVE  \E i \in Procs : proc[i].at = "save" /\ registry' = proc[i].reg
<1>1. ASSUME NEW i \in Procs, Command(i), ~ Save(i) PROVE FALSE
  <2>1. ~ Throw(i)
    BY DEF Throw
  <2> QED  BY <1>1, <2>1 DEF Command, RegisterLoad, Clone, CloneFails, OpenPointer,
        WritePointer, Configure, FetchAll, ListWorktrees, ProvisionLoad, InspectPath,
        FetchBranch, ChooseStart, AddWorktree, AddFails, RemoveLoad, QueryGit,
        PurgeWorktree, PurgeFails, Prune, DeleteBranch
<1>2. ASSUME NEW i \in Procs, Save(i)
      PROVE  \E j \in Procs : proc[j].at = "save" /\ registry' = proc[j].reg
  BY <1>2 DEF Save, Throw
<1>3. PICK i \in Procs : Save(i)
  BY <1>1 DEF Next, Start, Kill, Throw, DirectoryVanishes, vars
<1> QED  BY <1>2, <1>3

\* If only one operation is ever under way, no entry leaves the registry but
\* by its own removal: the lost update of two operations that overlap is the
\* only way to drop one.
THEOREM EntriesStay ==
  ASSUME Alone PROVE Spec => EntriesAreNeverDropped
<1>1. IInv /\ [Next]_vars =>
        [/\ registry.repos \subseteq registry'.repos
         /\ \A p \in registry.tracked \ registry'.tracked :
              \E i \in Procs : Running(i, "remove", "save") /\ proc[i].what = p]_vars
  <2> SUFFICES ASSUME IInv, [Next]_vars, registry' # registry
               PROVE  /\ registry.repos \subseteq registry'.repos
                      /\ \A p \in registry.tracked \ registry'.tracked :
                           \E i \in Procs : Running(i, "remove", "save") /\ proc[i].what = p
    BY DEF vars
  <2>1. PICK i \in Procs : proc[i].at = "save" /\ registry' = proc[i].reg
    BY OnlySaveWrites
  <2>2. UpToDate(i)
    BY Alone DEF IInv, Sound
  <2> QED  BY <2>1, <2>2 DEF UpToDate
<1> QED  BY <1>1, Invariance, PTL DEF Spec, EntriesAreNeverDropped

\* If only one operation is ever under way, every worktree that git lists and
\* that is on disk can be adopted again: it is at the path derived from its
\* branch, below a root that is registered and whole, whatever was killed
\* between git worktree add and the save.
THEOREM UnsavedWorktreesStayAdoptable ==
  ASSUME Alone PROVE Spec => []UnsavedWorktreesAreAdoptable
<1>1. IInv /\ TreeInv => UnsavedWorktreesAreAdoptable
  BY Alone DEF IInv, Whole, TreeInv, TreesOK, UnsavedWorktreesAreAdoptable, HasBare
<1> QED  BY Alone, <1>1, TreeInvariance, PTL

\* If only one operation is ever under way, a provisioning that saves has its
\* branch checked out at the path it adds to the registry.
THEOREM ProvisioningStaysExact ==
  ASSUME Alone PROVE Spec => []ProvisioningIsExact
<1>1. IInv /\ TreeInv => ProvisioningIsExact
  BY DEF TreeInv, Ordered, Provisioning, ProvisioningIsExact, Running
<1> QED  BY Alone, <1>1, TreeInvariance, PTL

\* If only one operation is ever under way, a removal that saves leaves git no
\* worktree at its path, and if git had one when the removal asked, neither its
\* directory nor its branch, although git may have failed half-way before.
THEOREM RemovalStaysComplete ==
  ASSUME Alone PROVE Spec => []RemovalIsComplete
<1>1. IInv /\ TreeInv => RemovalIsComplete
  BY DEF TreeInv, Ordered, Removing, RemovalIsComplete, Running
<1> QED  BY Alone, <1>1, TreeInvariance, PTL
=============================================================================
