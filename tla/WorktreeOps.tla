----------------------------- MODULE WorktreeOps -----------------------------
(***************************************************************************)
(* The three operations on git worktrees: registering a repository         *)
(* (WorktreeRepositoryRegistrar), creating or adopting a worktree          *)
(* (WorktreeProvisioner) and removing one (WorktreeRemover).  Each is a    *)
(* process of its own, a helper in an overlay's PTY or, for a removal, the *)
(* parent itself, and works on one registry file and on the repositories'  *)
(* bare directories.  Each loads the registry first, runs git commands,    *)
(* and saves its loaded copy last; no lock is held in between.  Any of the *)
(* commands can fail, and a process can be killed between two of them.     *)
(*                                                                         *)
(* Loading and saving are atomic: RegistryStore implements that.           *)
(***************************************************************************)
EXTENDS FiniteSets

CONSTANTS Procs,         \* how many operations can be under way
          Repos,         \* repository roots
          Paths,         \* worktree paths below them
          RepoOf,        \* the repository root a path lies below
          Branches,      \* local or remote branch names; NoBranch: none
          PathFor,       \* derived_worktree_path: where a branch's worktree goes
          Remote,        \* the branches the remotes have
          Startup,       \* the protected worktree: the editor runs from it
          NoBranch

ASSUME ConstantsAssumption ==
  /\ RepoOf \in [Paths -> Repos]
  /\ PathFor \in [Branches -> Paths]
  /\ Remote \subseteq Branches
  /\ NoBranch \notin Branches

VARIABLES registry,    \* the registry file: registered roots, tracked paths
          root,        \* the .bare and the .git of a repository root
          configured,  \* roots whose remote.origin.fetch is set
          fetched,     \* branches with a refs/remotes/origin ref
          local,       \* branches with a refs/heads ref
          listed,      \* paths in git worktree list
          head,        \* the branch last checked out at a path
          dirs,        \* paths that exist on disk
          proc         \* the operations under way

vars == <<registry, root, configured, fetched, local, listed, head, dirs, proc>>
repo == <<root, configured, fetched, local>>
trees == <<listed, head, dirs>>

\* A repository's message holds the messages of its worktrees: no path can be
\* tracked without its root.
Registries ==
  {reg \in [repos : SUBSET Repos, tracked : SUBSET Paths] :
     \A p \in reg.tracked : RepoOf[p] \in reg.repos}

\* A .git file that was opened and not yet written is torn
Roots == [bare : BOOLEAN, git : {"none", "torn", "good"}]

RepoOfBranch(b) == RepoOf[PathFor[b]]
BranchesOf(r)   == {b \in Branches : RepoOfBranch(b) = r}
HasBare(r)      == root[r].bare
Below(r)        == {p \in Paths : RepoOf[p] = r}

\* Mutant: the bare directory's own entry is taken for a worktree.
Available_WithBare(r) == (listed \cap dirs \cap Below(r)) \cup {r}

\* available_git_worktree_paths
Available(r) == listed \cap dirs \cap Below(r)

\* inspect_repository_root
RootState(r) ==
  CASE root[r].bare /\ root[r].git = "good" -> "BARE_ROOT"
    [] root[r].bare /\ root[r].git = "none" -> "RECOVERABLE_BARE_ROOT"
    [] ~ root[r].bare /\ root[r].git = "none" /\ dirs \cap Below(r) = {} -> "EMPTY"
    [] OTHER -> "invalid"

------------------------------------------------------------------------------
(* Processes                                                               *)

NoRegistry == [repos |-> {}, tracked |-> {}]

\* do, what: the operation and what it is asked for; at: its next command;
\* reg: the registry as it loaded it; with: what its last query found
Idle == [do |-> "none", what |-> NoBranch, at |-> "idle", reg |-> NoRegistry,
         with |-> NoBranch]

Steps == {"idle", "load", "clone", "pointer", "write", "config", "fetch", "list",
          "inspect", "choose", "add", "query", "purge", "prune", "branch", "save"}

Found == {"existing", "tracking", "new"} \cup Branches \cup {NoBranch}

Process ==
  {pr \in [do   : {"none", "register", "provision", "remove"},
           what : Repos \cup Branches \cup Paths \cup {NoBranch},
           at   : Steps,
           reg  : Registries,
           with : Found] :
     /\ pr.do = "register"  => pr.what \in Repos
     /\ pr.do = "provision" => pr.what \in Branches
     /\ pr.do = "remove"    => pr.what \in Paths}

Running(i, do, at) == proc[i].do = do /\ proc[i].at = at

\* Process i goes on to its next command, or ends, having failed or not.
Goto(i, at)         == proc' = [proc EXCEPT ![i].at = at]
GotoWith(i, at, reg)  == proc' = [proc EXCEPT ![i].at = at, ![i].reg = reg]
GotoHaving(i, at, it) == proc' = [proc EXCEPT ![i].at = at, ![i].with = it]
End(i)              == proc' = [proc EXCEPT ![i] = Idle]

\* A command of process i fails and the operation throws; nothing changed.
Throw(i) == End(i) /\ UNCHANGED <<registry, repo, trees>>

Start(i, do, what) ==
  /\ proc[i] = Idle
  /\ proc' = [proc EXCEPT ![i] = [Idle EXCEPT !.do = do, !.what = what, !.at = "load"]]
  /\ UNCHANGED <<registry, repo, trees>>

\* A helper gets SIGHUP when its overlay closes; the parent may die as well.
Kill(i) == proc[i] # Idle /\ Throw(i)

Save(i) ==
  /\ proc[i].at = "save"
  /\ \/ registry' = proc[i].reg /\ End(i) /\ UNCHANGED <<repo, trees>>
     \/ Throw(i)

------------------------------------------------------------------------------
(* register_repository                                                     *)

\* Mutant: a bare directory is taken for a whole root, pointer or not.
RegisterLoad_SkipsPointer(i) ==
  LET r == proc[i].what IN
  /\ Running(i, "register", "load")
  /\ GotoWith(i, IF HasBare(r) THEN "list" ELSE "clone", registry)
  /\ UNCHANGED <<registry, repo, trees>>

\* load(), then inspect_repository_root; a clone needs a URL
RegisterLoad(i) ==
  LET r == proc[i].what IN
  /\ Running(i, "register", "load")
  /\ \/ /\ RootState(r) # "invalid"
        /\ GotoWith(i, CASE RootState(r) = "EMPTY"                 -> "clone"
                         [] RootState(r) = "RECOVERABLE_BARE_ROOT" -> "pointer"
                         [] RootState(r) = "BARE_ROOT"             -> "list",
                    registry)
        /\ UNCHANGED <<registry, repo, trees>>
     \/ RootState(r) \in {"EMPTY", "invalid"} /\ Throw(i)

\* git clone --bare: the remote's branches become local branches
Clone(i) ==
  LET r == proc[i].what IN
  /\ Running(i, "register", "clone")
  /\ ~ HasBare(r)
  /\ Goto(i, "pointer")
  /\ root' = [root EXCEPT ![r].bare = TRUE]
  /\ local' = local \cup (Remote \cap BranchesOf(r))
  /\ UNCHANGED <<registry, configured, fetched, trees>>

\* The clone fails, also because another process made a .bare meanwhile:
\* .bare is removed with all it holds, whoever made it
CloneFails(i) ==
  LET r == proc[i].what IN
  /\ Running(i, "register", "clone")
  /\ End(i)
  /\ root' = [root EXCEPT ![r].bare = FALSE]
  /\ configured' = configured \ {r}
  /\ fetched' = fetched \ BranchesOf(r) /\ local' = local \ BranchesOf(r)
  /\ listed' = listed \ Below(r)
  /\ UNCHANGED <<registry, head, dirs>>

\* write_git_pointer opens and truncates the file, then writes it
OpenPointer(i) ==
  /\ Running(i, "register", "pointer")
  /\ Goto(i, "write")
  /\ root' = [root EXCEPT ![proc[i].what].git = "torn"]
  /\ UNCHANGED <<registry, configured, fetched, local, trees>>

WritePointer(i) ==
  /\ Running(i, "register", "write")
  /\ Goto(i, "config")
  /\ root' = [root EXCEPT ![proc[i].what].git = "good"]
  /\ UNCHANGED <<registry, configured, fetched, local, trees>>

\* git rev-parse --is-bare-repository, git config remote.origin.fetch
Configure(i) ==
  /\ Running(i, "register", "config")
  /\ \/ /\ HasBare(proc[i].what)
        /\ Goto(i, "fetch")
        /\ configured' = configured \cup {proc[i].what}
        /\ UNCHANGED <<registry, root, fetched, local, trees>>
     \/ Throw(i)

\* git fetch origin, as configured
FetchAll(i) ==
  LET r == proc[i].what IN
  /\ Running(i, "register", "fetch")
  /\ \/ /\ r \in configured
        /\ Goto(i, "list")
        /\ fetched' = fetched \cup (Remote \cap BranchesOf(r))
        /\ UNCHANGED <<registry, root, configured, local, trees>>
     \/ Throw(i)

\* Mutant: what git lists replaces what is tracked.
ListWorktrees_Replacing(i) ==
  LET r == proc[i].what IN
  /\ Running(i, "register", "list")
  /\ HasBare(r)
  /\ GotoWith(i, "save",
              [repos   |-> proc[i].reg.repos \cup {r},
               tracked |-> (proc[i].reg.tracked \ Below(r)) \cup Available(r)])
  /\ UNCHANGED <<registry, repo, trees>>

\* The default branch resolves; available_git_worktree_paths are merged with
\* what the loaded registry tracks
ListWorktrees(i) ==
  LET r == proc[i].what IN
  /\ Running(i, "register", "list")
  /\ \/ /\ HasBare(r)
        /\ GotoWith(i, "save", [repos   |-> proc[i].reg.repos \cup {r},
                                tracked |-> proc[i].reg.tracked \cup Available(r)])
        /\ UNCHANGED <<registry, repo, trees>>
     \/ Throw(i)

------------------------------------------------------------------------------
(* provision                                                               *)

\* Mutant: a repository that is not registered gets its entry on the way.
ProvisionLoad_AddsRepository(i) ==
  LET b == proc[i].what IN
  /\ Running(i, "provision", "load")
  /\ HasBare(RepoOfBranch(b))
  /\ GotoWith(i, "inspect", [repos   |-> registry.repos \cup {RepoOfBranch(b)},
                             tracked |-> registry.tracked \cup {PathFor[b]}])
  /\ UNCHANGED <<registry, repo, trees>>

\* .bare is there, load(), registered_repository, register_worktree
ProvisionLoad(i) ==
  LET b == proc[i].what IN
  /\ Running(i, "provision", "load")
  /\ \/ /\ HasBare(RepoOfBranch(b)) /\ RepoOfBranch(b) \in registry.repos
        /\ GotoWith(i, "inspect", [registry EXCEPT !.tracked = @ \cup {PathFor[b]}])
        /\ UNCHANGED <<registry, repo, trees>>
     \/ /\ ~ (HasBare(RepoOfBranch(b)) /\ RepoOfBranch(b) \in registry.repos)
        /\ Throw(i)

\* Mutant: any directory at the path is adopted.
InspectPath_AdoptsAny(i) ==
  LET b == proc[i].what IN
  /\ Running(i, "provision", "inspect")
  /\ Goto(i, IF PathFor[b] \in dirs THEN "save" ELSE "fetch")
  /\ UNCHANGED <<registry, repo, trees>>

\* A path that exists is adopted if it is a worktree on that branch: its .git
\* leads to an entry of git's list, the HEAD of which names the branch
InspectPath(i) ==
  LET b == proc[i].what
      p == PathFor[b] IN
  /\ Running(i, "provision", "inspect")
  /\ \/ /\ p \in dirs /\ p \in listed /\ head[p] = b
        /\ Goto(i, "save")
        /\ UNCHANGED <<registry, repo, trees>>
     \/ /\ p \notin dirs
        /\ Goto(i, "fetch")
        /\ UNCHANGED <<registry, repo, trees>>
     \/ /\ p \in dirs /\ (p \notin listed \/ head[p] # b)
        /\ Throw(i)

\* git fetch origin of the branch; its failure is tolerated
FetchBranch(i) ==
  LET b == proc[i].what IN
  /\ Running(i, "provision", "fetch")
  /\ Goto(i, "choose")
  /\ \/ b \in Remote /\ HasBare(RepoOfBranch(b)) /\ fetched' = fetched \cup {b}
     \/ UNCHANGED fetched
  /\ UNCHANGED <<registry, root, configured, local, trees>>

\* Which git worktree add: a local branch, else the remote's, else the
\* repository's default branch, which may not resolve
ChooseStart(i) ==
  LET b == proc[i].what IN
  /\ Running(i, "provision", "choose")
  /\ \/ /\ HasBare(RepoOfBranch(b))
        /\ GotoHaving(i, "add", CASE b \in local             -> "existing"
                                  [] b \in fetched \ local   -> "tracking"
                                  [] b \notin fetched \cup local -> "new")
        /\ UNCHANGED <<registry, repo, trees>>
     \/ b \notin local \cup fetched /\ Throw(i)

\* git refuses a path that is taken and a branch that is checked out, and it
\* tracks a remote branch only where the remote's fetch is configured
CanAdd(b, how) ==
  /\ HasBare(RepoOfBranch(b))
  /\ PathFor[b] \notin listed \cup dirs
  /\ how = "existing" => b \in local /\ \A p \in listed : head[p] # b
  /\ how # "existing" => b \notin local
  /\ how = "tracking" => RepoOfBranch(b) \in configured

AddWorktree(i) ==
  LET b == proc[i].what
      p == PathFor[b] IN
  /\ Running(i, "provision", "add")
  /\ CanAdd(b, proc[i].with)
  /\ Goto(i, "save")
  /\ local' = local \cup {b}
  /\ listed' = listed \cup {p} /\ dirs' = dirs \cup {p}
  /\ head' = [head EXCEPT ![p] = b]
  /\ UNCHANGED <<registry, root, configured, fetched>>

\* It fails: git takes the worktree back, and not the branch -b has made
AddFails(i) ==
  LET b == proc[i].what IN
  /\ Running(i, "provision", "add")
  /\ End(i)
  /\ \/ UNCHANGED local
     \/ proc[i].with # "existing" /\ HasBare(RepoOfBranch(b)) /\ local' = local \cup {b}
  /\ UNCHANGED <<registry, root, configured, fetched, trees>>

------------------------------------------------------------------------------
(* remove                                                                  *)

\* load(), find_tracked_worktree
RemoveLoad(i) ==
  LET p == proc[i].what IN
  /\ Running(i, "remove", "load")
  /\ \/ /\ p \in registry.tracked
        /\ GotoWith(i, "query", registry)
        /\ UNCHANGED <<registry, repo, trees>>
     \/ p \notin registry.tracked /\ Throw(i)

Unregister(i) ==
  proc' = [proc EXCEPT ![i].at = "save",
                       ![i].reg.tracked = @ \ {proc[i].what}]

\* find_git_worktree, which also returns the worktree's branch: a worktree
\* git does not list is only unregistered
QueryGit(i) ==
  LET p == proc[i].what IN
  /\ Running(i, "remove", "query")
  /\ \/ /\ p \in listed
        /\ GotoHaving(i, "purge", head[p])
        /\ UNCHANGED <<registry, repo, trees>>
     \/ /\ p \notin listed
        /\ Unregister(i)
        /\ UNCHANGED <<registry, repo, trees>>
     \/ HasBare(RepoOf[p]) /\ Throw(i)

\* git worktree remove --force --force
PurgeWorktree(i) ==
  LET p == proc[i].what IN
  /\ Running(i, "remove", "purge")
  /\ p \in listed
  /\ Goto(i, "branch")
  /\ listed' = listed \ {p} /\ dirs' = dirs \ {p}
  /\ UNCHANGED <<registry, repo, head>>

\* Mutant: a failure is taken for one about a directory that is missing.
PurgeFails_Unchecked(i) ==
  LET p == proc[i].what IN
  /\ Running(i, "remove", "purge")
  /\ listed' \in {listed, listed \ {p}} /\ dirs' \in {dirs, dirs \ {p}}
  /\ Goto(i, "prune")
  /\ UNCHANGED <<registry, repo, head>>

\* It fails.  Git deletes the directory and then, whether it could or not, its
\* own entry: either can be gone and the other one left.  If the directory is
\* there the removal gives up, if not it goes on
PurgeFails(i) ==
  LET p == proc[i].what IN
  /\ Running(i, "remove", "purge")
  /\ listed' \in {listed, listed \ {p}} /\ dirs' \in {dirs, dirs \ {p}}
  /\ \/ p \in dirs' /\ End(i)
     \/ p \notin dirs' /\ Goto(i, "prune")
  /\ UNCHANGED <<registry, repo, head>>

\* git worktree prune drops every missing worktree of the repository; the
\* removal goes on if find_git_worktree does not find its own any more
Prune(i) ==
  LET p == proc[i].what
      kept == {q \in listed : q \in dirs \/ RepoOf[q] # RepoOf[p]} IN
  /\ Running(i, "remove", "prune")
  /\ \/ p \notin kept /\ listed' = kept /\ Goto(i, "branch")
     \/ listed' \in {listed, kept} /\ End(i)
  /\ UNCHANGED <<registry, repo, head, dirs>>

\* git branch --delete --force: git refuses a branch that is checked out
DeleteBranch(i) ==
  LET b == proc[i].with IN
  /\ Running(i, "remove", "branch")
  /\ \/ /\ \A q \in listed : head[q] # b
        /\ Unregister(i)
        /\ local' = local \ {b}
        /\ UNCHANGED <<registry, root, configured, fetched, trees>>
     \/ Throw(i)

------------------------------------------------------------------------------
(* The user, or an agent in a shell, removes a worktree's directory by hand *)
DirectoryVanishes(p) ==
  /\ p \in dirs
  /\ dirs' = dirs \ {p}
  /\ UNCHANGED <<registry, repo, listed, head, proc>>

Init ==
  /\ registry = NoRegistry
  /\ root = [r \in Repos |-> [bare |-> FALSE, git |-> "none"]]
  /\ configured = {} /\ fetched = {} /\ local = {}
  /\ listed = {} /\ dirs = {}
  /\ head = [p \in Paths |-> NoBranch]
  /\ proc = [i \in Procs |-> Idle]

Command(i) ==
  \/ RegisterLoad(i) \/ Clone(i) \/ CloneFails(i) \/ OpenPointer(i)
  \/ WritePointer(i) \/ Configure(i) \/ FetchAll(i) \/ ListWorktrees(i)
  \/ ProvisionLoad(i) \/ InspectPath(i) \/ FetchBranch(i) \/ ChooseStart(i)
  \/ AddWorktree(i) \/ AddFails(i)
  \/ RemoveLoad(i) \/ QueryGit(i) \/ PurgeWorktree(i) \/ PurgeFails(i)
  \/ Prune(i) \/ DeleteBranch(i)
  \/ Save(i)

Next ==
  \/ \E i \in Procs :
       \/ \E r \in Repos : Start(i, "register", r)
       \/ \E b \in Branches : Start(i, "provision", b)
       \/ \E p \in Paths \ {Startup} : Start(i, "remove", p)
       \/ Command(i)
       \/ Kill(i)
  \/ \E p \in Paths : DirectoryVanishes(p)

Spec == Init /\ [][Next]_vars


------------------------------------------------------------------------------
(* Properties                                                              *)

\* Every variable has its type.
TypeOK ==
  /\ registry \in Registries
  /\ root \in [Repos -> Roots]
  /\ configured \subseteq Repos
  /\ fetched \subseteq Branches /\ local \subseteq Branches
  /\ listed \subseteq Paths /\ dirs \subseteq Paths
  /\ head \in [Paths -> Branches \cup {NoBranch}]
  /\ proc \in [Procs -> Process]

\* Whatever failed or was killed before, a registered root is a whole bare
\* root: inspect_repository_root accepts it and git commands find its .bare.
RegisteredRootsAreWhole ==
  \A r \in registry.repos : RootState(r) = "BARE_ROOT"

\* The editor cloned every root of this model, so once registered a root has
\* its remote branches configured (and with them, fetched).
RegisteredRootsFetchBranches ==
  \A r \in registry.repos : r \in configured

\* A worktree that was created and not saved can still be adopted: asking for
\* its branch again leads to its path, below a root that is registered.
UnsavedWorktreesAreAdoptable ==
  \A p \in listed \cap dirs :
    PathFor[head[p]] = p /\ RepoOf[p] \in registry.repos /\ HasBare(RepoOf[p])

\* What a provisioning saves is what was asked for: git has a worktree on the
\* entered branch at the path it adds to the registry.
ProvisioningIsExact ==
  \A i \in Procs : Running(i, "provision", "save") =>
    /\ PathFor[proc[i].what] \in listed \cap proc[i].reg.tracked
    /\ head[PathFor[proc[i].what]] = proc[i].what

\* A removal gives the registry entry up only when git has given the worktree
\* up, and if git still had it when the removal asked, its directory and its
\* branch are gone as well, although git may have done half of it and failed.
\* What an earlier failure has left on disk, unknown to git, may stay: the
\* entry alone is given up then (remove, worktree_remover.cc:215).
RemovalIsComplete ==
  \A i \in Procs : Running(i, "remove", "save") =>
    /\ proc[i].what \notin listed \cup proc[i].reg.tracked
    /\ proc[i].with # NoBranch => /\ proc[i].what \notin dirs
                                 /\ proc[i].with \notin local

\* No entry is silently dropped from the registry: a root stays registered,
\* and a path stays tracked until a removal of that very path saves.
EntriesAreNeverDropped ==
  [][/\ registry.repos \subseteq registry'.repos
     /\ \A p \in registry.tracked \ registry'.tracked :
          \E i \in Procs : Running(i, "remove", "save") /\ proc[i].what = p]_vars
=============================================================================
