---------------------------- MODULE RegistryStore ----------------------------
(***************************************************************************)
(* WorktreeRegistryStore::save on one registry file, called by any number  *)
(* of processes: the parent (removals) and the helpers of its overlays.    *)
(* No lock is taken.  Every system call of save can fail, every helper can *)
(* be killed between two of them, and the machine can crash.               *)
(*                                                                         *)
(* A version stands for the bytes one rename put in place.  After a crash  *)
(* of the machine the directory entry is one of those renamed since the    *)
(* last fsync of the directory, and a file whose bytes were never fsynced  *)
(* may come back torn.                                                     *)
(***************************************************************************)
EXTENDS Naturals

CONSTANTS Writers,
          MaxVersion   \* bound: renames in one behaviour

ASSUME MaxVersionAssumption == MaxVersion \in Nat

VARIABLES pc,       \* where each writer is in save()
          temp,     \* the writers whose temporary file exists
          flushed,  \* the writers whose temporary file is fsynced
          mine,     \* the version each writer renamed into place
          head,     \* the version the registry path names; 0 is no file
          intact,   \* the versions whose bytes reached the disk
          durable,  \* the version the directory on disk is known to name
          torn,     \* the registry file does not parse
          acked     \* the latest version whose save() returned

vars == <<pc, temp, flushed, mine, head, intact, durable, torn, acked>>

Steps == {"idle", "check", "create", "write", "sync", "rename", "dirsync", "killed"}

Init ==
  /\ pc = [w \in Writers |-> "idle"]
  /\ temp = {} /\ flushed = {}
  /\ mine = [w \in Writers |-> 0]
  /\ head = 0 /\ durable = 0 /\ acked = 0
  /\ intact = {} /\ torn = FALSE

Goto(w, from, to) == pc[w] = from /\ pc' = [pc EXCEPT ![w] = to]

\* The version of the registry file on disk and in memory
disk == <<head, intact, durable, torn, acked>>

Begin(w) ==
  /\ Goto(w, "idle", "check")
  /\ UNCHANGED <<temp, flushed, mine, disk>>

\* A registry that exists must load before it may be replaced
Check(w) ==
  /\ Goto(w, "check", IF torn THEN "idle" ELSE "create")
  /\ UNCHANGED <<temp, flushed, mine, disk>>

\* create_directories, open_directory, mkstemp
CreateTemporary(w) ==
  /\ Goto(w, "create", "write")
  /\ temp' = temp \cup {w} /\ flushed' = flushed \ {w}
  /\ UNCHANGED <<mine, disk>>

\* write_all
Write(w) ==
  /\ Goto(w, "write", "sync")
  /\ UNCHANGED <<temp, flushed, mine, disk>>

\* Mutant: the bytes are left to the kernel to write.
SyncFile_Skipped(w) ==
  /\ Goto(w, "sync", "rename")
  /\ UNCHANGED <<temp, flushed, mine, disk>>

SyncFile(w) ==
  /\ Goto(w, "sync", "rename")
  /\ flushed' = flushed \cup {w}
  /\ UNCHANGED <<temp, mine, disk>>

\* Mutant: the fsync is credited to the version that is replaced.
Rename_CreditsOld(w) ==
  /\ head < MaxVersion
  /\ Goto(w, "rename", "dirsync")
  /\ head' = head + 1
  /\ mine' = [mine EXCEPT ![w] = head + 1]
  /\ intact' = IF w \in flushed THEN intact \cup {head} ELSE intact
  /\ torn' = FALSE
  /\ temp' = temp \ {w}
  /\ UNCHANGED <<flushed, durable, acked>>

Rename(w) ==
  /\ head < MaxVersion
  /\ Goto(w, "rename", "dirsync")
  /\ head' = head + 1
  /\ mine' = [mine EXCEPT ![w] = head + 1]
  /\ intact' = IF w \in flushed THEN intact \cup {head + 1} ELSE intact
  /\ torn' = FALSE
  /\ temp' = temp \ {w}
  /\ UNCHANGED <<flushed, durable, acked>>

Later(m, n) == IF m < n THEN n ELSE m

\* Mutant: save() returns without waiting for the directory.
SyncDirectory_Skipped(w) ==
  /\ Goto(w, "dirsync", "idle")
  /\ acked' = Later(acked, mine[w])
  /\ UNCHANGED <<temp, flushed, mine, head, intact, durable, torn>>

\* The directory reaches the disk, with every rename so far: save() returns
SyncDirectory(w) ==
  /\ Goto(w, "dirsync", "idle")
  /\ durable' = head
  /\ acked' = Later(acked, mine[w])
  /\ UNCHANGED <<temp, flushed, mine, head, intact, torn>>

\* Mutant: a failed save() leaves its temporary file behind.
Fail_Littering(w) ==
  /\ pc[w] \in {"check", "create", "write", "sync", "rename", "dirsync"}
  /\ pc' = [pc EXCEPT ![w] = "idle"]
  /\ UNCHANGED <<temp, flushed, mine, disk>>

\* A system call of save() fails: the temporary file is removed, unless it
\* was already renamed; then only the fsync of the directory is missing.
Fail(w) ==
  /\ pc[w] \in {"check", "create", "write", "sync", "rename", "dirsync"}
  /\ pc' = [pc EXCEPT ![w] = "idle"]
  /\ temp' = temp \ {w}
  /\ UNCHANGED <<flushed, mine, disk>>

\* The process dies: its overlay was closed.  Nothing is cleaned up.
Kill(w) ==
  /\ pc[w] \notin {"idle", "killed"}
  /\ pc' = [pc EXCEPT ![w] = "killed"]
  /\ UNCHANGED <<temp, flushed, mine, disk>>

\* Another process takes the dead one's place; what mkstemp created for the
\* dead one is nobody's file any more.
Restart(w) ==
  /\ Goto(w, "killed", "idle")
  /\ temp' = temp \ {w}
  /\ UNCHANGED <<flushed, mine, disk>>

\* The machine crashes.  The directory comes back with any version renamed
\* since it was last synced.
HostCrash ==
  \E k \in durable..head :
    /\ head' = k /\ durable' = k
    /\ intact' = intact \cap 1..k
    /\ torn' \in {b \in BOOLEAN : b => k \notin intact \cup {0}}
    /\ pc' = [w \in Writers |-> "idle"]
    /\ temp' = {} /\ flushed' = {}
    /\ mine' = [w \in Writers |-> 0]
    /\ UNCHANGED acked

Next ==
  \/ \E w \in Writers :
       \/ Begin(w) \/ Check(w) \/ CreateTemporary(w) \/ Write(w)
       \/ SyncFile(w) \/ Rename(w) \/ SyncDirectory(w)
       \/ Fail(w) \/ Kill(w) \/ Restart(w)
  \/ HostCrash

Spec == Init /\ [][Next]_vars

------------------------------------------------------------------------------
(* Properties                                                              *)

\* Every variable has its type.
TypeOK ==
  /\ pc \in [Writers -> Steps]
  /\ temp \subseteq Writers /\ flushed \subseteq Writers
  /\ mine \in [Writers -> 0..MaxVersion]
  /\ head \in 0..MaxVersion /\ durable \in 0..MaxVersion
  /\ acked \in 0..MaxVersion
  /\ intact \subseteq 1..MaxVersion
  /\ torn \in BOOLEAN

\* The registry always parses, also after a crash of the machine between any
\* two system calls of several writers: a torn registry makes every later
\* load() and save() throw, and nothing repairs it.
RegistryIsNeverTorn == ~ torn

\* What save() returned for survives a crash of the machine: the registry is
\* that version or a later one.
AcknowledgedSavesSurvive == acked <= head

\* A save() that failed leaves no temporary file beside the registry: such a
\* file belongs to a save in progress or to a process that was killed.
TemporaryFilesHaveAnOwner ==
  \A w \in temp : pc[w] \in {"write", "sync", "rename", "killed"}

\* The store is the register of RegistryRegister: all the steps of a save but
\* its rename are invisible, and a crash undoes no acknowledged version.
Register == INSTANCE RegistryRegister
Refines  == Register!Spec
=============================================================================
