# TLA+ models of my-opiniated-editor

The repository is a terminal workspace: a parent process (`src/src/parent`) that
owns shells in PTYs, arranged as panes in trays, with overlays that manage git
worktrees, and a bridge (`src/src/bridge`) that shows the parent in a browser.
This directory models its core in TLA+, checks the models with TLC and proves
their main invariants with TLAPS. Source lines below are those of the files
under `src/src/`.

## Inventory

| Component | State | Operations | Hard behaviour |
|---|---|---|---|
| **Tray manager** `parent/tray/tray_manager.cc` | the open trays (anonymous 1..9, one per worktree root), `active_tray_id`, `current_size` | `switch_to`, `switch_to_worktree`, `destroy_tray`, `destroy_exited_trays`, `resize_active`, overlay setters, forwarding to the active tray | several ways to become active; background trays have stale sizes and overlays; a list of exited trays is worked through while trays are destroyed and restarted |
| **Tray** `parent/tray/tray.cc` | panes, layout, focus, maximized, selection, move session, overlay | split, close, focus, select, move, rotate, resize, reap | identities of panes that vanish by themselves |
| **Registry store** `parent/worktree/registry` | one JSON file | `load`, `save` | unlocked writers, crashes between system calls |
| **Worktree operations** `parent/worktree/{registration,provision,removal}` | registry, `.bare`, `.git`, git's refs and worktree list, directories | `register_repository`, `provision`, `remove` | each runs many git commands that can fail, be killed, be retried, and overlap |
| **Worktree overlay** `parent/worktree/overlay`, **path picker** `parent/overlay` | mode, stage, fields, candidates, helper and picker processes, confirmation, tray to open | keys, cycling, submit, process refresh | asynchronous exits of helpers and pickers under a user who types on |
| **Event loop** `parent/workspace_parent.cc`, **dispatcher** `parent/runtime` | command mode, snapshot of descriptors, published status | one iteration of poll and its handlers; `dispatch` | snapshots used after handlers changed what they describe; what is published lags behind |
| **Pane layout** `parent/pane` | a tree of splits with percentages | split, close, move, rotate, resize, navigate | tree edits that keep identities, minimum sizes |
| **Input, pane view, status** `parent/{input,view,status}` | decode buffers | incremental decoding, framing | arbitrary chunking |
| **Terminal** `parent/terminal` | escape parser, screen, snapshots, content PTYs | read, write, render | incremental parsing |
| **Bridge** `bridge` | the registered clients, one parent session, what is kept for late clients, buffers of half messages | join, leave, broadcast, write input | a thread for each client, one reader, two mutexes, blocking writes in both directions, clients that vanish |
| **Browser client** `bridge/browser`, **HTTPS proxy** `tools/bridge` | connection, terminals of panes | receive, send, reconnect, forward | outside the C++ core |

They interact so: the event loop polls standard input, the panes' PTYs and the
overlays' helpers, decodes input into literals and commands, hands commands to
the dispatcher, and the dispatcher calls the tray manager and the active tray's
overlay. An overlay starts helpers, which are this same executable run with
`--register-worktree-repository` or `--provision-worktree`; those use the
registry store and git. A removal runs in the parent itself. Everything in the
parent is one thread; what runs concurrently with it are shells, helpers,
pickers, other parents on the same registry, and the bridge, which started it
and talks to it over its PTY, a pipe of status lines and a socket of frames. The
bridge has a thread for each browser and one that reads the parent.

What makes each of them correct:

- tray manager: the active tray exists, has the terminal's size, its overlay
  knows the open trays; reaping ends exactly what has exited, eventually;
- registry store: a reader sees a whole registry, a save that returned is
  durable, a save that failed leaves nothing behind;
- worktree operations: registry, git and disk agree after any failure, and a
  retry can finish what a failure left;
- overlay: an answer of a helper is applied to the question it answers; a
  confirmed action is the one that was shown; a tray is opened once;
- event loop: no handler uses an identity that an earlier handler of the same
  iteration destroyed; what is published describes the current state;
- pane layout: edits keep the panes, the shape (no split of one child) and the
  percentages (sum 100, minimum each);
- decoders: the result does not depend on how the bytes were cut;
- bridge: every client sees the parent's channels from a consistent start and
  without a gap, payloads reach the parent whole, and nobody waits for good.

## Modules

| Module | What it is | Checked by | Proofs |
|---|---|---|---|
| `TraySwitching` | abstract: which trays are open, where the user is | as a property of the next two | |
| `TrayManager` | `TrayManager` with the trays it owns | `TrayManager.cfg` | `TrayManager_proofs` |
| `ParentLoop` | `run_workspace_parent` with `ParentCommandDispatcher` | `ParentLoop.cfg`, `ParentSurvives.cfg`, `ParentStaleOverlay.cfg` | `ParentLoop_proofs` |
| `PaneLayout` | the tree of splits: build, split, close, dissolve, flatten, percentages | through `TrayPanes` | `PaneTree_proofs` |
| `PaneGeometry` | cell regions, separators, the directional search | through `TrayPanes` | `PaneTree_proofs` |
| `PaneEditing` | selection, rotation, resizing, move, swap | through `TrayPanes` | `PaneTree_proofs` |
| `TrayPanes` | one `Tray` with its panes under every pane command | `TrayPanes.cfg`, `TrayNesting.cfg` through `MCTrayPanes` | `TrayPanes_proofs` |
| `PathPicker` | the fzf child and the reports of its highlight | through `WorktreeOverlay` | `WorktreeOverlay_proofs` |
| `WorktreeOverlay` | `WorktreeManagementOverlay`: modes, forms, picker, helper | `WorktreeOverlay.cfg` through `MCWorktreeOverlay` | `WorktreeOverlay_proofs` |
| `RegistryRegister` | abstract: an atomic register that keeps what it acknowledged | as a property of the next | |
| `RegistryStore` | `WorktreeRegistryStore::save`, system call by system call | `RegistryStore.cfg` | `RegistryStore_proofs` |
| `WorktreeOps` | register, provision, remove, command by command | `WorktreeOps.cfg`, `WorktreeLostUpdate.cfg`, `WorktreeRetryConfig.cfg` through `MCWorktreeOps` | `WorktreeOps_proofs` |
| `BrowserBridge` | the hub, its threads and mutexes, between parent and browsers | `BrowserBridge.cfg` through `MCBrowserBridge` | `BrowserBridge_proofs` |

How they fit together: `ParentLoop` is the composition of event loop,
dispatcher, tray manager and an overlay reduced to what the loop sees of it;
`WorktreeOverlay` is that overlay in full, `TrayPanes` the panes of one of its
trays in full, `WorktreeOps` what its helpers do, `RegistryStore` the save they
end with, and `BrowserBridge` what carries `ParentLoop`'s `published` and the
panes' output to the browsers.

### TrayManager

`trays` is a function from the open identities to the part of a `Tray` the
manager depends on: how many of its panes have a running shell (`live`) and an
exited, unreaped one (`dead`), its size, and its overlay with the session trays
it was last told and its size. `active` is `active_tray_id`, `size` is
`current_size`, and `exited` is the local list of `destroy_exited_trays`, which
is made in one pass (`ReapExitedPanes`) and worked through one `destroy_tray` at
a time (`DestroyNextExited`), because shells keep exiting in between. The other
operations are called from the same thread and are single actions, guarded by
`Idle`: the list is empty. `ShellExits` is the environment and has no such
guard. `Refines` is the refinement to `TraySwitching`, whose point is where the
user lands: closing a tray in the background never moves the user, closing the
active one leads to anonymous tray 1.

### ParentLoop

Where `TrayManager` takes the calls of its users as they come, `ParentLoop` is
the user: one iteration of the event loop after the other. `phase` is where the
iteration is: `top`, `reap` (in `destroy_exited_trays`), `poll`, `input`,
`overlays`, `outputs`, or how the loop ended. `trays` has pane identities
instead of counts, because what matters here is that something remembered by its
identity may be gone: `sources` and `polled` are the local `output_sources` and
`overlay_sources` of an iteration, taken when it polls and used after the input
batch. `published` is the last status the bridge was sent; each handler that
publishes in the code does so in its action. An overlay is reduced to its
`stage` (which picker, a dialog, a running helper), whether its process has
`exited`, and the tray it `asks` about. Its keys, `Typed`, and what its process
selected, `OpenSelected` and `FinishProcess`, are a choice over what the
overlay's code can do.

An input batch is any number of keys in any order (`Keys`), ended by `EndBatch`.
Everything the user and the exiting processes do is interleaved with the loop at
every phase. Abstractions a reader should know of:

- `HungUp`: what exits ends a poll at once. That is POLLHUP, and takes for
  granted that no descendant of a shell or helper keeps its PTY open.
- `RootFor`: the directory of a selected worktree may be gone by the time it is
  opened. `worktree_root_for` then finds the repository it lay in, or throws.
- Exited trays are destroyed in any order; `TrayManager` has the order.
- `ReadOverlay` compares descriptors in the code. A process that was replaced
  since the poll is treated as one with the same descriptor, which is the
  hazardous case: descriptors are reused.
- A write to a PTY whose child has exited succeeds on Linux and is lost.
- Terminal sizes, the pane view's viewport messages, previews and drawing are
  left out.

### PaneLayout, PaneGeometry, PaneEditing and TrayPanes

`layout` is the tree of `PaneLayout`: its `root`, the parent of each node (`up`)
and of each split its axis and its children with their percentages (`kids`). A
leaf is the pane it shows; the code keeps the two identities apart but never
changes which belongs to which. A new split takes any unused identity, where the
code counts up. The edits are operators from layout to layout that follow the
code step by step, because their intermediate states (a split with one child, a
split inside one of its own axis) are what the code cleans up after itself.
`PaneGeometry` computes every region and separator in cells as
`calculate_pane_geometry` does, with its rounding.

`TrayPanes` keeps, next to the layout, the size each pane's PTY was last given
(`ptySize`, whose domain are the live panes), the focus, the maximized view, the
selection and the move session with its two stages, and has one action for each
function of `tray.cc` that a pane command, an exit or a resize reaches.
`Fail` is a preview or a confirmation whose exchange throws, which ends the
parent. Percentages are whole numbers of `Full` (100 in the code) and resizing
moves `Step` of them (5 in the code). Left out: the viewport sizes a browser
reports for its panes (`estimate_layout_sizes`, the default, is what is
modelled), and what panes draw.

### PathPicker and WorktreeOverlay

`overlay` is the record of `WorktreeManagementOverlay`'s fields: mode, the stage
of each form, the texts, the list with the availability of its entries, the
picker, the helper, the confirmation and the tray to open. `inbox` and
`sequence` are the bytes of one `write_input` not handled yet: a batch is handled
key by key, since a key can start a child or change the mode under the keys that
follow it. The environment is free to do what it can: every list is built from a
registry that another parent may have changed or that cannot be read, with any
of its worktrees gone, and fzf can fail to start; fzf and the helper exit at any
time in any way.

The picker tells its highlight through its terminal output. The model cuts that
output into pieces (two halves of the prefix, the index, the terminator, screen
output) and lets each read end after any piece, which is what
`ingest_focus_notifications` has to put together again.

A text is empty, refused or one of `Names`; what matters of an escape sequence is
where it ends. Sizes, the cursor, the transcript of the helper and rendering are
left out. Behaviour met on the way that no property speaks about: a Tab in the
same batch after the Enter that started a helper cycles the mode and kills that
helper, while in a batch of its own it is passed to the helper; a lone ESC
swallows the next key; the message "Selected tray is unavailable" (line 132)
cannot be reached.

### RegistryStore

`pc` is where each writer is in `save()`: check, mkstemp, write, fsync, rename,
fsync of the directory. A version stands for the bytes a rename put in place.
`HostCrash` brings the directory back with any version renamed since its last
fsync; bytes that were not fsynced may be torn. `Fail` is any of the system
calls failing, `Kill` the end of the process, without cleanup. The refinement
to `RegistryRegister` makes rename the only visible step of a save.

### WorktreeOps

`registry` is the registry file, replaced as a whole (that is what
`RegistryStore` shows). The message of a repository holds those of its
worktrees, so `Registries` has no tracked path without its root. `root`, `configured`, `fetched`, `local`, `listed`,
`head` and `dirs` are what git and the file system hold. A process runs one
operation; its record holds the operation, its next command, the registry *as
it loaded it*, and what its last query found. One action is one git command or
file operation; a command that can fail has the outcome in which the operation
throws, and `Kill` ends a process anywhere. A command that changes several
things can fail half-way (`CloneFails`, `AddFails`, `PurgeFails`, `Prune`): a
`git worktree add` that fails may leave the branch it made, a `git worktree
remove` that fails may have taken its entry or the directory and left the other.
A directory that git does not list is therefore a state like any other: the
retry of its removal only unregisters it, and provisioning refuses its path.
`DirectoryVanishes` is a user who removes a worktree by hand. `Procs` is the set
of operations that can be under way: one in the passing run, two where
overlapping is the question. Left out: a git command that is itself killed
half-way (a kill ends the operation before or after it), worktrees with a
detached head, and directories made by others.

### BrowserBridge

The parent writes three channels of numbered messages: terminal output (bytes),
status (lines) and pane output (frames). A line and a frame are two pieces, so a
read can end inside one; `channel` is the pipe, `partial` the buffer in which the
reader keeps the half. `ready` is what its poll found readable, `queue` what it
has read and not yet broadcast. The two mutexes are not variables: who holds
`state_mutex` is visible from `todo` (a broadcast under way) and the threads'
states (a client being greeted), and `parent_input_mutex` is held by the thread
that is `writing`. `kept` is what the hub keeps for a client that joins later.

A browser connects, receives, sends and closes. A payload to the PTY or to the
view socket is two pieces, and each write can block between them. An invalid
payload throws out of `serve_client`: the thread is `dead`, the client stays
registered and goes on receiving until a send to it fails. The parent is the
part of it the bridge can tell: it writes a message piece by piece, blocks while
the pipe is full, and reads no input meanwhile.

Left out: HTTP and assets, ping frames, the ioctl for a size, clearing a status
buffer above 64 KB, the end of the parent (the reader then polls hung-up
descriptors without pause), and the end of the server, whose detached client
threads outlive the hub they use (`parent_ws_server.cc:277`). The model begins with the constructed
hub, whose reader thread the code starts before the members declared after it
exist (`pty_websocket_hub.h:64`).

## Runs

- `tray_manager`: two anonymous trays, one worktree tray, at most two panes per
  tray, two sizes. Two anonymous trays are enough for a reaping pass that
  destroys the active tray, restarts tray 1 and goes on with its list, in either
  order; the worktree tray comes last in that order; a second pane tells a tray
  with one exited shell from one that is gone.
- `registry_store`: two writers, versions up to the bound in the cfg: a crash
  can choose between several renames of different writers.
- `worktree_ops`: one operation at a time, two roots, three paths, four
  branches two of which derive the same path, one branch on the remote; the
  startup worktree is none of the paths, so that each can be removed. Every
  sequence of operations, failures, kills and retries is explored: nothing
  bounds its length. That a registered root stays whole is a question of one
  operation at a time: of two registrations of one root, the clone that fails
  removes the other one's.
- `worktree_lost_update` (a violation): two operations at a time. The one that
  saves last drops what the other saved.
- `worktree_retry_config` (a violation): a registration that fails after it
  wrote `.git` is retried and registers the root without configuring it.
- `parent_loop`: the home tray and a worktree tray, two panes each, one overlay
  at a time. Two trays are enough to destroy the active tray or another one and
  to ask about a tray that is open, closed, active or not; two panes let a tray
  lose one of them and go on, and `next` bounds how often a tray can be split;
  more than one overlay at a time is beyond the run but not beyond the proofs,
  which put no bound on trays, panes and overlays.
- `parent_survives` (a violation): the same instance. A pane that had output is
  closed in the same poll, and is then looked up.
- `parent_stale_overlay` (a violation): the same instance. A selected worktree
  that was deleted closes the overlay, and nobody tells the bridge.
- `tray_panes`: up to three panes and three splits (one more than the panes
  need, since some edits hold an extra one for a step), every pane command, exits
  of any panes in any order, a terminal with room for its separators and one
  without. Three panes are enough for a range inside a split, for a split within
  a split, for a move between levels and for a swap across levels. `Full` is 4 and
  `Step` 2 so that sharing rounds and resizing reaches zero within few states; that the numbers are 100 and 5 in the code matters to
  no property. States that differ only in which panes and splits stand where are
  one state under the view `UpToNames`: it names every node by its path, nothing
  in the model compares identities otherwise, and no property tells them apart.
- `tray_nesting` (a violation): the percentages of the code and one size. A move
  onto the edge of a group nests a split in one of its own axis.
- `worktree_overlay`: two repositories, a registry that is empty, holds both and
  a worktree, or cannot be read, no or one other anonymous tray, single keys and
  the pairs of keys that meet two stages in one batch, and at most five pieces of
  fzf's output unread: a whole report of four pieces and a fifth, so that a read
  can end anywhere in a report and before or after something else.
- `browser_bridge`: two browsers, two messages over the three channels, two
  payloads, one of them possibly invalid. Two messages on a backlog of one trim
  it; a terminal pipe of two pieces lets one read take two messages, and one piece
  elsewhere makes every write block and every read end inside a message. One
  message fits between bridge and browser, so a browser that is behind blocks the
  reader.
  The valid payloads of the run go to the PTY. That payloads to the view
  socket arrive whole is proved (`PayloadsStayWhole`); that they are not stuck
  behind output is checked by no run, all three kinds at once being beyond TLC's
  time. The socket is one more pipe under the same `parent_input_mutex`, written
  and read by the same actions; putting `"viewport"` in the place of `"keys"` in
  the cfg checks it.

`CHECK_DEADLOCK` is off in the three `ParentLoop` configurations, where the loop
can be stopped by a signal or end by an exception, and in `BrowserBridge.cfg`,
where the browsers may be gone and the parent silent. The other systems never
stop.

Fairness is assumed in `TrayManager`, `ParentLoop` and `BrowserBridge`. In
`BrowserBridge` the parent finishes what it writes and reads what it is sent
(`ParentStep`; one thread that alternates between the two), the reader and each
client's thread run (`ReaderStep`, `ThreadStep`), and an open browser receives
(`Receives`). The last is an assumption about browsers, not about the code: a
browser that keeps its connection open and stops reading stalls the bridge for
everyone, as the hazard at `pty_websocket_hub.cc:145` says. Weak fairness of the
threads is enough although `std::mutex` is not fair, since there are finitely
many contenders with finitely much to do in front of any of them. Nothing is
assumed about when the parent has output and browsers connect, send or close.
In `ParentLoop` it is
`WF_vars(Step)`, `Step` being what the loop does without being asked: there is
one thread, it waits in `poll`, which times out, and a batch of input is finite,
so a loop that can go on does. This takes for granted that the calls inside a
handler return: a write to a program that does not read, and the wait for a child
that ignores SIGHUP, are listed as hazards. In `TrayManager`, the event loop calls
`destroy_exited_trays` at the top of every iteration, its poll times out after
50 ms, and the call runs to its end. Nothing is assumed of users, shells or
helpers. `RegistryStore` and `WorktreeOps` have no fairness and no liveness
property: a helper may be killed at any time. Nor have `TrayPanes` and
`WorktreeOverlay`, which only answer their user.

Every property has a mutant in `PROJECT.json`: a definition changed the way a
bug would change the code, under which TLC finds that property violated. The
mutants stand before the definition they change, marked `Mutant:`.

## Proofs

TLAPS checks, for every value of the constants:

- `TrayManager_proofs`: all the safety properties of the run, and the refinement
  to `TraySwitching`. The inductive invariant is the conjunction of the
  run's invariants and that the active tray is open: type correctness needs that a tray has a pane as long as it is
  open, that needs that only gone trays are on the list, and the active tray's
  size and overlay need that it is open. Constants: at least one anonymous tray
  and pane, worktree roots are not numbers.
- `RegistryStore_proofs`: the invariants, that a save which returned survives
  every crash (`AcknowledgedSavesSurvive`), and the refinement to
  `RegistryRegister`, for any number of writers. The strengthening says which
  versions are intact and durable: every version up to `head` is intact, a
  writer in front of its rename has flushed its file, what is acknowledged is
  not later than what is durable, and a writer's own version is not later than
  `head`.
- `WorktreeOps_proofs`: type correctness for any set of processes, which includes
  that each loaded copy of the registry stays a registry. The others hold only when
  operations do not overlap: `RegisteredRootsAreWhole`, `EntriesAreNeverDropped`,
  `UnsavedWorktreesAreAdoptable`, `ProvisioningIsExact` and `RemovalIsComplete`
  are proved under the assumption `Alone` (any two processes of `Procs` are
  equal), and `worktree_lost_update` refutes the second without it. For the last
  three the strengthening is `TreeInv`: what git lists is the derived path of its
  branch under a registered root, and at each command of an operation, what its
  earlier commands did is still so. `Removing` says it for a removal: it has a
  branch only if git listed the worktree, it prunes only if the directory is
  gone, it comes to the branch only if list and directory are, and to the save
  only if the branch is as well. Nothing relates the disk to git's list outside a
  removal, since a failed one may leave either without the other.
- `ParentLoop_proofs`: all the safety properties of the run and the refinement
  to `TraySwitching`, for any trays, panes and overlays. None of them is
  inductive. The strengthening `IInv` says what each phase may rely on: open
  trays have panes, and their exited shells are among them (`Shells`); a tray on
  the list of exited trays has not been touched since it was listed (`Listed`);
  what was remembered is open until the batch destroys a tray (`Remembered`);
  the bridge is behind only between reaping and the publication that follows it
  (`Published`). One lemma per action shows that the invariant is kept, that the
  trays move as `TraySwitching` allows and that only trays go that may.
- `BrowserBridge_proofs`: `BridgeIsSound` for any number of clients and any
  capacities. That payloads are whole is not inductive: the strengthening
  `InputInv` says that one thread writes at a time, that a thread which has
  written nothing finds every stream at the end of a payload, and that one which
  has written the first half finds its half at the end of its stream. The parent
  takes halves from the front meanwhile, two of which are one payload (`Reading`).
  And `NothingIsLostOnTheWay`, for any backlogs, capacities and numbers of clients
  and messages. The property flattens the messages on the way into one sequence of
  numbers, which no step's proof could follow. The strengthening `WayInv` says
  instead where each stretch of the way begins and ends: `Carries(k, m, lo, hi)`
  says that the messages `m` lead channel `k` from number `lo` to number `hi`, by a
  mark for each message that says how far it leads. What is read in part, piped and
  being written is one flow of pieces up to the newest (`FlowInv`); what is kept
  ends where the not yet kept begins, so a greeting joins the broadcast that
  follows it (`HubInv`); `state_mutex` keeps a greeting and a broadcast apart, and
  no client is sent to before it is registered (`RegisterInv`); to each registered
  browser, what it shows, its socket, greeting and pending messages are stretches
  that meet (`ClientInv`). One lemma per action keeps it, and `WayIsWhole` derives
  the property. `Complete`, `RemoveFirst` and the flattening are reasoned about by
  the least position at which a claim fails, instead of by induction. The only
  assumption used on the constants is that every backlog holds at least a message.
- `WorktreeOverlay_proofs`, first the picker: what it keeps and what is still
  unread form one stream of whole reports, the last of which is fzf's highlight
  (`Follows`). A read cut anywhere leaves that so (`ReadFollows`), and when nothing
  is unread the shown highlight is fzf's (`AllReadIsShown`). Where such an argument
  would use induction along the stream, it takes the least piece that breaks the
  claim, since the order of the naturals is well-founded (`NatLessThanWellFounded`).
  Then the four properties of the overlay's run that are not type correctness, for
  any registries, announced trays and batches of keys. The
  inductive invariant `OverlayInv` joins to them the inputs each stage has
  collected, that a helper runs exactly in the running stage and for the path that
  the form says, that the picker lists what the mode offers, and `PathPicker`'s
  agreement with fzf. One lemma per operation keeps it. The assumption on the
  constants, `ListsAssumption`, is their types: registries and announcements are
  sequences of trays, none of which is the absence of one, and batches are
  sequences of keys.
- `PaneTree_proofs`: what the edits of a pane tree do, for any numbers of panes
  and splits. Apportioned shares are never negative and add up to their total,
  whatever the weights (`DistributeTotals`). `Grove(l, tops, thin)` says that the
  parent links and the lists of children of layout `l` agree and lead to the nodes
  `tops` and nowhere around, that the shares of every split add up to the whole,
  and that every split has two children or more, except the splits `thin`. The two
  sets are there because an edit is a sequence of steps: a subtree which was taken
  out to be moved is a second top, and the split it came from may be thin until
  `dissolve_split`. There is a lemma for each step, and from them one for each
  operation: splitting, removing, rotating, resizing, moving and swapping take a
  tree to a tree of the same panes, up to the one they add or remove. That links go
  nowhere around is said without recursion: a set of nodes that contains the parent
  of each of its nodes is empty. The recursive `Above`, `Leaves` and `Regions` are
  reasoned about by the solutions of their equations, which exist and agree since a
  largest set of nodes on which they do leaves out no node. `LeavesAre` gives that
  the leaves are the panes, each of them once, `RegionsAre` that every node has a
  region, `NeighbourIs` that the directional search ends at a pane of the tree.
- `TrayPanes_proofs`: all of the run's invariants and action properties, for any
  numbers of panes and splits and any sizes.
  `PanesInv` has what does not depend on the tree: the sizes of the PTYs
  (`PtySizesMatchLayout`), that maximized view, selection and move exclude each
  other, and that a move has what its stage's preview dereferences
  (`MoveHasWhatItNeeds`). Every action either sets the layout and resizes the
  panes, or changes nothing the sizes depend on, so the edits stay folded.
  `TreeInv` has the tree: the layout is a grove with one top and no thin split
  whose panes are the live ones, with the focus among them (`Settled`); a selection
  is the root or a range of siblings with its ends as anchor and active node
  (`Picked`); a move's source is such a range, and its target is apart from all of
  it (`Moving`); and only a swap in a layout with nested axes has failed
  (`PhaseOK`). Neither of the properties is inductive by itself: the share that an
  edit hands on depends on the lists of children being lists of the links, the
  range that a rotation selects on the tree it rotates, and that a swap in a
  layout without nested axes cannot throw on the two ends being apart. Both
  invariants are kept with one lemma per action; `TypeOK`, `LayoutIsSound`,
  `InteractionIsLive` and `FailsOnlyWhenNested` follow. Of the constants they use
  `SizesAssumption`, that a tray has at least one row and column, which is
  `sanitized_terminal_size` (`workspace_parent.cc:101`), and those of `PaneLayout`
  and `PaneEditing`; and, as a hypothesis of each theorem, `SplitsNeverRunOut`: that
  there are infinitely many identities for splits. In the code they come from
  a counter of 64 bits that throws rather than turn back (`pane_layout.cc:317`); a
  run of TLC gives as many as its panes can need.

  Four more properties follow from `TreeInv`:

  - `RegionsTile`. `CutUp` has where the pieces of a split's region begin and how
    wide they are (`Marks`), sums of the apportioned shares and of the separators
    between them: each cell of the region is in one piece or in one separator
    (`SplitTiles`). So of the nodes whose regions have a given cell no two are
    siblings, they stand above each other (`OneLineUp`), and below the deepest of
    them there is nothing: it is a pane, or the split whose separator has the cell
    (`CellIsShared`).
  - `OthersKeepTheirOrder` and `MovesLand`. A pane stands before another in the
    list of leaves exactly when, below some split, it hangs from a child that
    stands before the child the other one hangs from (`Left`, `LeavesPrecede`). So
    the order is a matter of the parent links and of the lists of children one by
    one, and for each edit it is enough that a list keeps its order and that what
    was above a node either is still above it or is gone (`Keeps`, `Edited`). From
    the edits' lemmas come those of a whole move and of a whole swap, whatever
    splits were wrapped, flattened or dissolved on the way: `MoveMoves` (the source
    stands beside the target, everything else keeps its order) and `SwapSwaps` (the
    panes of the two nodes have changed places).
  - `RotatingTwiceRestoresShape`. A turn makes a group of siblings or opens one:
    `GroupOf(a, b, p, g, i, n)` says that `b` is the tree `a` with `n` children of
    `p` put below `g`. `rotate_sibling_range` goes one way (`RangeIsGroup`),
    `flatten_matching_split_children` the other (`FlattenIsGroup`), the nodes at or
    below the group are the same in both trees, so their axes turn twice, and trees
    with a group of the same children are the same but for its name (`TwoGroups`,
    `TwoUngrouped`). Names do not matter to `Shape` (`TwinShapes`). That no split is
    nested in one of its own axis is needed: otherwise flattening opens more than
    the group that was turned.
- No theorem uses more than the named assumptions on the constants, and `Alone`
  and `SplitsNeverRunOut` where they are named.

`ActiveTrayIsOpen` and `SavesSurvive` are proved but in no run of their own: the
refinements `Refines`, which the runs check, fail with them.

Only model-checked: `ExitedShellsAreReaped`, `ExitsAreServed` and
`InputReachesTheParent` (liveness is beyond TLAPS here).

## Disagreements with the repository's documents

1. `plan/implementation/worktree-tray-plan.md:366`: "Never silently delete
   persisted repository or worktree entries." Operations of two overlays, or of
   an overlay and a removal, overlap without a lock (`worktree_lost_update`).
2. `worktree-tray-plan.md:177-184`: creating a repository must configure
   fetching of remote branches and fetch the remote. A retry after a failure of
   either skips both (`worktree_retry_config`).
3. `plan/implementation/pane-story-plan.md:170-171`: "close/child exit leaves
   surviving panes usable." The output of a pane that was closed in the same
   iteration is looked up, which throws out of the loop and ends the parent with
   all its panes (`parent_survives`).
4. `plan/architecture/browser-bridge-protocol.md:81`: the browser's "interaction
   state come from the parent status event". When a switch to a selected worktree
   fails, the overlay has been closed and no status is published
   (`parent_stale_overlay`).
5. `pane-story-plan.md:35`: a split never directly contains one of its own axis.
   A drop onto a group whose axis the drop shares nests them (`tray_nesting`), and
   in such a layout a swap can throw out of the loop; `FailsOnlyWhenNested` shows
   that nothing else makes one throw.

Read in the code and not the subject of a run:

- `pane-story-plan.md:124-125`: rotating a selection twice "restores the original
  hierarchy and percentages". `RotatingTwiceRestoresShape` shows it of the
  hierarchy; the percentages are rounded when a group is flattened and wrapped
  again.
- A registry that cannot be read is shown as "No registered repositories" in the
  add-worktree mode (`worktree_management_overlay.cc:301-307`, `385-389`).
- `browser-bridge-protocol.md:56-57`: the browser "retains one xterm.js instance
  for each pane ID". Statuses and pane output are separate channels, so the output
  of a new pane can arrive before the status that has it, and a status sent
  earlier then disposes the pane's terminal (`browser_client_js.cc:427`).
- Within one input batch a published status hides that a later literal changed the
  overlay's mode and with it the first opaque row (`workspace_parent.cc:271`,
  `browser-bridge-protocol.md:66-69`).

## Not modelled, and the plan

What would come next, in this order:

1. `InputDecoder`, `Utf8Prefix`, `ControlSequences` and the line fill tracker:
   incremental decoders against whole-input references over bounded inputs.
   `BrowserBridge` and `PathPicker` have the one property of them the rest relies
   on, that a cut input is put together again.
2. The end of the bridge and of its parent: detached threads, the reader on
   hung-up descriptors.
3. The browser client's pane terminals under statuses and output that overtake
   each other, its reconnection, and keys that it classifies with the last status.
4. Proofs: what a rotation may do to the percentages when it is taken back, and
   how far a resize moves a share.

Left out for good: the terminal screen's cells and colours, wording, JSON, HTTP
and HTML text, the browser's layout and style code, key bindings, the HTTPS proxy
and the service scripts.
