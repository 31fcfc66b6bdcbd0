---------------------------- MODULE WorktreeOverlay ----------------------------
(***************************************************************************)
(* The worktree management overlay of one tray                             *)
(* (src/src/parent/worktree/overlay/worktree_management_overlay.cc): its   *)
(* three modes, the stages of their forms, the path picker, the helper     *)
(* process that registers a repository or provisions a worktree, and the   *)
(* question about the highlighted tray.                                    *)
(*                                                                         *)
(* The registry is read anew by every list the overlay builds, and other   *)
(* parents write it: each load returns one of Registries or throws.        *)
(***************************************************************************)
EXTENDS PathPicker, SequencesExt

CONSTANTS
  Repositories,   \* the roots a registry can hold
  Names,          \* the texts a form accepts: branches, directories, clone URLs
  Registries,     \* what a load can return: [repositories, worktrees], two sequences
  SessionLists,   \* the anonymous trays a tray manager can announce: sequences of ids
  Batches,        \* the inputs that one write_input can bring: sequences of Key
  MaxOutput,      \* how many pieces fzf may be ahead of the parent
  MaxSequence     \* how many bytes of an unended escape sequence are told apart

Switch == "SWITCH_WORKTREE"
AddWorktree == "ADD_WORKTREE"
AddRepository == "ADD_REPOSITORY"
Mode == {Switch, AddWorktree, AddRepository}

\* The keys of an input: "digit" is a byte of 0x30-0x3F, "Z" stands for every
\* final byte of an escape sequence, "delete" for the editing control bytes.
Key == {"tab", "escape", "[", "Z", "digit", "enter", "delete"}
IsFinal(key) == key \in {"[", "Z"}

\* Tray ids, and what a text field holds: nothing, a text that is refused, or one
\* that is accepted.
NoTray == <<>>
WorktreeTray(repository, branch) == <<"worktree", repository, branch>>
NoPath == "none"
Text == Names \cup {"empty", "refused"}
Unreadable == [repositories |-> <<>>, worktrees |-> <<NoTray>>]
Load == Registries \cup {Unreadable}

Field == {"WORKTREE_BRANCH", "REPOSITORY_ROOT", "REPOSITORY_CLONE_URL"}

NoHelper == [process |-> "null", path |-> NoTray, result |-> "none"]

\* The trays that a list of the Worktrees mode can offer: tracked worktrees and the
\* session's anonymous trays, all of them with an identifier.
ListedTrays ==
  (UNION {ToSet(registry.worktrees) : registry \in Registries})
    \cup UNION {ToSet(trays) : trays \in SessionLists}

ASSUME ListsAssumption ==
  /\ Registries \subseteq [repositories : Seq(Repositories), worktrees : Seq(ListedTrays)]
  /\ SessionLists \subseteq Seq(ListedTrays)
  /\ NoTray \notin ListedTrays
  /\ Batches \subseteq Seq(Key)

VARIABLES
  open,     \* the tray has an overlay
  overlay,  \* its fields
  inbox,    \* the bytes that write_input has still to handle
  sequence  \* the bytes that write_mode_input has still to hand to the form
vars == <<open, overlay, inbox, sequence>>

-----------------------------------------------------------------------------
(* The workflow state *)

Stage(o) == CASE o.mode = Switch -> "SWITCH_WORKTREE"
              [] o.mode = AddWorktree -> o.worktree_stage
              [] o.mode = AddRepository -> o.repository_stage

SetStage(o, stage) ==
  IF o.mode = AddWorktree THEN [o EXCEPT !.worktree_stage = stage]
                          ELSE [o EXCEPT !.repository_stage = stage]

CycledMode(mode, direction) ==
  LET next == [m \in Mode |-> CASE m = Switch -> AddWorktree
                                [] m = AddWorktree -> AddRepository
                                [] m = AddRepository -> Switch]
  IN  IF direction = "NEXT" THEN next[mode] ELSE CHOOSE m \in Mode : next[m] = mode

\* explained holds the modes that have an error message.
Explain(o, mode) == [o EXCEPT !.explained = @ \cup {mode}]
Clear(o, mode) == [o EXCEPT !.explained = @ \ {mode}]

\* WorktreeOverlayWorkflowState::cycle_mode resets the stages, the fields and the
\* messages of every mode.
FreshWorkflow(o, mode) ==
  [o EXCEPT !.mode = mode, !.worktree_stage = "WORKTREE_REPOSITORY",
            !.repository_stage = "REPOSITORY_ROOT", !.explained = {},
            !.text = [f \in Field |-> "empty"]]

-----------------------------------------------------------------------------
(* The lists and their pickers.  A list is built with env: the registry    *)
(* that the second load returns, those of its worktrees that were in the   *)
(* first load and that Git reports live, and whether fzf and its pipes     *)
(* could be started and fed.                                               *)

Env == UNION {[registry : {registry}, started : BOOLEAN,
               live : SUBSET {registry.worktrees[i] : i \in DOMAIN registry.worktrees}]
                : registry \in Load}

Candidates(o, env) ==
  [i \in DOMAIN env.registry.worktrees |->
     [tray |-> env.registry.worktrees[i], available |-> env.registry.worktrees[i] \in env.live]]
  \o [i \in DOMAIN o.session_trays |-> [tray |-> o.session_trays[i], available |-> TRUE]]

Trays(candidates) == [i \in DOMAIN candidates |-> candidates[i].tray]

\* PathPickerOverlay::start either returns a picker or throws: the overlay keeps
\* what it had and shows why.
OpenPicker(o, mode, entries, started) ==
  IF started THEN [Clear(o, mode) EXCEPT !.picker = Started(entries)] ELSE Explain(o, mode)

ListCandidates(o, candidates, started) ==
  IF candidates = <<>> THEN Explain([o EXCEPT !.candidates = <<>>], Switch)
  ELSE OpenPicker([o EXCEPT !.candidates = candidates], Switch, Trays(candidates), started)

StartSwitchPicker(o, env) ==
  IF env.registry = Unreadable THEN Explain(o, Switch)
  ELSE ListCandidates(o, Candidates(o, env), env.started)

StartRepositoryPicker(o, started) ==
  IF o.repositories = <<>> THEN Explain(o, AddWorktree)
  ELSE OpenPicker(o, AddWorktree, o.repositories, started)

LoadRepositories(o, registry) ==
  [(IF registry.repositories = <<>> THEN Explain(o, AddWorktree) ELSE Clear(o, AddWorktree))
     EXCEPT !.repositories = registry.repositories]

ActivateMode(o, env) ==
  LET entered == [o EXCEPT !.picker = NoPicker, !.keys = <<>>, !.editing = "NORMAL"] IN
  CASE o.mode = Switch -> StartSwitchPicker(entered, env)
    [] o.mode = AddWorktree /\ Stage(o) = "WORKTREE_REPOSITORY" ->
         StartRepositoryPicker(entered, env.started)
    [] OTHER -> entered

\* Mutant of Abandon: the helper of the form that was left is kept.
Abandon_KeepsHelper(o) ==
  [o EXCEPT !.selected_repository = NoPath, !.repository_root = NoPath,
            !.pending_worktree_path = NoTray, !.confirmation = NoTray]
Abandon(o) ==
  [o EXCEPT !.selected_repository = NoPath, !.repository_root = NoPath,
            !.pending_worktree_path = NoTray, !.confirmation = NoTray, !.helper = NoHelper]

CycleMode(o, direction, registry, env) ==
  ActivateMode(
    LoadRepositories(FreshWorkflow(Abandon(o), CycledMode(o.mode, direction)), registry), env)

-----------------------------------------------------------------------------
(* Start and end *)

Blank ==
  [mode |-> Switch, worktree_stage |-> "WORKTREE_REPOSITORY",
   repository_stage |-> "REPOSITORY_ROOT", explained |-> {},
   text |-> [f \in Field |-> "empty"], repositories |-> <<>>,
   selected_repository |-> NoPath, repository_root |-> NoPath,
   pending_worktree_path |-> NoTray, candidates |-> <<>>, session_trays |-> <<>>,
   picker |-> NoPicker, helper |-> NoHelper, confirmation |-> NoTray,
   tray_to_open |-> NoTray, keys |-> <<>>, editing |-> "NORMAL"]

Handled == inbox = <<>> /\ sequence = <<>>
\* The parent waits: the loop opens the tray to open before anything else.
Ready == open /\ Handled /\ overlay.tray_to_open = NoTray

Init == open = FALSE /\ overlay = Blank /\ inbox = <<>> /\ sequence = <<>>

Open(trays, registry, env) ==
  /\ ~open
  /\ open' = TRUE
  /\ overlay' = ActivateMode(LoadRepositories([Blank EXCEPT !.session_trays = trays], registry), env)
  /\ UNCHANGED <<inbox, sequence>>

Close ==
  /\ open' = FALSE
  /\ overlay' = Blank
  /\ UNCHANGED <<inbox, sequence>>

\* The user toggles the overlay, or its tray is destroyed.
Dismiss == Ready /\ Close

TakeTrayToOpen == open /\ overlay.tray_to_open # NoTray /\ Close

-----------------------------------------------------------------------------
(* Input *)

\* The helper owns the keyboard while it runs: that is asked once per input.
WriteInput(keys) ==
  /\ Ready
  /\ inbox' = IF Stage(overlay) = "RUNNING" THEN <<>> ELSE keys
  /\ UNCHANGED <<open, overlay, sequence>>

Consume == inbox # <<>> /\ sequence = <<>> /\ inbox' = Tail(inbox) /\ UNCHANGED open

\* write_mode_switch_input: Tab and the whole sequence ESC [ Z change the mode ...
CyclingKey(direction) ==
  \/ direction = "NEXT" /\ overlay.keys = <<>> /\ Head(inbox) = "tab"
  \/ direction = "PREVIOUS" /\ overlay.keys = <<"escape", "[">> /\ Head(inbox) = "Z"

CycleByKey(direction, registry, env) ==
  /\ Consume
  /\ CyclingKey(direction)
  /\ overlay' = CycleMode(overlay, direction, registry, env)
  /\ UNCHANGED sequence

\* ... an escape sequence is collected ...
Collects(key) ==
  \/ overlay.keys = <<>> /\ key = "escape"
  \/ overlay.keys = <<"escape">> /\ key = "["
  \/ Len(overlay.keys) > 1 /\ ~IsFinal(key)

CollectKey ==
  /\ Consume
  /\ Collects(Head(inbox))
  /\ overlay' = [overlay EXCEPT
                   !.keys = IF Len(@) < MaxSequence THEN Append(@, Head(inbox)) ELSE @]
  /\ UNCHANGED sequence

\* ... and everything else goes to write_mode_input: to fzf, to the closed selector
\* of the Worktrees mode, where Enter reopens it, or byte by byte to the form.
PassedOn == Append(overlay.keys, Head(inbox))
Passes ==
  /\ Consume
  /\ \A direction \in {"NEXT", "PREVIOUS"} : ~CyclingKey(direction)
  /\ ~Collects(Head(inbox))

PassKeys ==
  /\ Passes
  /\ ~ (Stage(overlay) = "SWITCH_WORKTREE" /\ overlay.picker = NoPicker
        /\ \E i \in DOMAIN PassedOn : PassedOn[i] = "enter")
  /\ overlay' = [overlay EXCEPT !.keys = <<>>]
  /\ sequence' = IF overlay.picker # NoPicker \/ Stage(overlay) \in {"RESULT", "SWITCH_WORKTREE"}
                 THEN <<>> ELSE PassedOn

ReopenSelector(env) ==
  /\ Passes
  /\ Stage(overlay) = "SWITCH_WORKTREE" /\ overlay.picker = NoPicker
  /\ \E i \in DOMAIN PassedOn : PassedOn[i] = "enter"
  /\ overlay' = StartSwitchPicker([overlay EXCEPT !.keys = <<>>], env)
  /\ UNCHANGED sequence

-----------------------------------------------------------------------------
(* The forms: write_editing_input, one byte of the sequence at a time *)

Edits == sequence # <<>> /\ sequence' = Tail(sequence) /\ UNCHANGED <<open, inbox>>
SetEditing(state) == overlay' = [overlay EXCEPT !.editing = state]

EditSequence(key) ==
  \/ overlay.editing = "ESCAPE"
     /\ SetEditing(IF key = "[" THEN "CONTROL_SEQUENCE" ELSE "NORMAL")
  \/ overlay.editing = "CONTROL_SEQUENCE" /\ key = "digit" /\ UNCHANGED overlay
  \/ overlay.editing = "CONTROL_SEQUENCE" /\ ~IsFinal(key) /\ key # "digit" /\ SetEditing("NORMAL")
  \/ overlay.editing = "NORMAL" /\ key = "escape" /\ SetEditing("ESCAPE")

\* The cursor keys and Delete, which keeps an error message.
EditAtCursor(key, text) ==
  /\ overlay.editing = "CONTROL_SEQUENCE" /\ IsFinal(key)
  /\ overlay' = IF Stage(overlay) \in Field
                THEN [overlay EXCEPT !.editing = "NORMAL", !.text[Stage(overlay)] = text]
                ELSE [overlay EXCEPT !.editing = "NORMAL"]

Submits == Edits /\ overlay.editing = "NORMAL" /\ Head(sequence) = "enter"

\* Insertion and Backspace, which clear the message; a stage without a field ignores them.
EditText(key, text) ==
  /\ overlay.editing = "NORMAL" /\ key \notin {"escape", "enter"}
  /\ overlay' = IF Stage(overlay) \in Field /\ key # "tab"
                THEN Clear([overlay EXCEPT !.text[Stage(overlay)] = text], overlay.mode)
                ELSE overlay

EditForm == Edits /\ \/ EditSequence(Head(sequence))
                     \/ \E text \in Text : \/ EditAtCursor(Head(sequence), text)
                                           \/ EditText(Head(sequence), text)

\* WorktreeOverlayProcess::start: the helper runs, or starting it throws and the form
\* shows why.
StartHelper(o, path, started) ==
  IF started
  THEN SetStage([o EXCEPT !.helper.process = "running", !.helper.path = path], "RUNNING")
  ELSE Explain(o, o.mode)

SubmitNothing == Submits /\ Stage(overlay) \in {"RUNNING", "RESULT"} /\ UNCHANGED overlay

SubmitWorktreeRepository(started) ==
  /\ Submits
  /\ Stage(overlay) = "WORKTREE_REPOSITORY"
  /\ overlay' = IF overlay.selected_repository = NoPath
                THEN StartRepositoryPicker(overlay, started)
                ELSE SetStage(Clear(overlay, AddWorktree), "WORKTREE_BRANCH")

\* derived_worktree_path refuses an empty or malformed branch.
SubmitWorktreeBranch(started) ==
  LET branch == overlay.text["WORKTREE_BRANCH"]
      path == WorktreeTray(overlay.selected_repository, branch) IN
  /\ Submits
  /\ Stage(overlay) = "WORKTREE_BRANCH"
  /\ overlay' = IF overlay.selected_repository = NoPath \/ branch \notin Names
                THEN Explain(overlay, AddWorktree)
                ELSE StartHelper(
                       Clear([overlay EXCEPT !.pending_worktree_path = path], AddWorktree),
                       path, started)

\* inspect_repository_root finds an empty root, finds another one, or throws.
SubmitRepositoryRoot(inspected, started) ==
  LET root == overlay.text["REPOSITORY_ROOT"]
      resolved == [overlay EXCEPT !.repository_root = root]
      accepted == Clear(resolved, AddRepository) IN
  /\ Submits
  /\ Stage(overlay) = "REPOSITORY_ROOT"
  /\ overlay' = CASE root \notin Names -> Explain(overlay, AddRepository)
                  [] root \in Names /\ inspected = "throws" -> Explain(resolved, AddRepository)
                  [] root \in Names /\ inspected = "EMPTY" ->
                       SetStage(accepted, "REPOSITORY_CLONE_URL")
                  [] root \in Names /\ inspected = "other" ->
                       StartHelper(accepted, NoTray, started)

SubmitCloneUrl(started) ==
  /\ Submits
  /\ Stage(overlay) = "REPOSITORY_CLONE_URL"
  /\ overlay' = IF overlay.text["REPOSITORY_CLONE_URL"] = "empty"
                THEN Explain(overlay, AddRepository)
                ELSE StartHelper(Clear(overlay, AddRepository), NoTray, started)

-----------------------------------------------------------------------------
(* The children: they run whenever they want *)

Child(o) == overlay' = o /\ UNCHANGED <<open, inbox, sequence>>

FzfFocuses(i) ==
  /\ Writes(overlay.picker, Notification(i), MaxOutput)
  /\ i < Len(overlay.picker.listed)
  /\ i # overlay.picker.focus
  /\ Child([overlay EXCEPT !.picker = Focused(@, i)])

FzfDraws ==
  /\ Writes(overlay.picker, <<Screen>>, MaxOutput)
  /\ Child([overlay EXCEPT !.picker = Drawn(@)])

FzfExits(how) ==
  /\ overlay.picker.process = "running"
  /\ Child([overlay EXCEPT !.picker = Exited(@, how)])

HelperExits(how) ==
  /\ overlay.helper.process = "running"
  /\ Child([overlay EXCEPT !.helper.process = how])

-----------------------------------------------------------------------------
(* The loop serves the overlay's child: read_process_output, then           *)
(* refresh_process_state                                                    *)

HasChild == overlay.picker # NoPicker \/ overlay.helper.process # "null"

\* The picker's entry was chosen: by index in the Worktrees mode, by path in the other.
\* Mutant of Chosen: what was listed as unavailable opens too.
Chosen_EvenUnavailable(o, picker, env) ==
  [o EXCEPT !.tray_to_open = o.candidates[picker.focus + 1].tray]
Chosen(o, picker, env) ==
  IF picker.focus >= Len(o.candidates) THEN Explain(o, Switch)
  ELSE IF ~o.candidates[picker.focus + 1].available
       THEN StartSwitchPicker([o EXCEPT !.confirmation = NoTray], env)
  ELSE Clear([o EXCEPT !.tray_to_open = o.candidates[picker.focus + 1].tray], Switch)

ChosenRepository(o, path) ==
  SetStage(Clear([o EXCEPT !.selected_repository = path], AddWorktree), "WORKTREE_BRANCH")

PickerDone(o, picker, env) ==
  CASE ~Selects(picker) -> Explain(o, o.mode)
    [] Selects(picker) /\ o.mode = Switch -> Chosen(o, picker, env)
    [] Selects(picker) /\ o.mode = AddWorktree ->
         ChosenRepository(o, picker.listed[picker.focus + 1])

HelperDone(o, how) ==
  SetStage([o EXCEPT !.helper.process = "null", !.helper.result = how,
                     !.tray_to_open = IF how = "succeeded" /\ o.mode = AddWorktree
                                      THEN o.pending_worktree_path ELSE @], "RESULT")

Refreshed(o, env) ==
  CASE Finished(o.picker) -> PickerDone([o EXCEPT !.picker = NoPicker], o.picker, env)
    [] o.picker = NoPicker /\ Stage(o) = "RUNNING" /\ o.helper.process \in {"succeeded", "failed"} ->
         HelperDone(o, o.helper.process)
    [] OTHER -> o

ServeChild(read, env) ==
  /\ Ready
  /\ HasChild
  /\ overlay' = Refreshed([overlay EXCEPT !.picker = Read(@, read)], env)
  /\ UNCHANGED <<open, inbox, sequence>>

-----------------------------------------------------------------------------
(* The dispatcher and the tray manager *)

Update(o) == Ready /\ overlay' = o /\ UNCHANGED <<open, inbox, sequence>>

\* update_session_trays: a tray list that differs rebuilds the visible picker, and
\* leaves the question open.
\* Mutant of SessionTrays: the picker that is on the screen stays.
SessionTrays_Quietly(o, trays, env) == [o EXCEPT !.session_trays = trays]
SessionTrays(o, trays, env) ==
  LET told == [o EXCEPT !.session_trays = trays] IN
  IF o.mode = Switch /\ o.picker # NoPicker
  THEN StartSwitchPicker([told EXCEPT !.picker = NoPicker], env) ELSE told

UpdateSessionTrays(trays, env) ==
  /\ trays # overlay.session_trays
  /\ Update(SessionTrays(overlay, trays, env))

HighlightedTray ==
  IF overlay.mode = Switch /\ overlay.picker # NoPicker
     /\ overlay.picker.highlighted < Len(overlay.candidates)
  THEN overlay.candidates[overlay.picker.highlighted + 1].tray ELSE NoTray

\* BeginTrayActionCommand: the question, or the refusal to remove the protected tree.
BeginTrayAction ==
  /\ HighlightedTray # NoTray
  /\ Update([overlay EXCEPT !.confirmation = HighlightedTray])
SetPickerActionError == Update([overlay EXCEPT !.confirmation = NoTray])

RefreshedPicker(o, env) ==
  IF o.mode # Switch THEN o
  ELSE StartSwitchPicker([o EXCEPT !.confirmation = NoTray, !.picker = NoPicker], env)

\* A confirmed action that ends another tray than the active one rebuilds the list;
\* a refusal, a cancellation or a failure only ends the question.
ResolveTrayAction(confirmed, env) ==
  /\ overlay.confirmation # NoTray
  /\ Update(IF confirmed THEN RefreshedPicker([overlay EXCEPT !.confirmation = NoTray], env)
                         ELSE [overlay EXCEPT !.confirmation = NoTray])

-----------------------------------------------------------------------------
OpenOverlay ==
  \E trays \in SessionLists, registry \in Load, env \in Env : Open(trays, registry, env)
Keys == \/ \E keys \in Batches : WriteInput(keys)
        \/ \E direction \in {"NEXT", "PREVIOUS"}, registry \in Load, env \in Env :
             CycleByKey(direction, registry, env)
        \/ CollectKey
        \/ PassKeys
        \/ \E env \in Env : ReopenSelector(env)
Form == \/ EditForm
        \/ SubmitNothing
        \/ \E started \in BOOLEAN :
             \/ SubmitWorktreeRepository(started)
             \/ SubmitWorktreeBranch(started)
             \/ SubmitCloneUrl(started)
             \/ \E inspected \in {"EMPTY", "other", "throws"} :
                  SubmitRepositoryRoot(inspected, started)
Children == \/ \E i \in 0 .. Len(overlay.picker.listed) - 1 : FzfFocuses(i)
            \/ FzfDraws
            \/ \E how \in {"chose", "failed"} : FzfExits(how)
            \/ \E how \in {"succeeded", "failed"} : HelperExits(how)
Served == \E read \in 0 .. Len(overlay.picker.output), env \in Env : ServeChild(read, env)
Commands == \/ \E trays \in SessionLists, env \in Env : UpdateSessionTrays(trays, env)
            \/ BeginTrayAction
            \/ SetPickerActionError
            \/ \E confirmed \in BOOLEAN, env \in Env : ResolveTrayAction(confirmed, env)

Next == \/ OpenOverlay \/ Dismiss \/ TakeTrayToOpen
        \/ Keys \/ Form \/ Children \/ Served \/ Commands

Spec == Init /\ [][Next]_vars

-----------------------------------------------------------------------------
(* Properties *)

TypesAreRight ==
  /\ open \in BOOLEAN
  /\ overlay.mode \in Mode
  /\ overlay.worktree_stage \in {"WORKTREE_REPOSITORY", "WORKTREE_BRANCH", "RUNNING", "RESULT"}
  /\ overlay.repository_stage \in
       {"REPOSITORY_ROOT", "REPOSITORY_CLONE_URL", "RUNNING", "RESULT"}
  /\ overlay.text \in [Field -> Text]
  /\ overlay.explained \subseteq Mode

\* write_input dereferences the helper in the stage RUNNING and nowhere else.
RunningMeansAHelper == (Stage(overlay) = "RUNNING") = (overlay.helper.process # "null")

\* What a stage uses was chosen in the stages before it; a missing path would end the
\* parent with a logic_error.
StagesHaveTheirInputs ==
  /\ Stage(overlay) = "WORKTREE_BRANCH" => overlay.selected_repository \in Repositories
  /\ Stage(overlay) = "REPOSITORY_CLONE_URL" => overlay.repository_root \in Names
  /\ Stage(overlay) = "RUNNING" /\ overlay.mode = AddWorktree =>
       overlay.pending_worktree_path # NoTray
  /\ Stage(overlay) = "RUNNING" /\ overlay.mode = AddRepository =>
       overlay.repository_root \in Names
  /\ Stage(overlay) = "RESULT" => overlay.helper.result # "none"

\* A picker takes every key, so no form and no helper may be under it; a selector
\* without a picker says why.
PickersAreWhereTheyBelong ==
  LET selecting == Stage(overlay) \in {"SWITCH_WORKTREE", "WORKTREE_REPOSITORY"} IN
  /\ overlay.picker # NoPicker => selecting
  /\ open /\ selecting /\ overlay.picker = NoPicker /\ overlay.tray_to_open = NoTray =>
       overlay.mode \in overlay.explained

\* The overlay's stage, its child and what the stages before collected agree, whatever
\* the order of keys, exits and failures to start a child.
WorkflowIsSound ==
  /\ TypesAreRight
  /\ RunningMeansAHelper
  /\ StagesHaveTheirInputs
  /\ PickersAreWhereTheyBelong

\* The list on the screen is the list its indexes are resolved with, and offers the
\* session's trays as they were last announced: update_session_trays,
\* refresh_worktree_picker and start_switch_worktree_picker.
PickerShowsTheTrays ==
  overlay.mode = Switch /\ overlay.picker # NoPicker =>
    /\ overlay.picker.listed = Trays(overlay.candidates)
    /\ overlay.picker.highlighted < Len(overlay.candidates)
    /\ IsSuffix(overlay.session_trays, overlay.picker.listed)

\* Once the parent has read what fzf wrote, the preview and the question about the
\* highlighted tray mean the entry that fzf highlights, wherever the reads were cut:
\* ingest_focus_notifications.
HighlightFollowsFocus ==
  overlay.picker.output = <<>> => overlay.picker.highlighted = overlay.picker.focus

\* refresh_process_state opens a tray that was offered as available under the index fzf
\* printed, or the worktree that a successful helper was started for.
ATrayWasChosen ==
  \/ /\ overlay.mode = Switch /\ overlay.picker.process = "chose"
     /\ overlay.picker.listed[overlay.picker.focus + 1] = overlay'.tray_to_open
     /\ overlay.candidates[overlay.picker.focus + 1].available
  \/ /\ overlay.mode = AddWorktree /\ overlay.helper.process = "succeeded"
     /\ overlay.helper.path = overlay'.tray_to_open
     /\ overlay.helper.path = WorktreeTray(overlay.selected_repository,
                                           overlay.text["WORKTREE_BRANCH"])
OpensOnlyWhatWasChosen ==
  [][overlay'.tray_to_open # overlay.tray_to_open =>
       overlay'.tray_to_open = NoTray \/ ATrayWasChosen]_vars

=============================================================================
