SPECIFICATION Spec
CONSTANTS
  Repositories = {"r1", "r2"}
  Names = {"x", "y"}
  Registries <- SmallRegistries
  SessionLists <- SmallSessions
  Batches <- SomeBatches
  MaxOutput = 5
  MaxSequence = 3
INVARIANTS
  WorkflowIsSound
  PickerShowsTheTrays
  HighlightFollowsFocus
PROPERTIES
  OpensOnlyWhatWasChosen
