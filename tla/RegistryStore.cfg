SPECIFICATION Spec
CONSTANTS
  Writers = {w1, w2}
  MaxVersion = 4
INVARIANTS
  TypeOK
  RegistryIsNeverTorn
  TemporaryFilesHaveAnOwner
PROPERTIES
  Refines
