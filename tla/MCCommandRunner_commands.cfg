SPECIFICATION Spec
CONSTANTS
  Files = {roadmap, history}
  MaxWrites = 2
  Foreign = Foreign
  Irregular = Irregular
  Faults = {"overlap"}
INVARIANTS OwnedFilesAreKept
