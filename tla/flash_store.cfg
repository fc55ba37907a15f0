SPECIFICATION Spec
CONSTANTS
  Values = {v0, v1}
  DefaultValue = v0
  Writable = {"OUT", "VAR"}
INVARIANTS TypeOK CommittedIsWhole UnmarkedIsSaved
PROPERTIES ImplementsPageStore SavedInTurn
