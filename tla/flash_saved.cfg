SPECIFICATION FairSpec
CONSTANTS
  Values = {v0, v1}
  DefaultValue = v0
  Writable = {"VAR"}
PROPERTY MarkedIsSaved
