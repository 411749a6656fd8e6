SPECIFICATION FairSpec
CONSTANTS
  Types <- MCTypes
  Shape <- MCShape
  ProblemDetails = "problem"
  Unknown = Unknown
  Keys <- MCKeys
  Inline = Inline
  PropertyNames <- MCPropertyNames
  Methods <- MCMethods
  Segments <- MCSegments
  Tags = {"get", "files", "create", "import", "raw", "all", "list", "exact"}
  None = None
  OperationLists <- MCLists
  MaxDepth = 12
INVARIANTS TypeOK PlaceholdersAreOpen OverflowsOnEndlessTypes
PROPERTIES KeepsDocument Finishes
CHECK_DEADLOCK FALSE
