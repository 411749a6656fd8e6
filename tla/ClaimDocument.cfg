SPECIFICATION Spec
CONSTANTS
  Types <- MCTypes
  Shape <- ClaimShape
  ProblemDetails = "problem"
  Unknown = Unknown
  Keys <- MCKeys
  Inline = Inline
  PropertyNames <- MCPropertyNames
  Methods <- MCMethods
  Segments <- MCSegments
  Tags = {"get", "files", "create", "import", "raw", "all", "list", "exact"}
  None = None
  OperationLists <- ClaimLists
  MaxDepth = 12
INVARIANT IsFaithful
CHECK_DEADLOCK FALSE
