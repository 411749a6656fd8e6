SPECIFICATION Spec
CONSTANTS
  id = id
  tag = tag
  f = f
  g = g
  word = word
  active = active
  q1 = q1
  q2 = q2
  ReasonA = ReasonA
  ReasonB = ReasonB
  Domain = Domain
  Meta = Meta
  Violation = Violation
  plain = plain
  unpopulated = unpopulated
  Fields <- MCFields
  Names <- MCNames
  Words <- MCWords
  Zero = Zero
  EnumNumber <- MCEnumNumber
  Accepted <- MCAccepted
  Int32Span <- MCInt32Span
  Int64Span <- MCInt64Span
  Reasons = {ReasonA}
  Domains = {Domain}
  Metadata = {Meta}
  Violations = {Violation}
  None = None
  Vocabs = {}
  Table <- NoTable
  Fallback <- NoFallback
  CustomStatus = 418
  Options = {plain}
  Requests = {q1}
  Routes <- BindingRoutes
  RouteBinders <- IdentityRoutes
  Inputs <- BindingInputs
  Outcomes <- OneOutcome
  Canceled <- MCCanceled
  PlainOptions = plain
  DefaultLimit = 2
  MapperChoices = {}
  OptionChoices = {}
  ExtractorChoices = {"nil", "foreign"}
  LimitChoices = {0}
  RouteMapperChoices = {}
  StatusChoices = {}
  MapChoices = {}
INVARIANTS BoundAsDeclared ReadIsBounded
PROPERTY KeepsPromise
