SPECIFICATION Spec
CONSTANTS
  id = id
  tag = tag
  f = f
  g = g
  word = word
  active = active
  q1 = q1
  q2 = q2
  ReasonA = ReasonA
  ReasonB = ReasonB
  Domain = Domain
  Meta = Meta
  Violation = Violation
  plain = plain
  unpopulated = unpopulated
  Fields <- MCFields
  Names <- MCNames
  Words <- MCWords
  Zero = Zero
  EnumNumber <- MCEnumNumber
  Accepted <- MCAccepted
  Int32Span <- MCInt32Span
  Int64Span <- MCInt64Span
  Reasons = {ReasonA, ReasonB}
  Domains = {Domain}
  Metadata = {Meta}
  Violations = {Violation}
  None = None
  Vocabs = {"public", "internal", "broken"}
  Table <- ErrorTable
  Fallback <- ErrorFallback
  CustomStatus = 418
  Options = {plain, unpopulated}
  Requests = {q1}
  Routes <- OneRoute
  RouteBinders <- IdentityRoutes
  Inputs <- PlainInput
  Outcomes <- ErrorOutcomes
  Canceled <- MCCanceled
  PlainOptions = plain
  DefaultLimit = 2
  MapperChoices = {"nil", "public", "custom"}
  OptionChoices = {plain, unpopulated}
  ExtractorChoices = {}
  LimitChoices = {}
  RouteMapperChoices = {"nil", "internal", "broken", "rfc7807"}
  StatusChoices = {204, 103, 0}
  MapChoices = {TRUE, FALSE}
INVARIANTS TypeOK AnsweredAsConfigured Redacted
