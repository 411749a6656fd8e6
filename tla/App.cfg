SPECIFICATION Spec
CONSTANTS
  f = f
  g = g
  plain = plain
  unpopulated = unpopulated
  Fields <- MCFields
  Names <- MCNames
  Words = {}
  Zero = Zero
  EnumNumber <- MCEnumNumber
  Accepted = {}
  Int32Span = 8
  Int64Span = 32
  Methods <- MCMethods
  RequestPaths <- MCRequestPaths
  Endpoints <- MCEndpoints
  OpaquePatterns <- MCPatterns
  Opaque = Opaque
  Programs <- MCPrograms
  None = None
  DocChoices = {NoDoc, Described}
  NoDoc = NoDoc
  DTOChoices = {DTO}
  StatusChoices = {201}
  MarshalChoices = {plain, unpopulated}
  PlainOptions = plain
INVARIANTS TypeOK ListedIsRouted RoutedIsListed PathParametersArePresent PanicsForAReason
PROPERTY KeepsCatalog
