SPECIFICATION Spec
CONSTANTS
  v = v
  w = w
  Headers <- MCHeaders
  Lower <- MCLower
  Values = {v, w}
  Apps = {outer, inner}
  Upstream = Upstream
  Metadatas <- MCMetadatas
  AllowLists <- MCAllowLists
  Requests = {q1}
  HeaderSets <- MCHeaderSets
  None = None
  MaxHops = 3
  MaxAllowed = 3
INVARIANTS TypeOK OnlyAllowlisted DeliveredAsConfigured
