SPECIFICATION FairSpec
CONSTANTS
  q1 = q1
  user = user
  posts = posts
  prefs = prefs
  Reason = Reason
  Domain = Domain
  Violation = Violation
  plain = plain
  unpopulated = unpopulated
  Reasons = {Reason}
  Domains = {Domain}
  Metadata = {}
  Violations = {Violation}
  None = None
  Vocabs = {"vocab"}
  Table <- OneTable
  Fallback <- RFCFallback
  CustomStatus = 418
  Options = {plain, unpopulated}
  Requests = {q1}
  Calls = {user, posts, prefs}
  Optional = {prefs}
  Failures <- AnyFailure
  Canceled <- MCCanceled
  Results <- AnyResult
  Settings <- AnySettings
  StatusChoices = {201, 0}
  MapperChoices = {"nil", "vocab", "custom"}
  OptionChoices = {plain, unpopulated}
INVARIANTS TypeOK NothingMissing NoCollateral NoneLeft AnsweredAsConfigured
PROPERTIES KeepsPromise FailsFast
