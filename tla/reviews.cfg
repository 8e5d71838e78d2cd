SPECIFICATION ReviewsSpec
CONSTANTS
  None = None
  security = security
  coverage = coverage
  docs = docs
  Agents = {security, coverage}
  Blocking = {security}
  Agentic = {coverage}
  Stagings <- MCStagings
  Findings <- MCFindings
  Selections = {{security}, {security, coverage}}
  MaxBaselines = 1
  MaxCommits = 2
  MaxStagings = 1
  MaxRuns = 2
  NoFile = NoFile
  Reviewers = {security, coverage}
  Gating = {security}
  Looping = {coverage}
  Triggered <- MCTriggered
  Enabled = TRUE
  MaxTurns = 2
  MaxRecoveries = 1
  MaxPushes = 2
  Scored = {security, coverage, docs}
  Corpora <- MCCorpora
  Workers = 2
  Repeat = 2
  RecallMin = 75
  FpMax = 50
INVARIANTS ReviewsTypes AuditsBuildOnReviews ReviewsAreSound GreenMeansAll
PROPERTIES VerdictsAreEarned ReviewsEnd
CHECK_DEADLOCK FALSE
