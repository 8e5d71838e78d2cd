SPECIFICATION LifecycleSpec
CONSTANTS
  webhooks = webhooks
  workers = workers
  replay = replay
  Absent = Absent
  Edited = Edited
  Damaged = Damaged
  None = None
  Batteries = {webhooks, workers, replay}
  Requires <- MCRequires
  Files <- MCFiles
  Kind <- MCKind
  Needs <- MCNeeds
  Reads <- MCReads
  Chain <- MCChain
  Projects <- MCProjects
  Listing <- MCListing
  Lost = Lost
  Versions = {1, 2}
  Channels = {"webhook", "slack"}
  DefaultChannel = "webhook"
  MaxCommands = 2
  MaxEdits = 1
  MaxDeploys = 1
INVARIANTS LifecycleTypeOK ChoicesAreKept FindingsAreSound UntouchedFilesAreRendered
CHECK_DEADLOCK FALSE
