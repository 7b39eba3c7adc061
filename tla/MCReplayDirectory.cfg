\* The same instance, for the replay that raises on a directory that became a file.
CONSTANTS
  Paths <- MCPaths
  Ancestors <- MCAncestors
  Entries <- MCEntries
  Escaping = {"out"}
  Requests = {"ask"}
  Results <- MCResults
  Redacted <- MCRedacted
  Signatures = {"boom"}
  Initials <- MCInitials
  Changes <- MCChanges
  MaxEvents = 5
  MaxCalls = 1
  MaxDisturbances = 1
  DamageSets <- MCDamageSets
  Mentions <- NoMentions
  Elsewhere = {}
  Losses <- MCDamageSets
  MaxExports = 0
SPECIFICATION ReadersSpec
CHECK_DEADLOCK FALSE
INVARIANT RecordedReplayCompletes
