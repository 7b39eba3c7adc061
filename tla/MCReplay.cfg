\* Logs of up to five events: a checkpoint, two deltas and an end after the environment.
CONSTANTS
  Paths <- MCPaths
  Ancestors <- MCAncestors
  Entries <- MCEntries
  Escaping = {"out"}
  Requests = {"ask"}
  Results <- MCResults
  Redacted <- MCRedacted
  Signatures = {"boom"}
  Initials <- MCInitials
  Changes <- MCChanges
  MaxEvents = 5
  MaxCalls = 1
  MaxDisturbances = 1
  DamageSets <- MCDamageSets
  Mentions <- NoMentions
  Elsewhere = {}
  Losses <- MCDamageSets
  MaxExports = 0
SPECIFICATION ReadersSpec
CHECK_DEADLOCK FALSE
INVARIANTS
  TypeOK
  ExpectedTracks
  TreesAgree
  RecordedVerdict
  RaisesExactly
  FaithfulMatches
  ConcludesOnSound
