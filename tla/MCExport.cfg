\* Exports beside the recording of calls whose requests and results name contents.
CONSTANTS
  Paths <- MCPaths
  Ancestors <- MCAncestors
  Entries <- MCEntries
  Escaping = {"out"}
  Requests <- MoreRequests
  Results = {"answer"}
  Redacted <- Unredacted
  Signatures = {"boom"}
  Initials <- MCInitials
  Changes <- FewerChanges
  MaxEvents = 5
  MaxCalls = 1
  MaxDisturbances = 0
  DamageSets = {{}}
  Mentions <- MCMentions
  Elsewhere = {"doc"}
  Losses <- MCLosses
  MaxExports = 1
SPECIFICATION ReadersSpec
CHECK_DEADLOCK FALSE
INVARIANTS
  BundleReplays
  ExportFailsExactly
