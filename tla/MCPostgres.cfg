SPECIFICATION PgSpec
CONSTANTS
  t1 = t1
  c1 = c1
  c2 = c2
  Traces = {t1}
  Clients = {c1, c2}
  None = None
  MaxEvents = 2
  Bodies <- MCBodies
  Column <- MCColumn
  ContentRefs <- MCContentRefs
  Signatures = {}
INVARIANTS
  LockedRowUnchanged
PROPERTIES
  ImplementsRepository
  AppendAnswered
