SPECIFICATION RecSpec
CONSTANTS
  t1 = t1
  w1 = w1
  w2 = w2
  doc = doc
  err = err
  env = env
  man = man
  del = del
  fil = fil
  Traces = {t1}
  Threads = {w1, w2}
  Documents = {doc}
  Errors = {err}
  Environments = {env}
  Manifests = {man}
  Deltas = {del}
  Files = {fil}
  Nested <- MCNested
  Costs = {"none"}
  Statuses = {"succeeded", "failed"}
  Bodies <- MCBodies
  Column <- MCColumn
  ContentRefs <- MCContentRefs
  Signatures = {"signature"}
  None = None
  MaxEvents = 5
  MaxOperations = 4
SYMMETRY Symmetry
INVARIANTS
  EventRefsStored
  RowRefsStored
  PreambleFirst
  CallsAccounted
  ClosedByLog
CHECK_DEADLOCK FALSE
