SPECIFICATION VerificationSpec
CONSTANTS
  t1 = t1
  r1 = r1
  Traces = {t1}
  Readers = {r1}
  None = None
  MaxEvents = 3
  Bodies <- MCBodies
  Column <- MCColumn
  ContentRefs <- MCContentRefs
  Signatures <- MCSignatures
  Chains <- MCChains
  Lists <- MCLists
  MaxLength = 3
INVARIANTS
  TypeOK
  ChainVerifies
  AcceptedIsSnapshot
  ClosedReadsVerify
  DetectsEveryEdit
  LoopAgrees
PROPERTIES
  ImplementsTraceLog
CHECK_DEADLOCK FALSE
