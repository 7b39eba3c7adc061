SPECIFICATION VerificationSpec
CONSTANTS
  t1 = t1
  r1 = r1
  Traces = {t1}
  Readers = {r1}
  None = None
  MaxEvents = 3
  Bodies <- MCBodies
  Column <- MCMemory
  ContentRefs <- MCContentRefs
  Signatures <- MCSignatures
  Chains = {}
  Lists = {}
  MaxLength = 0
INVARIANTS
  EveryChainVerifies
