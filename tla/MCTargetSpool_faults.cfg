SPECIFICATION Spec
CONSTANTS
  i = i
  j = j
  k = k
  v = v
  m = m
  x = x
  Reqs = {i, j, k, v}
  Hashes = {1, 2}
  Ask <- MCAsk
  Hooks = {"directory", "runtime"}
  BadSpans = {k}
  HookRaises = TRUE
  Kills = {"receiver", "worker"}
  Restartable = TRUE
INVARIANTS
  SpoolTypeOK
  AckedIsStaged
  VerifiedWasConsumed
  DescriptorHasPayload
  MarkedWasDelivered
PROPERTIES
  MarkedIsFinal
