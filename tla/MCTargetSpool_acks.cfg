SPECIFICATION Spec
CONSTANTS
  i = i
  j = j
  k = k
  v = v
  m = m
  x = x
  Reqs = {i, k, v}
  Hashes = {1, 2}
  Ask <- MCAsk
  Hooks = {"none"}
  BadSpans = {}
  HookRaises = FALSE
  Kills = {}
  Restartable = FALSE
PROPERTIES
  AcknowledgedPasses
