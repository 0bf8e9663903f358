SPECIFICATION FairSpec
CONSTANTS
  i = i
  j = j
  k = k
  v = v
  m = m
  x = x
  Reqs = {i, j, m, x}
  Hashes = {1, 2}
  Ask <- MCAsk
  Hooks = {"directory"}
  BadSpans = {}
  HookRaises = TRUE
  Kills = {"worker"}
  Restartable = TRUE
PROPERTIES
  InjectedIsProcessed
