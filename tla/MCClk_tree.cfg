SPECIFICATION Spec
CONSTANTS
  ca = ca cb = cb cm = cm cx = cx kb = kb km = km
  NULL = NULL
  Clocks = {ca, cb, cm, cx}
  Clks = {kb, km}
  CoreOf <- MCCoreOf
  Parents <- MCParents
  FlagChoices <- MCFlags
  BootOn = {cb, cm}
  Late = {cb, cx}
  Rates = {1, 2}
  Faults = {"prepare", "enable", "set_parent", "set_rate", "notify"}
  OrphanExclusive = FALSE
  MaxUse = 1
  MaxExclusive <- MCMaxExclusive
INVARIANTS CountsBalanced  NoInterruption UnusedOff CacheExact
PROPERTIES  OpsParentOn
