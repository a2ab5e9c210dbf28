SPECIFICATION Spec
CONSTANTS
  NULL = NULL
  ANON = ANON
  ca = ca
  cb = cb
  cc = cc
  ce = ce
  m1 = m1
  m2 = m2
  dab = dab
  de = de
  p1 = p1
  p2 = p2
  Components = {ca, cb, cc, ce}
  Masters = {m1, m2}
  Devices = {dab, de, p1, p2}
  Dev <- MCDev
  Parent <- MCParent
  Match <- MCMatch
INVARIANTS AttachedBothWays BoundInMatchOrder CallbacksPaired ResourcesMatchBindings
