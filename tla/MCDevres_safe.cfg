SPECIFICATION Spec
CONSTANTS
  NULL = NULL
  r1 = r1
  r2 = r2
  r3 = r3
  g1 = g1
  g2 = g2
  Resources = {r1, r2, r3}
  Groups = {g1, g2}
  Threads = {t1, t2}
  Matches <- MCMatches
SYMMETRY DevresSymmetry
INVARIANTS OnePlace GroupHasItsMembers
PROPERTIES ReverseOrder
