SPECIFICATION Spec
CONSTANTS
  NULL = NULL
  a = a
  b = b
  c1 = c1
  c2 = c2
  Consumers = {c1, c2}
  Ids = {a, b}
  Rstcs = {r1, r2, r3, r4}
  Wants <- TwoLines
  Form <- BulkAndArray
  Modes = {"shared", "exclusive", "released"}
  Calls = {"assert", "deassert", "reset", "rearm", "acquire", "release"}
  Ops = {"assert", "deassert", "reset"}
  Faults <- SomeFaults
INVARIANTS     AllOrNothing
