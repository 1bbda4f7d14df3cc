SPECIFICATION Spec
CONSTANTS
  Main = Main
  Creator = Creator
  Agent0 = a0
  Agents = {a0, a1}
  Tenants = {t1, t2, t3}
  MAX_TENANTS_PER_AGENT = 2
SYMMETRY Symmetry
INVARIANT InspectsWithAgent
CHECK_DEADLOCK FALSE
