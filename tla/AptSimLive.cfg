SPECIFICATION FairSpec
CONSTANTS
  Main = Main
  Creator = Creator
  Agent0 = a0
  Agents = {a0}
  Tenants = {t1, t2}
  MAX_TENANTS_PER_AGENT = 2
PROPERTIES
  VisitEnds
  AgentServes
CHECK_DEADLOCK FALSE
