SPECIFICATION Spec
CONSTANTS
  c1 = c1
  c2 = c2
  r1 = r1
  r2 = r2
  None = None
  Checks = {c1, c2}
  Runs = {r1, r2}
  ProbePorts <- MCProbePorts
  Machines <- MCMachines
INVARIANTS TypeOK VerdictsAgree BlockedIsBlocked ListenersOwned
CHECK_DEADLOCK FALSE
