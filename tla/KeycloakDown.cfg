CONSTANTS
  Processes = {n1, n2}
  Clients <- MCClients
  MaxKey = 1
  MaxTokens = 1
  Outages = {"down"}
SPECIFICATION Spec
SYMMETRY Symmetry
INVARIANT UnauthorizedForCause
