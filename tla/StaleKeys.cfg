CONSTANTS
  Processes = {n1, n2}
  Clients <- MCClients
  MaxKey = 2
  MaxTokens = 2
  Outages = {}
SPECIFICATION Spec
SYMMETRY Symmetry
INVARIANT UnauthorizedForCause
