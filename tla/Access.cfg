CONSTANTS
  Processes = {n1, n2}
  Clients <- MCClients
  MaxKey = 3
  MaxTokens = 2
  Outages = {"down", "failing"}
SPECIFICATION Spec
SYMMETRY Symmetry
INVARIANTS
  PassedOnlyIfEntitled
  OutageLeavesNoTrace
