SPECIFICATION CredentialSpec
CONSTANTS
  Accounts = {"anna", "boris"}
  MaxTokens = 5
  MaxRestarts = 2
  CredentialFaults = {"race"}
INVARIANTS ConnectedStays
CHECK_DEADLOCK FALSE
