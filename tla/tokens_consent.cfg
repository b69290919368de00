\* A refresh that Google rejects while the user consents anew.
CONSTANTS
  Callers = {c1}
  Callbacks = {k1}
  Disconnects = {}
  Processes = {api}
  ProcessOf <- MCProcessOf
  First = First
  None = None
  OtherErrors = FALSE
  MaxTokens = 3
  api = api c1 = c1 c2 = c2 k1 = k1 d1 = d1
SPECIFICATION Spec
INVARIANT NeedsReconnectMeansRevoked
CHECK_DEADLOCK FALSE
