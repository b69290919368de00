\* Two calls of the API for one lock, a consent, a disconnect.
CONSTANTS
  Callers = {c1, c2}
  Callbacks = {k1}
  Disconnects = {d1}
  Processes = {api}
  ProcessOf <- MCProcessOf
  First = First
  None = None
  OtherErrors = TRUE
  MaxTokens = 3
  api = api c1 = c1 c2 = c2 k1 = k1 d1 = d1
SPECIFICATION FairSpec
INVARIANTS TypeOK SingleFlight NoDoubleRefresh
PROPERTIES FreshAnswer CallEnds
CHECK_DEADLOCK FALSE
