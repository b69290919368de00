\* Two creations, three deletions, two accounts, two requests that fail.
CONSTANTS
  Creates = {c1, c2}
  Deletes = {d1, d2, d3}
  Accounts = {a1, a2}
  None = None
  MaxFailed = 2
  c1 = c1 c2 = c2 d1 = d1 d2 = d2 d3 = d3 a1 = a1 a2 = a2
SPECIFICATION Spec
SYMMETRY Symmetry
INVARIANTS TypeOK NotesBacked StraysExplained RowsHaveEvents
CHECK_DEADLOCK FALSE
