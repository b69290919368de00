\* Two workers, a regenerate request, two transcripts, a meeting deleted, a
\* disconnect; twice something crashes, raises or is timed out, so a job may use
\* up its tries.
CONSTANTS
  Workers = {w1, w2}
  Requests = {q1}
  Ids = {i1}
  Transcripts = {t1, t2}
  Meetings = {m1}
  None = None
  MeetingAt <- MCMeetingAt
  KeepResult = TRUE
  MaxTries = 2
  FaultKinds = {"raise", "crash", "timeout"}
  MaxFaults = 2
  MaxWakes = 2
  i1 = i1 m1 = m1
SPECIFICATION FairSpec
INVARIANTS TypeOK StateIsBacked NoOrphans OneRunPerConference
PROPERTIES ImplementsLifecycle JobEnds ReadyJobDelivers
CHECK_DEADLOCK FALSE
