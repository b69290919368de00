\* Gemini fails once and arq ends the job; then the user regenerates.
CONSTANTS
  Workers = {w1}
  Requests = {q1}
  Ids = {i1}
  Transcripts = {t1}
  Meetings = {}
  None = None
  MeetingAt <- MCMeetingAt
  KeepResult = TRUE
  MaxTries = 4
  FaultKinds = {"raise"}
  MaxFaults = 1
  MaxWakes = 1
  i1 = i1 m1 = m1
SPECIFICATION FairSpec
PROPERTY ResumedByRegenerate
CHECK_DEADLOCK FALSE
