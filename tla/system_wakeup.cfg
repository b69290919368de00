\* "Conference started" and "transcript ready"; nothing fails.
CONSTANTS
  Handlers = {h1}
  Ids = {started, fileA}
  Volatile = {}
  MaxAborts = 0
  Workers = {w1}
  Requests = {}
  Meetings = {}
  MaxTries = 2
  FaultKinds = {}
  MaxFaults = 0
  RedisConfigured = TRUE
  Conferences = {c1}
  Transcripts = {t1, t2}
  Connections = {k1}
  Subscriptions = {s1}
  None = None
  Malformed = {}
  Untyped = {}
  EventConference <- MCEventConference
  EventTranscript <- MCEventTranscript
  EventSubscription <- MCEventSubscription
  FirstSubscription <- MCFirst
  NextSubscription <- MCNext
  MeetingAt <- MCMeetingAt
  KeepResult = TRUE
  MaxWakes = 0
  started = started fileA = fileA fileB = fileB
  c1 = c1 t1 = t1 t2 = t2 k1 = k1 s1 = s1 s3 = s3 m1 = m1
SPECIFICATION FairSystem
PROPERTY NotesFollowTranscript
CHECK_DEADLOCK FALSE
