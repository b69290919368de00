\* Two "transcript ready" events, a worker that crashes once.
CONSTANTS
  Handlers = {h1, h2}
  Ids = {fileA, fileB}
  Volatile = {}
  MaxAborts = 0
  Workers = {w1}
  Requests = {}
  Meetings = {}
  MaxTries = 2
  FaultKinds = {"crash"}
  MaxFaults = 1
  RedisConfigured = TRUE
  Conferences = {c1}
  Transcripts = {t1, t2}
  Connections = {k1}
  Subscriptions = {s1}
  None = None
  Malformed = {}
  Untyped = {}
  EventConference <- MCEventConference
  EventTranscript <- MCEventTranscript
  EventSubscription <- MCEventSubscription
  FirstSubscription <- MCFirst
  NextSubscription <- MCNext
  MeetingAt <- MCMeetingAt
  KeepResult = TRUE
  MaxWakes = 0
  started = started fileA = fileA fileB = fileB
  c1 = c1 t1 = t1 t2 = t2 k1 = k1 s1 = s1 s3 = s3 m1 = m1
SPECIFICATION FairSystem
INVARIANT NotesMatchTranscript
PROPERTIES NotesFollowTranscript EventHandled
CHECK_DEADLOCK FALSE
