\* Two handlers and a worker on one conference, the transcript's event under the
\* subscription of a second consent, while the user disconnects or deletes the
\* meeting, and the worker crashes, raises or times out once; arq keeps no results.
CONSTANTS
  Handlers = {h1, h2}
  Ids = {started, fileA}
  Volatile = {k1}
  MaxAborts = 0
  Workers = {w1}
  Requests = {}
  Meetings = {m1}
  MaxTries = 2
  FaultKinds = {"crash", "raise", "timeout"}
  MaxFaults = 1
  RedisConfigured = TRUE
  Conferences = {c1}
  Transcripts = {t1, t2}
  Connections = {k1}
  Subscriptions = {s1, s3}
  None = None
  Malformed = {}
  Untyped = {}
  EventConference <- MCEventConference
  EventTranscript <- MCEventTranscript
  EventSubscription <- MCEventSubscription
  FirstSubscription <- MCFirst
  NextSubscription <- MCNext
  MeetingAt <- MCMeetingAt
  KeepResult = FALSE
  MaxWakes = 0
  started = started fileA = fileA fileB = fileB
  c1 = c1 t1 = t1 t2 = t2 k1 = k1 s1 = s1 s3 = s3 m1 = m1
SPECIFICATION SystemSpec
INVARIANT JobsAreOfCommittedRows
PROPERTIES ImplementsIngestion ImplementsSystemLifecycle
CHECK_DEADLOCK FALSE
