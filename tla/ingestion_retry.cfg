\* One request raises or dies half-way.
CONSTANTS
  Handlers = {h1, h2}
  Messages = {started, fileA}
  Conferences <- MCConferences
  Transcripts <- MCTranscripts
  Connections = {k1}
  Subscriptions <- MCSubscriptions
  None = None
  Push <- MCPush
  Malformed <- MCMalformed
  Untyped <- MCUntyped
  EventConference <- MCEventConference
  EventTranscript <- MCEventTranscript
  EventSubscription <- MCEventSubscription
  FirstSubscription <- MCFirst
  NextSubscription <- MCNext
  Volatile = {}
  MaxAborts = 1
  started = started fileA = fileA fileB = fileB
  unnamed = unnamed poison = poison garbled = garbled
  c1 = c1 t1 = t1 t2 = t2
  k1 = k1 s1 = s1 s3 = s3
SPECIFICATION Spec
INVARIANT RetriedUntilHandled
CHECK_DEADLOCK FALSE
