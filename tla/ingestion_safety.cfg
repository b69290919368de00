\* Two handlers, the three events of a conference, a disconnect, a second
\* consent, a meeting deleted, and one request cut short.
CONSTANTS
  Handlers = {h1, h2}
  Messages = {started, fileA, fileB, unnamed, poison, garbled}
  Conferences <- MCConferences
  Transcripts <- MCTranscripts
  Connections = {k1}
  Subscriptions <- MCSubscriptions
  None = None
  Push <- MCPush
  Malformed <- MCMalformed
  Untyped <- MCUntyped
  EventConference <- MCEventConference
  EventTranscript <- MCEventTranscript
  EventSubscription <- MCEventSubscription
  FirstSubscription <- MCFirst
  NextSubscription <- MCNext
  Volatile = {k1}
  MaxAborts = 1
  started = started fileA = fileA fileB = fileB
  unnamed = unnamed poison = poison garbled = garbled
  c1 = c1 t1 = t1 t2 = t2
  k1 = k1 s1 = s1 s3 = s3
SPECIFICATION Spec
SYMMETRY Symmetry
INVARIANTS TypeOK AtMostOnce AckedIsRecorded RowsSound EnqueuedSound
INVARIANT TranscriptOfConference
PROPERTY TranscriptKept
CHECK_DEADLOCK FALSE
