\* Up to three entries in pages of up to two, lines shorter than, as long as and
\* longer than two chunks, two calls that raise.
CONSTANTS
  Names = {p1, p2, p3}
  None = None
  Unknown = Unknown
  Books <- MCBooks
  PageSize = 2
  MaxChars = 3
  MaxFaults = 2
  MaxEntries = 3
  Lengths = {0, 1, 2, 3, 7}
  p1 = p1 p2 = p2 p3 = p3
SPECIFICATION FairSpec
INVARIANTS TypeOK TextIsTranscript ChunksFit NotesOfWholeText
PROPERTY NotesEventually
CHECK_DEADLOCK FALSE
