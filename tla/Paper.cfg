SPECIFICATION Spec
CONSTANTS
  NotParsed = NotParsed
  NoLine = NoLine
  NoChunk = NoChunk
  Look <- AllLooks
  Papers <- SomePapers
  Sayings <- QuotedLines
  TITLE_MIN = 3
  TITLE_MAX = 20
  INLINE_MIN = 2
  ABSTRACT_MIN = 10
  MIN_REFERENCE_CHARS = 3
  MIN_CAPTION_CHARS = 3
  MIN_TABLE_CHARS = 5
  CHUNK_MAX_CHARS = 12
  CHUNK_OVERLAP_CHARS = 5
  MIN_CHUNK_CHARS = 4
  REFERENCES_PER_CHUNK = 2
  HEADER_CHARS = 3
  PROFILE_CONTEXT_CHARS = 45
  POINT_MIN = 3
  POINT_MAX = 12
  EMBED_BATCH_SIZE = 2
  EMBED_REFERENCE_TOKENS = 10
  MaxRuns = 2
INVARIANTS
  TypeOK
  NothingDropped
  OneSection
  PagesTrue
  PointsOpenTheirChunk
  Embedded
