SPECIFICATION Spec
CONSTANTS
  NoModel = NoModel
  NoCollection = NoCollection
  NoProfile = NoProfile
  NoCue = NoCue
  Says <- Sayings
  Asks <- Questions
  CollectionOf <- Home
  DocOrder <- Newest
  Requests <- SomeRequests
  Corpora <- Libraries
  Again <- SecondIngest
  Tasks <- SomeTasks
  Rewrites = {"scores"}
  AnswerDrafts <- SomeAnswers
  TaskDrafts <- SomeTaskDrafts
  CueOf <- Cues
  Abstention = "refusal"
  EMBEDDING_MODEL = "bge"
  RRF_K = 1
  RERANK_CANDIDATES = 7
  SYNTHESIS_RERANK_BUDGET = 12
  RERANKER_ENABLED = TRUE
  SECTION_BOOST = 8
  MIN_CLAIM_WORDS = 2
  MIN_SENTENCE_WORDS = 3
  WINDOW = 3
  MAX_EVIDENCE_BLOCKS = 3
  PROFILE_EVIDENCE_PER_PAPER = 2
  MAX_ISSUES = 2
  MAX_GAPS = 3
  DOCUMENT_LIMIT = 2
  MIN_SIMILARITY = 48
  MIN_RERANK = 0
INVARIANTS
  TypeOK
  LoadedOnce
  StreamShape
  Grounded
  EveryPaperHeard
PROPERTIES
  RequestsEnd
