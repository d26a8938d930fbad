SPECIFICATION MCSpec
CONSTANTS
  Turns = {t1, t2}
  MaxEmits = 3
  PublishCalls = {c1, c2, c3}
  PublishTurns = {"t1"}
  Results <- MCResults
  OwnKeys <- MCOwnKeys
  Titles = {"plan", "plans"}
  Sought = "plan"
  Hashes = {"h1", "h2"}
  PageSize = 1
  MaxSeriesIds = 2
  MaxPages = 2
  MaxDocuments = 3
  MaxUploads = 2
  Requests <- MCRequests
  AgentCatalogs = {"rich", "base"}
  AgentModes = {"plain", "markdown"}
  PlainText = "plain"
  Outcomes <- MCOutcomes
  None = None
  MaxAsked = 2
  MaxDeltas = 2
SYMMETRY Symmetry
INVARIANTS
  StreamsWellFormed
  TurnsBuildOnEachOther
  OneArtifactEach
  AnswersAreExact
  AnswersArriveOnce
PROPERTIES
  FinishedMeansSaved
CHECK_DEADLOCK FALSE
