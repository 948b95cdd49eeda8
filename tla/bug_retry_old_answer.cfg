SPECIFICATION FaultySpec
CONSTANTS
  s1 = s1
  s2 = s2
  hebe = hebe
  w1 = w1
  api = api
  Artists = {hebe}
  Api = api
  Workers = {w1}
  HasModel = TRUE
  HasCatalog = TRUE
  HasLastfm = TRUE
  HasPool = TRUE
  Messages <- TurnMessages
  Directions <- TurnDirections
  Source <- OneSource
  Site <- SiteOf
  About <- AboutOf
  Dimensional <- FullyRead
  AnalysisIterations = 4
  PlainIterations = 3
  AnalysisSearches = 2
  PlainSearches = 2
  MaxReads = 1
  EnoughSources = 2
  MaxRefs = 16
  MaxAttempts = 2
  MaxDirections = 1
  RecursionLimit = 10
INVARIANT RetryKeepsDirections
