SPECIFICATION SelectingSpec
CONSTANTS
  Graphs <- MCGraphs
  NoGraph = NoGraph
  Files = {"f1", "f2"}
  Symbols = {"ButtonModifier", "contentModifier"}
  ApiName <- MCApiName
  SourceName <- MCSourceName
  Lower <- MCLower
  Committed <- MCCommitted
  Requests <- MCRequests
  ScannedFiles = 2
  SourcesPerApi = 1
  QueryNames = {"Button", "Slider", "contentModifier"}
  NoRequestMade = NoRequestMade
  KnownComponents = {"Button", "Slider"}
  KnownEnums = {"Color"}
  EventMethods = {"onClick"}
  AttributeMethods = {"width"}
  Spans <- MCSpans
  MaxLine = 3
  PerApi = 1
  PerProfile = 1
  PerDomain = 2
  TotalRecommended = 2
  TotalPossible = 3
  ChangeSets <- MCChangeSets
  NoProfile = "none"
  apiA = apiA
  apiB = apiB
  apiC = apiC
  Profiles <- MCProfiles
  NFiles = 3
  Apis <- MCApis
  Projects <- MCProjects
  ById <- MCById
  ByMember <- MCByMember
  ByName <- MCByName
  StrongUse <- MCStrongUse
  Family <- MCFamily
  CommonLimit = 1
  AreaCap = 1
  Earlier <- MCEarlier
  BroadTargets <- MCBroadTargets
  Siblings <- MCSiblings
  RecommendedCap = 1
  FallbackCap = 1
  Bare <- MCBare
  OwnerOf <- MCOwnerOf
  UbiquitousBases = {"button", "text"}
  GenericScope = {"common"}
  FamilyKeys = {"button", "slider"}
  TypeOf <- MCTypeOf
  SymbolsOf <- MCSymbolsOf
  AttributeOf <- MCAttributeOf
  FamilyOfName <- MCFamilyOfName
  CommonHints = {"commonattrs", "modifier"}
  GenericTokens = {"common"}
  Corpora <- MCCorpora
  Items <- MCItems
  Options <- MCOptions
  MinScore = 15
  BroadFamilies = 2
  Flood = 2
  CommonPaths = {"commonattrs"}
  SourceFiles <- MCSourceFiles
  LayerRules <- MCLayerRules
  TopicConfig <- MCTopicConfig
  SdkIndexes <- MCSdkIndexes
  NoSdk = NoSdk
  TestTrees <- MCTestTrees
  NoXts = NoXts
  Compound <- MCCompound
  MaxFiles = 3
  AllowedMethods <- MCAllowed
  InheritedFrom <- MCInherited
  DirAlias <- MCDirAlias
  Tests = {"t1", "t2"}
  TestAt <- MCTestAt
  Absent = Absent
  SdkAt <- MCSdkAt
  EngineAt <- MCEngineAt
  ExamplesAt <- MCExamplesAt
  MaxEdits = 2
  Registries <- MCRegistries
  SdkAlias <- MCSdkAlias
  Folded <- MCFolded
  ParentNames <- MCParentNames
  MemberAlias <- MCMemberAlias
  ParentOf <- MCParentOf
  WithoutImpl <- MCWithoutImpl
  WithoutFamily <- MCWithoutFamily
  Extends <- MCExtends
  Ends <- MCEnds
  Within <- MCWithin
  EngineIndexes <- MCEngineIndexes
  TestUses <- MCTestUses
  ChangedPaths <- MCChangedPaths
INVARIANTS MustRunIsPlanned CoverageIsTold
INVARIANTS EvidenceIsSound LimitsKeepTheBest
INVARIANTS RequestIsAnswered
INVARIANTS TopicsAreFound IndexesAreCurrent IndexesServeTheReport
CHECK_DEADLOCK FALSE
