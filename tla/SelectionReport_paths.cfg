SPECIFICATION ReportSpec
CONSTANTS
  Bare <- MCBare
  OwnerOf <- MCOwnerOf
  UbiquitousBases = {"button", "text"}
  GenericScope = {"common"}
  FamilyKeys = {"button", "slider"}
  TypeOf <- MCTypeOf
  SymbolsOf <- MCSymbolsOf
  AttributeOf <- MCAttributeOf
  FamilyOfName <- MCFamilyOfName
  CommonHints = {"commonattrs", "modifier"}
  GenericTokens = {"common"}
  Corpora <- MCCorpora
  Items <- MCItems
  Options <- MCOptions
  MinScore = 15
  BroadFamilies = 2
  Flood = 2
  CommonPaths = {"commonattrs"}
INVARIANT PathKeepsFullPoints
CHECK_DEADLOCK FALSE
