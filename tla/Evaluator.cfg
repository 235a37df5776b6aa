SPECIFICATION Spec
CONSTANTS
  Number <- MCNumber
  Text <- MCText
  FormatFloat <- MCFormatFloat
  ParseFloat <- MCParseFloat
  ParseBool <- MCParseBool
  PartOf <- MCPartOf
  PrefixOf <- MCPrefixOf
  SuffixOf <- MCSuffixOf
  Sprint = "[]"
  Scale = 1000
  HashPercent <- MCHashPercent
  FlagConfig <- MCFlagConfig
  Context <- MCContext
  MaxTime = 3
  NoConfig = NoConfig
  NoContext = NoContext
  Fallback = Fallback
INVARIANT TypeOK
 
INVARIANT RampNeverRetracts
INVARIANT BucketsMatchWeights
INVARIANT OneComparisonHolds
