SPECIFICATION Spec
CONSTANTS
  TargetMin = 3
  TargetMax = 4
  Overlap = 1
  PolicyMax = 4
  Relevance <- MCRelevance
  Requests = {r1}
  Processes = {p1}
  Dossiers = {d1}
  Asked = {"why"}
  Rules <- MCRules
  PolicyFiles <- MCPolicyFiles
  LoadOutcomes = {"bge"}
  ReadOutcomes = {"bge"}
  Scans <- MCScans
  RawAnswers <- MCRawAnswers
  Exempt <- MCExempt
  Aliases <- MCAliases
  LlmKey = TRUE
  TopK = 2
  MaxVersion = 1
SYMMETRY Alike
INVARIANTS GroundedOrWithheld
CHECK_DEADLOCK FALSE
