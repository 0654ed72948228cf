SPECIFICATION Spec
CONSTANTS
  TargetMin = 3
  TargetMax = 4
  Overlap = 1
  PolicyMax = 4
  Relevance <- MCRelevance
  Requests = {r1, r2}
  Processes = {p1}
  Dossiers = {d1}
  Asked = {"why"}
  Rules <- MCRules
  PolicyFiles <- MCPolicyFiles
  LoadOutcomes = {"bge", "none", "unread"}
  ReadOutcomes = {"bge", "raises", "unread"}
  Scans <- MCScans
  RawAnswers <- MCRawAnswers
  Exempt <- MCExempt
  Aliases <- MCAliases
  LlmKey = TRUE
  TopK = 2
  MaxVersion = 1
CONSTRAINT Apart
SYMMETRY Alike
INVARIANTS AnswerIsForIt IndexSound FirewallHolds
CHECK_DEADLOCK FALSE
