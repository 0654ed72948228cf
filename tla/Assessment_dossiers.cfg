SPECIFICATION Spec
CONSTANTS
  Similarity <- MCSimilarity
  MaxPages = 2
  MaxTextract = 2
  TextractEnabled = TRUE
  UseHybridCascade = TRUE
  Dossiers <- MCDossiers
  PolicyHits <- MCPolicyHits
  Decisions <- MCDecisions
INVARIANTS CitesThePage FirstOfItsType CitesBothSides PassRestsOnReadAmounts
           EngineIsStricter TextractCeiling MemoTellsAll FigureTraces ReceiptIsDecided
CHECK_DEADLOCK FALSE
