CONSTANTS
  Dossier = a1
  Apps <- TheDossier
  AppOf <- OfTheDossier
  Jobs = {j1}
  Docs = {d1, d2}
  NoDoc = NoDoc
  NoJob = NoJob
  DocFaults = {"storage", "commit", "crash"}
SPECIFICATION Spec
SYMMETRY Symmetry
INVARIANTS DocTypeOK AgreeUntilOverlap RowHasBytes NothingOrphaned
CHECK_DEADLOCK FALSE
