CONSTANTS
  Dossier = a1
  Apps <- TheDossier
  AppOf <- OfTheDossier
  Jobs = {j1}
  Docs = {d1, d2}
  NoDoc = NoDoc
  NoJob = NoJob
  DocFaults = {}
SPECIFICATION Spec
SYMMETRY Symmetry
INVARIANTS ReviewShowsResult
CHECK_DEADLOCK FALSE
