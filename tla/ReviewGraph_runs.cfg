CONSTANTS
  Dossier = a1
  Apps <- TheDossier
  AppOf <- OfTheDossier
  Jobs = {j1, j2}
  Docs = {i1, p1}
  IdDocs = {i1}
  NoDoc = NoDoc
  NoJob = NoJob
  Decisions = {"APPROVED", "NEEDS_INFO"}
  MaxInvokes = 2
SPECIFICATION Spec
SYMMETRY Symmetry
INVARIANTS GraphTypeOK ResultIsOfItsJob ResultIsUndecided SnapshotUntilCrossed DecisionWasCommitted ThreadMirrorsReview
CHECK_DEADLOCK FALSE
