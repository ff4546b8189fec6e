SPECIFICATION Spec
CONSTANTS
  Order <- MCOrder
  Packages = {"p"}
  Boxes = {"c", "d"}
  Above <- MCAbove
  Outside <- MCOutside
  Values = {1, 2}
  Starts <- MCStarts
  Manifests <- MCManifests
  Hubs = {h1, h2}
  MaxEdits = 1
  MaxRevisions = 1
  MaxFaults = 1
INVARIANTS
  TypeOK
  JournalExplains
PROPERTIES
  EditsSurvive
  ApplyEnds
CHECK_DEADLOCK FALSE
