SPECIFICATION Spec
CONSTANTS
  Sections = {"risk", "terms"}
  Late = {"terms"}
  Editors = {analyst, reviewer}
  Pipeline = orchestration
  Serialised = TRUE
  MaxTexts = 3
SYMMETRY EditorSymmetry
INVARIANTS
  
  SavesAreRetrievable
  SuggestionsLeaveOneTrace

  
  
CHECK_DEADLOCK FALSE
