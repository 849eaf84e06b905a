SPECIFICATION Spec
CONSTANTS
  Items = {"risk"}
  Prompts = {"risk"}
  Admins = {ada, bob, cyd}
  Nobody = nobody
  MaxVersions = 2
  MaxOverlap = 2
  MaxDate = 1
SYMMETRY AdminSymmetry
INVARIANTS
  FourEyes
  OnePublished
  ServedTextWasApproved
PROPERTIES
  ServiceNeverLost
CHECK_DEADLOCK FALSE
