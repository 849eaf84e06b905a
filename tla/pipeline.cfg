SPECIFICATION Spec
CONSTANTS
  Sections = {risk, terms}
  Texts = {t1, t2, t3}
  NoText = none
  RevisionLimits = {0, 1, 2, 3}
  MaxSectionAttempts = 2
SYMMETRY PipelineSymmetry
INVARIANTS
  RevisionsBounded
  ChecksDescribeTheText
CHECK_DEADLOCK FALSE
