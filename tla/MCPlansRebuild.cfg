\* The heads are rebuilt after an upstream plan was replaced.
SPECIFICATION Spec
CONSTANTS
  c1 = c1
  c2 = c2
  DomainKind = {"ATTACHMENT_GENERATION", "CRITERIA_RUBRIC"}
  Opener = {c1}
  Executor = {c2}
  MaxVersion <- Versions
  MaxSince = 2
PROPERTY
  InvalidatedStaysStale
CHECK_DEADLOCK FALSE
