\* A review being asked for, an execution and the user, all on one run.
SPECIFICATION FairSpec
CONSTANTS
  c1 = c1
  c2 = c2
  DomainKind = {"ATTACHMENT_GENERATION", "CRITERIA_RUBRIC"}
  Opener = {c1}
  Executor = {c2}
  MaxVersion <- Versions
  MaxSince = 2
INVARIANTS
  ExecutedPlanWasResumed
  WaitingPlanIsCurrent
  CurrentResultsSurviveRebuild
  WaitingIsAnswerable
PROPERTY
  WaitingEndsOrStuck
CHECK_DEADLOCK FALSE
