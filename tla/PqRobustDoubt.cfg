\* Three attempts, three questions.
SPECIFICATION FairSpec
CONSTANTS
 Attempts = 3
 MaxChecks = 3
INVARIANTS SuccessIsDurable
CHECK_DEADLOCK FALSE
