SPECIFICATION FairSpec
CONSTANTS
  UIntValues = 53
  Arguments <- MCArguments
  Limits <- MCLimits
INVARIANTS
  DepthFollowsArgument
  PrintsFibonacci
  CrossesOutMultiples
PROPERTY Ends
\* The program returns.
CHECK_DEADLOCK FALSE
