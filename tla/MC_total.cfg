CONSTANTS
  MaxCalls = 2
  MaxSuppress = 1
  MaxDepth = 1
  OptionSpace <- MCLimitOptions
  Stds = {sAllowed, sWarned, sDenied}
  AllowStd = {sAllowed}
  WarnStd = {sWarned}
SPECIFICATION Spec
INVARIANT TotalErrorLimit
\* The process ends by exit(); a terminated state has no successor.
CHECK_DEADLOCK FALSE
