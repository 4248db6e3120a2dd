CONSTANTS
  MaxCalls = 2
  MaxSuppress = 1
  MaxDepth = 1
  OptionSpace <- MCWerrorOptions
  Stds = {sAllowed, sWarned, sDenied}
  AllowStd = {sAllowed}
  WarnStd = {sWarned}
SPECIFICATION Spec
INVARIANT WerrorCountsLegacyWarnings
\* The process ends by exit(); a terminated state has no successor.
CHECK_DEADLOCK FALSE
