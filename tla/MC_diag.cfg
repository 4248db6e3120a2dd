\* Two diagnostics, every combination of -Werror, -w, -Wfatal-errors and
\* -fmax-errors in {0, 2}, one level of suppression, two saved error states.
CONSTANTS
  MaxCalls = 2
  MaxSuppress = 1
  MaxDepth = 2
  OptionSpace <- MCOptionSpace
  Stds = {sAllowed, sWarned, sDenied}
  AllowStd = {sAllowed}
  WarnStd = {sWarned}
SPECIFICATION Spec
INVARIANT TypeOK
INVARIANT AssertionsHold
INVARIANT NewCountsMatchOutput
INVARIANT ErrorLimitPerCounter
PROPERTY TentativeRefinement
\* The process ends by exit(); a terminated state has no successor.
CHECK_DEADLOCK FALSE
