\* Three diagnostics at two locations, one snapshot, one suppression level,
\* both settings of -fdiagnostics-show-caret and -fshow-column.
CONSTANTS
  l1 = l1
  l2 = l2
  Locs <- MCLocs
  MaxCalls = 3
  MaxDepth = 1
  MaxSuppress = 1
SPECIFICATION Spec
INVARIANT ExcerptShown
