\* Templates with as many specifiers as spec[] has entries (MAX_ARGS = 10
\* in error.c, scaled down to 3): the copy loop looks for the terminating
\* pos of -1 one entry past the array.
CONSTANTS
  MAX_ARGS = 3
  MaxSpecs = 3
  MaxTokens = 3
  Conversions <- MCConversions
SPECIFICATION Spec
INVARIANT FormatMatchesReference
\* One message is formatted; nothing follows it.
CHECK_DEADLOCK FALSE
