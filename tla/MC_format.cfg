\* Every accepted template of up to three tokens and three specifiers, with
\* arrays one entry larger than the specifiers.
CONSTANTS
  MAX_ARGS = 4
  MaxSpecs = 3
  MaxTokens = 3
  Conversions <- MCConversions
SPECIFICATION Spec
INVARIANT TypeOK
INVARIANT FormatMatchesReference
\* One message is formatted; nothing follows it.
CHECK_DEADLOCK FALSE
