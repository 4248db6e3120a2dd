\* Every line of up to seven characters, every pair of loci on it.
CONSTANTS
  Alphabet <- MCAlphabet
  MaxLen = 7
  CodecAlphabet <- MCCodecAlphabet
  TerminalWidths <- MCNarrowWidths
SPECIFICATION Spec
INVARIANT NoReadPastLine
\* One diagnostic is rendered; nothing follows it.
CHECK_DEADLOCK FALSE
