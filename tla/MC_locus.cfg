\* Every line of up to seven characters, every pair of loci on it; the
\* codec over the boundary code points.
CONSTANTS
  Alphabet <- MCAlphabet
  MaxLen = 7
  CodecAlphabet <- MCCodecAlphabet
  TerminalWidths <- MCWidths
SPECIFICATION Spec
INVARIANT TypeOK
INVARIANT MarkerAligned
INVARIANT NoReadPastLine
INVARIANT CodecPrintable
INVARIANT CodecWidthMatchesRendering
INVARIANT CodecRoundTrip
\* One diagnostic is rendered; nothing follows it.
CHECK_DEADLOCK FALSE
