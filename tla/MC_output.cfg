\* Three messages over an 8-bit long, with buffers first allocated 4
\* characters (1000 in error.c), so that messages of 2 to 6 characters
\* reach and cross each allocation boundary; one saved gfc_error_buf.
CONSTANTS
  LongBits = 8
  InitAlloc = 4
  Ints <- MCInts
  MaxMsgs = 3
  MaxDepth = 1
SPECIFICATION Spec
INVARIANT TypeOK
INVARIANT StderrLinesIssued
INVARIANT SavedFits
INVARIANT NoOutOfBoundsWrite
\* xstrdup (NULL) in gfc_push_error ends the process (status "segv").
CHECK_DEADLOCK FALSE
