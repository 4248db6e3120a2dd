--------------------------- MODULE MC_OutputSink ---------------------------
EXTENDS OutputSink

\* LONG_MIN and LONG_MAX of an 8-bit long, -1 and 0: the sign, the wrap of
\* the negation and the zero case of error_uinteger.
MCInts == {-2^(LongBits - 1), -1, 0, 2^(LongBits - 1) - 1}
=============================================================================
