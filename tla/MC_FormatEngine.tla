--------------------------- MODULE MC_FormatEngine ---------------------------
EXTENDS FormatEngine

\* An integer, a string, the current locus and a locus argument: the four
\* ways pass 2 treats a position.
MCConversions == {"d", "s", "C", "L"}
=============================================================================
