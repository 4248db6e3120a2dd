--------------------------- MODULE MC_LocusRender ---------------------------
EXTENDS LocusRender

\* A printable character and a control character, whose escape \x01 takes
\* four columns.
MCAlphabet == {65, 1}

\* A width at the smallest value keeping the offset inside the line, one
\* at which a combined rendering (loci within width - 10) is scrolled, and
\* INT_MAX, the width when stderr is not a terminal.
MCWidths == {5, 11, 2147483647}

\* COLUMNS set to a width of four or less.
MCNarrowWidths == {1, 2, 4}

\* Code points at every boundary of the width ranges: the last control
\* character, tab, the printable range, DEL, the ends of the \x, \u and \U
\* ranges.
MCCodecAlphabet ==
  {1, 9, 31, 32, 126, 127, 255, 256, 65535, 65536, 1114111, 2147483647}
=============================================================================
