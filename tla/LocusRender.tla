----------------------------- MODULE LocusRender -----------------------------
(***************************************************************************)
(* The locus renderer of gfortran's error.c: show_loci, which decides      *)
(* whether two loci share one rendering, and show_locus, which prints the  *)
(* header, the horizontally scrolled source line and the marker row.       *)
(* A source line is a sequence of code points (lb->line, NUL-terminated    *)
(* after its last character); a locus is the offset of nextc in it.  The   *)
(* renderings show_loci produces for one diagnostic are the variable out.  *)
(* The file name, line number and "Included at" chain are left out: they   *)
(* are copied through and take no part in the layout.                      *)
(***************************************************************************)
EXTENDS Integers, Sequences, SequencesExt

CONSTANTS
  Alphabet,        \* the code points a source line may contain (no NUL)
  MaxLen,          \* the longest source line
  TerminalWidths,  \* the values gfc_get_terminal_width may return
  CodecAlphabet    \* the code points the codec properties range over

VARIABLES
  line,            \* the characters of l1->lb->line
  terminal_width,  \* set once by gfc_error_init_1
  out              \* the renderings of the diagnostic, in print order

vars == <<line, terminal_width, out>>

W == INSTANCE WideChar

NUL == 0
Digit1 == 49   \* '1'
Digit2 == 50   \* '2'

\* lb->line[k]: the characters, then the NUL at Len(ln).  An index past the
\* NUL reads outside the line buffer; the model reads a NUL there and the
\* rendering records the overrun (see oob).
CharAt(ln, k) == IF k < Len(ln) THEN ln[k + 1] ELSE NUL

\* The characters from lb->line[k] up to the NUL.
Rest(ln, k) == SubSeq(ln, k + 1, Len(ln))

Spaces(n) == [j \in 1 .. n |-> W!Space]

\* The digit printed at marker-row position i, if any.
MarkAt(i, m1, m2) ==
  IF i = m1 THEN <<Digit1>> ELSE IF i = m2 THEN <<Digit2>> ELSE <<>>

\* A plausible slip: the characters copied out as they are, unescaped.
RECURSIVE SourceRowRaw(_, _, _)
SourceRowRaw(ln, p, i) ==
  IF i <= 0 THEN <<>>
  ELSE <<CharAt(ln, p)>>
         \o SourceRowRaw(ln, p + 1, i - W!WidecharDisplayLength(CharAt(ln, p)))

\* The source-line loop of show_locus: print whole characters from p while
\* the remaining width i is positive.
RECURSIVE SourceRow(_, _, _)
SourceRow(ln, p, i) ==
  IF i <= 0 THEN <<>>
  ELSE W!PrintWideCharIntoBuffer(CharAt(ln, p))
         \o SourceRow(ln, p + 1, i - W!WidecharDisplayLength(CharAt(ln, p)))

\* The marker loop of show_locus: for each character before cmax, its
\* display width in columns, the first of them a '1' or '2' when the
\* character is at c1 or c2; then a digit for a locus at cmax itself.
RECURSIVE MarkerRow(_, _, _, _, _, _)
MarkerRow(ln, offset, i, m1, m2, cmax) ==
  IF i >= cmax THEN MarkAt(i, m1, m2)
  ELSE LET mark == MarkAt(i, m1, m2)
           spaces == W!WidecharDisplayLength(CharAt(ln, offset + i))
       IN  mark \o Spaces(spaces - Len(mark))
                \o MarkerRow(ln, offset, i + 1, m1, m2, cmax)

\* A plausible slip: the margin of 5 raised to 6.
ScrollOffsetMargin6(cmax, tw) == IF cmax > tw - 6 THEN cmax - tw + 6 ELSE 0

\* The horizontal offset: scroll right when the rightmost locus is within
\* five columns of the terminal's right edge.
ScrollOffset(cmax, tw) == IF cmax > tw - 5 THEN cmax - tw + 5 ELSE 0

\* show_locus (loc, c1, c2); -1 for a column means no marker.
ShowLocus(ln, c1, c2, tw) ==
  LET c2n    == IF c1 = c2 THEN c2 + 1 ELSE c2
      cmax   == IF c1 < c2n THEN c2n ELSE c1
      offset == ScrollOffset(cmax, tw)
      width  == W!WideDisplayLength(Rest(ln, offset))
      shown  == IF width > tw THEN tw - 1 ELSE width
  IN  [init   |-> FALSE,
       line   |-> ln,
       c1     |-> c1,
       c2     |-> c2,
       head   |-> SelectSeq(<<c1, c2>>, LAMBDA c : c > 0),
       offset |-> offset,
       src    |-> SourceRow(ln, offset, shown),
       marks  |-> MarkerRow(ln, offset, 0, c1 - offset, c2n - offset,
                            cmax - offset),
       oob    |-> offset > Len(ln)]

\* error_printf ("<During initialization>\n").
Placeholder ==
  [init |-> TRUE, line |-> <<>>, c1 |-> -1, c2 |-> -1, head |-> <<>>,
   offset |-> 0, src |-> <<>>, marks |-> <<>>, oob |-> FALSE]

NoLocus == [lb |-> "none", c |-> -1]

\* A locus on l1's line buffer or on another one; the other line is given
\* the same characters, since show_locus renders each buffer on its own.
Loci(ln) == [lb : {"same", "other"}, c : 0 .. Len(ln)]

\* A plausible slip: the show_loci margin made wider than show_locus's.
ShowLociWideMargin(ln, l1, l2, tw) ==
  IF l1 = NoLocus THEN <<Placeholder>>
  ELSE IF l2 = NoLocus THEN <<ShowLocus(ln, l1.c, -1, tw)>>
  ELSE IF l2.lb # l1.lb \/ l1.c - l2.c > tw - 4 \/ l2.c - l1.c > tw - 4
       THEN <<ShowLocus(ln, l1.c, -1, tw), ShowLocus(ln, -1, l2.c, tw)>>
       ELSE <<ShowLocus(ln, l1.c, l2.c, tw)>>

\* show_loci (l1, l2): one rendering with both markers when the loci share
\* a line buffer and are at most terminal_width - 10 apart, else one each.
ShowLoci(ln, l1, l2, tw) ==
  IF l1 = NoLocus THEN <<Placeholder>>
  ELSE IF l2 = NoLocus THEN <<ShowLocus(ln, l1.c, -1, tw)>>
  ELSE IF l2.lb # l1.lb \/ l1.c - l2.c > tw - 10 \/ l2.c - l1.c > tw - 10
       THEN <<ShowLocus(ln, l1.c, -1, tw), ShowLocus(ln, -1, l2.c, tw)>>
       ELSE <<ShowLocus(ln, l1.c, l2.c, tw)>>

-----------------------------------------------------------------------------
Init ==
  /\ line \in BoundedSeq(Alphabet, MaxLen)
  /\ terminal_width \in TerminalWidths
  /\ out = <<>>

\* error_print reaches "if (have_l1) show_loci (l1, l2)" with the loci its
\* first pass found; l1 may be a locus without a line buffer.
ErrorPrint ==
  /\ out = <<>>
  /\ \E l1 \in {NoLocus} \cup [lb : {"same"}, c : 0 .. Len(line)],
        l2 \in {NoLocus} \cup Loci(line) :
       out' = ShowLoci(line, l1, l2, terminal_width)
  /\ UNCHANGED <<line, terminal_width>>

Next == ErrorPrint

Spec == Init /\ [][Next]_vars

-----------------------------------------------------------------------------
Renderings == {out[k] : k \in DOMAIN out}

\* The 0-based position of a digit in the marker row, -1 if absent.
MarkColumn(r, d) ==
  IF \E j \in DOMAIN r.marks : r.marks[j] = d
  THEN (CHOOSE j \in DOMAIN r.marks : r.marks[j] = d) - 1
  ELSE -1

\* The column at which the character at c is printed in the source row.
DisplayColumn(r, c) == W!WideDisplayLength(SubSeq(r.line, r.offset + 1, c))

TypeOK ==
  /\ line \in Seq(Alphabet) /\ Len(line) <= MaxLen
  /\ terminal_width \in TerminalWidths
  /\ \A r \in Renderings :
       /\ \A j \in DOMAIN r.src : r.src[j] \in W!PrintableAscii
       /\ \A j \in DOMAIN r.marks : r.marks[j] \in {W!Space, Digit1, Digit2}

\* Each marker of a rendering whose loci differ stands exactly under the
\* character its locus points at, however wide the escapes before it, and
\* after the horizontal scroll; this needs show_loci's margin of 10 to keep
\* the left locus inside show_locus's window.
MarkerAligned ==
  \A r \in Renderings :
    ~r.init /\ r.c1 # r.c2 =>
      /\ r.c1 >= 0 => MarkColumn(r, Digit1) = DisplayColumn(r, r.c1)
      /\ r.c2 >= 0 => MarkColumn(r, Digit2) = DisplayColumn(r, r.c2)

\* show_locus never reads lb->line beyond its terminating NUL: the
\* horizontal offset stays within the line.
NoReadPastLine == \A r \in Renderings : ~r.oob

\* A rendering stays on the terminal: the source row is cut so as "not to
\* print more than what can show up on the terminal" (show_locus), and the
\* horizontal offset keeps the markers visible (spec 4.4); the marker row
\* ends with its rightmost marker.
FitsTerminal ==
  \A r \in Renderings :
    Len(r.src) <= terminal_width /\ Len(r.marks) <= terminal_width

\* The characters the codec is checked on: those of the line being rendered
\* and the boundaries of every escape range.
CodecChars == CodecAlphabet \cup ToSet(line)

\* print_wide_char_into_buffer emits only printable ASCII for the line's
\* characters and every boundary code point: tabs become spaces and every
\* other unprintable character an escape.
CodecPrintable == W!RenderPrintable(CodecChars)

\* gfc_widechar_display_length, which show_locus scrolls and places markers
\* by, agrees with the number of columns print_wide_char_into_buffer fills.
CodecWidthMatchesRendering == W!WidthMatchesRendering(CodecChars)

\* Every rendering of print_wide_char_into_buffer reads back as its
\* character.
CodecRoundTrip == W!RenderRoundTrip(CodecChars)
=============================================================================
