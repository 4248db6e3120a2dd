------------------------------ MODULE WideChar ------------------------------
(***************************************************************************)
(* The character codec of gfortran's error.c: gfc_widechar_display_length, *)
(* gfc_wide_display_length and print_wide_char_into_buffer.  A character   *)
(* is a code point (gfc_char_t, an unsigned 32-bit value, of which TLC     *)
(* reaches the values below 2^31); rendered text is a sequence of ASCII    *)
(* codes.  The properties take the set of code points to check; the       *)
(* locus run checks them over the boundaries of every escape range.        *)
(***************************************************************************)
EXTENDS Integers, Sequences, SequencesExt

Tab == 9
Space == 32
Backslash == 92

\* ASCII: the printable characters, the only ones the renderer may emit.
PrintableAscii == 32 .. 126

\* gfc_wide_is_printable (scanner.c): c < 256 && ISPRINT (c).
IsPrintable(c) == c \in PrintableAscii

\* static const char xdigit[16] = { '0', ..., '9', 'A', ..., 'F' }.
xdigit == [k \in 0 .. 15 |-> IF k < 10 THEN 48 + k ELSE 55 + k]

\* A plausible slip: the boundary of the \x form tested with <=.
WidecharDisplayLengthInclusive(c) ==
  CASE IsPrintable(c) \/ c = Tab -> 1
    [] c <= 2^8                  -> 4
    [] c < 2^16                  -> 6
    [] OTHER                     -> 10

\* gfc_widechar_display_length: 1 for printable and tab, else the length of
\* the \xNN, \uNNNN or \UNNNNNNNN escape.
WidecharDisplayLength(c) ==
  CASE IsPrintable(c) \/ c = Tab -> 1
    [] c < 2^8                   -> 4
    [] c < 2^16                  -> 6
    [] OTHER                     -> 10

\* gfc_wide_display_length: the sum over the characters up to the NUL.
WideDisplayLength(s) ==
  FoldLeft(LAMBDA acc, c : acc + WidecharDisplayLength(c), 0, s)

\* A plausible slip: the digits stored from the left, least significant first.
RECURSIVE HexDigitsReversed(_, _)
HexDigitsReversed(c, n) ==
  IF n = 0 THEN <<>>
  ELSE <<xdigit[c % 16]>> \o HexDigitsReversed(c \div 16, n - 1)

\* The n low hex digits of c, most significant first: the escape branches
\* fill buf from the right with xdigit[c & 0x0F] and shift c right by 4.
RECURSIVE HexDigits(_, _)
HexDigits(c, n) ==
  IF n = 0 THEN <<>>
  ELSE HexDigits(c \div 16, n - 1) \o <<xdigit[c % 16]>>

\* A plausible slip: the tab copied through instead of turned into a space.
PrintWideCharIntoBufferTabVerbatim(c) ==
  CASE IsPrintable(c) \/ c = Tab -> <<c>>
    [] c < 2^8  -> <<Backslash, 120>> \o HexDigits(c, 2)
    [] c < 2^16 -> <<Backslash, 117>> \o HexDigits(c, 4)
    [] OTHER    -> <<Backslash, 85>> \o HexDigits(c, 8)

\* print_wide_char_into_buffer: the text written into buf (its length is
\* the return value).  120, 117 and 85 are 'x', 'u' and 'U'.
PrintWideCharIntoBuffer(c) ==
  CASE IsPrintable(c) \/ c = Tab -> <<IF c = Tab THEN Space ELSE c>>
    [] c < 2^8  -> <<Backslash, 120>> \o HexDigits(c, 2)
    [] c < 2^16 -> <<Backslash, 117>> \o HexDigits(c, 4)
    [] OTHER    -> <<Backslash, 85>> \o HexDigits(c, 8)

-----------------------------------------------------------------------------
(* Reference reading of an escape, written from the escape syntax alone.   *)

HexValue(d) == IF d <= 57 THEN d - 48 ELSE d - 55

FromHex(ds) ==
  FoldLeft(LAMBDA acc, d : 16 * acc + HexValue(d), 0, ds)

\* The escape letter and digit count each range of code points must use.
EscapeForm(c) ==
  CASE c < 2^8  -> [tag |-> 120, digits |-> 2]
    [] c < 2^16 -> [tag |-> 117, digits |-> 4]
    [] OTHER    -> [tag |-> 85, digits |-> 8]

\* No character of S renders as anything but printable ASCII: tabs become
\* spaces and every other unprintable code point an escape, so a source
\* line cannot put control characters on the terminal.
RenderPrintable(S) ==
  \A c \in S :
    \A j \in DOMAIN PrintWideCharIntoBuffer(c) :
      PrintWideCharIntoBuffer(c)[j] \in PrintableAscii

\* The width gfc_widechar_display_length predicts for each character is
\* exactly the number of columns print_wide_char_into_buffer fills; the
\* scroll offset and the marker row of show_locus rely on the two agreeing.
WidthMatchesRendering(S) ==
  \A c \in S : WidecharDisplayLength(c) = Len(PrintWideCharIntoBuffer(c))

\* Every character's rendering reads back as that character: a printable
\* one as itself, a tab as a space, any other as the escape of its range
\* whose hex digits spell its code point.
RenderRoundTrip(S) ==
  \A c \in S :
    LET r == PrintWideCharIntoBuffer(c)
    IN  IF IsPrintable(c) \/ c = Tab
        THEN r = <<IF c = Tab THEN Space ELSE c>>
        ELSE /\ Len(r) = 2 + EscapeForm(c).digits
             /\ r[1] = Backslash /\ r[2] = EscapeForm(c).tag
             /\ FromHex(SubSeq(r, 3, Len(r))) = c
=============================================================================
