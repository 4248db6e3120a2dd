------------------------------ MODULE OutputSink ------------------------------
(***************************************************************************)
(* The character path of gfortran's legacy diagnostics in error.c:         *)
(* error_char, which appends to the current gfc_error_buf when buffered_p  *)
(* and otherwise collects a line in a static buffer handed to fputs at     *)
(* '\n'; error_string and error_integer / error_uinteger, which feed it;   *)
(* and the lifecycle of the two reusable buffers, error_buffer and         *)
(* warning_buffer: filled by the *_1 entry points, printed by the checks,  *)
(* saved and restored by gfc_push_error / gfc_pop_error.                   *)
(*                                                                         *)
(* A buffer keeps its flag, index, allocated size and the characters       *)
(* written into message[] so far (mem).  stderr is the sequence of chunks  *)
(* passed to fputs.  A message body, what error_print produces, is one     *)
(* value (a string or a long) and the closing '\n'.  The counters and the  *)
(* early returns on inhibit_warnings / suppress_errors are the concern of  *)
(* GfcErrorState; here a call that returns early is a step that does       *)
(* nothing.                                                                *)
(***************************************************************************)
EXTENDS Integers, Sequences, SequencesExt

CONSTANTS
  LongBits,    \* the width of long (32 on arm-none-eabi)
  InitAlloc,   \* the first allocation of a buffer (1000 in error.c)
  Ints,        \* the longs passed to error_integer
  MaxMsgs,     \* the most messages issued
  MaxDepth     \* the most gfc_error_bufs saved at once

VARIABLES
  buffered_p,  \* gfc_buffer_error's flag
  cur,         \* cur_error_buffer: "error", "warning" or "none" (NULL)
  buf,         \* error_buffer and warning_buffer
  line,        \* error_char's static line, allocated and index
  stderr,      \* the chunks written to stderr, in order
  saved,       \* the gfc_error_bufs of callers of gfc_push_error
  status,      \* "running", or how the compiler stopped
  oob,         \* a write or read beyond an allocation happened
  issued,      \* the lines the issued messages should print as
  nmsgs        \* messages issued so far

vars == <<buffered_p, cur, buf, line, stderr, saved, status, oob, issued,
          nmsgs>>

NUL == 0
NL == 10
Minus == 45
Zero == 48
LetterA == 65

Bufs == {"error", "warning"}

\* A message: a %s argument or a %d argument.
Msgs == {[kind |-> "str", s |-> <<LetterA>>]} \cup [kind : {"int"}, i : Ints]

-----------------------------------------------------------------------------
(* error_uinteger, error_integer, error_string.                            *)

\* A plausible slip: the radix of the hex escapes (i & 0x0F, i >>= 4).
RECURSIVE UDigitsHex(_)
UDigitsHex(u) ==
  IF u = 0 THEN <<>> ELSE UDigitsHex(u \div 16) \o <<Zero + (u % 16)>>

\* The digits written right to left into int_buf while i > 0.
RECURSIVE UDigits(_)
UDigits(u) == IF u = 0 THEN <<>> ELSE UDigits(u \div 10) \o <<Zero + (u % 10)>>

\* error_uinteger: "0" for zero, else the digits.
ErrorUinteger(u) == IF u = 0 THEN <<Zero>> ELSE UDigits(u)

\* A plausible slip: the sign test made inclusive.
ErrorIntegerNonPositive(i) ==
  IF i <= 0 THEN <<Minus>> \o ErrorUinteger((-i) % 2^LongBits)
  ELSE ErrorUinteger(i % 2^LongBits)

\* error_integer: u = (unsigned long) -i after a '-' for a negative i.  For
\* LONG_MIN the negation overflows; the build's neg instruction wraps, and
\* the cast to unsigned long then gives 2^(LongBits-1).
ErrorInteger(i) ==
  IF i < 0 THEN <<Minus>> \o ErrorUinteger((-i) % 2^LongBits)
  ELSE ErrorUinteger(i % 2^LongBits)

\* error_string: the characters up to the terminating NUL.
ErrorString(s) ==
  LET nul == {k \in DOMAIN s : s[k] = NUL}
  IN  IF nul = {} THEN s ELSE SubSeq(s, 1, Min(nul) - 1)

\* What error_print sends to error_char for a message: its value, then the
\* '\n' it always ends with.
Body(m) ==
  (IF m.kind = "str" THEN ErrorString(m.s) ELSE ErrorInteger(m.i)) \o <<NL>>

-----------------------------------------------------------------------------
(* error_char.                                                             *)

Grow(a) == IF a > 0 THEN a * 2 ELSE InitAlloc

\* A plausible slip: the buffer grown only once index is past allocated.
BufferCharLate(b, c) ==
  LET a == IF b.index > b.allocated THEN Grow(b.allocated) ELSE b.allocated
  IN  [b EXCEPT !.allocated = a,
                !.mem = IF b.index < Len(b.mem) THEN [@ EXCEPT ![b.index + 1] = c]
                        ELSE Append(@, c),
                !.index = @ + 1]

\* The buffered branch: grow message[] to 1000, then double, when index
\* reaches allocated; then message[index++] = c.
BufferChar(b, c) ==
  LET a == IF b.index >= b.allocated THEN Grow(b.allocated) ELSE b.allocated
  IN  [b EXCEPT !.allocated = a,
                !.mem = IF b.index < Len(b.mem) THEN [@ EXCEPT ![b.index + 1] = c]
                        ELSE Append(@, c),
                !.index = @ + 1]

\* A plausible slip: the line grown at index >= allocated, without the
\* room for the terminating NUL.
LineCharNoRoom(l, c) ==
  LET a == IF l.index >= l.allocated THEN Grow(l.allocated) ELSE l.allocated
  IN  [index |-> l.index + 1, allocated |-> a, text |-> Append(l.text, c)]

\* The unbuffered branch for c # 0: grow when index + 1 >= allocated, then
\* line[index++] = c.
LineChar(l, c) ==
  LET a == IF l.index + 1 >= l.allocated THEN Grow(l.allocated) ELSE l.allocated
  IN  [index |-> l.index + 1, allocated |-> a, text |-> Append(l.text, c)]

\* The sink as one record, so that a run of error_char calls is a fold.
Sink == [buf |-> buf, line |-> line, stderr |-> stderr, oob |-> oob]

\* error_char (c) with the given buffered_p and cur_error_buffer.
ErrorChar(bp, b, k, c) ==
  IF bp
  THEN LET nb == BufferChar(k.buf[b], c)
       IN  [k EXCEPT !.buf[b] = nb, !.oob = @ \/ Len(nb.mem) > nb.allocated]
  ELSE IF c = NUL THEN k
  ELSE LET nl == LineChar(k.line, c)
       IN  IF c # NL THEN [k EXCEPT !.line = nl]
           \* line[index] = '\0'; fputs (line, stderr); index = 0.
           ELSE [k EXCEPT !.line = [index |-> 0, allocated |-> nl.allocated,
                                    text |-> <<>>],
                          !.stderr = Append(@, nl.text),
                          !.oob = @ \/ nl.index >= nl.allocated]

\* A run of error_char calls.
ErrorChars(bp, b, k, s) == FoldLeft(LAMBDA acc, c : ErrorChar(bp, b, acc, c), k, s)

\* The characters fputs (message) prints: those before the first NUL.
\* A message with no NUL in what was written is read past its end.
Terminated(mem) == \E k \in DOMAIN mem : mem[k] = NUL
StrOf(mem) == ErrorString(mem)

-----------------------------------------------------------------------------
(* The reference: the decimal text of a long, by its digit positions.      *)

RECURSIVE NumDigits(_)
NumDigits(n) == IF n < 10 THEN 1 ELSE 1 + NumDigits(n \div 10)

RefDecimal(i) ==
  LET n == IF i < 0 THEN -i ELSE i
      d == NumDigits(n)
  IN  (IF i < 0 THEN <<Minus>> ELSE <<>>)
        \o [j \in 1 .. d |-> Zero + ((n \div 10^(d - j)) % 10)]

RefLine(m) ==
  (IF m.kind = "str" THEN m.s ELSE RefDecimal(m.i)) \o <<NL>>

-----------------------------------------------------------------------------
NoMem == [flag |-> FALSE, index |-> 0, allocated |-> 0, mem |-> <<>>]

\* The zero-initialised statics, after gfc_error_init_1.
Init ==
  /\ buffered_p = FALSE
  /\ cur = "none"
  /\ buf = [b \in Bufs |-> NoMem]
  /\ line = [index |-> 0, allocated |-> 0, text |-> <<>>]
  /\ stderr = <<>>
  /\ saved = <<>>
  /\ status = "running"
  /\ oob = FALSE
  /\ issued = {}
  /\ nmsgs = 0

Running == status = "running"

\* Install the sink record produced by a run of error_char calls.
SetSink(k) ==
  /\ buf' = k.buf
  /\ line' = k.line
  /\ stderr' = k.stderr
  /\ oob' = k.oob

Issue(m) ==
  /\ nmsgs < MaxMsgs
  /\ nmsgs' = nmsgs + 1
  /\ issued' = issued \cup {RefLine(m)}

\* gfc_buffer_error (flag).
BufferError(f) ==
  /\ Running
  /\ buffered_p' = f
  /\ UNCHANGED <<cur, buf, line, stderr, saved, status, oob, issued, nmsgs>>

\* flag = 1, index = 0, cur_error_buffer = &b; error_print; error_char
\* ('\0'): the body of gfc_warning_1, of both branches of gfc_error_1 and
\* of gfc_notify_std_1.
Legacy(b, m) ==
  LET k0 == [Sink EXCEPT !.buf[b].flag = TRUE, !.buf[b].index = 0]
  IN  ErrorChars(buffered_p, b, k0, Body(m) \o <<NUL>>)

\* gfc_warning_1.
Warning1(m) ==
  /\ Running
  /\ Issue(m)
  /\ SetSink(Legacy("warning", m))
  /\ cur' = "warning"
  /\ UNCHANGED <<buffered_p, saved, status>>

\* gfc_error_1: error_buffer, or warning_buffer when warnings_not_errors.
Error1(m) ==
  /\ Running
  /\ Issue(m)
  /\ \E b \in Bufs :
       /\ SetSink(Legacy(b, m))
       /\ cur' = b
  /\ UNCHANGED <<buffered_p, saved, status>>

\* gfc_notify_std_1: a warning or an error; unbuffered, the flag is
\* cleared again after the message is printed.
NotifyStd1(m) ==
  /\ Running
  /\ Issue(m)
  /\ \E b \in Bufs :
       LET k == Legacy(b, m)
       IN  /\ SetSink(IF buffered_p THEN k ELSE [k EXCEPT !.buf[b].flag = FALSE])
           /\ cur' = b
  /\ UNCHANGED <<buffered_p, saved, status>>

\* gfc_warning_now_1: buffered_p is false for the message and restored.
WarningNow1(m) ==
  /\ Running
  /\ Issue(m)
  /\ SetSink(ErrorChars(FALSE, cur, Sink, Body(m) \o <<NUL>>))
  /\ UNCHANGED <<buffered_p, cur, saved, status>>

\* gfc_error_now_1: error_buffer's flag and index are set, but the
\* message goes to stderr with buffered_p false.
ErrorNow1(m) ==
  /\ Running
  /\ Issue(m)
  /\ LET k0 == [Sink EXCEPT !.buf["error"].flag = TRUE, !.buf["error"].index = 0]
     IN  SetSink(ErrorChars(FALSE, "error", k0, Body(m) \o <<NUL>>))
  /\ cur' = "error"
  /\ UNCHANGED <<buffered_p, saved, status>>

\* fputs (b.message) when message is not NULL, then the flag is cleared:
\* gfc_warning_check and gfc_error_check for a legacy message.
Flush(b) ==
  /\ Running
  /\ buf[b].flag
  /\ IF buf[b].allocated = 0 THEN UNCHANGED <<stderr, oob>>
     ELSE /\ stderr' = Append(stderr, StrOf(buf[b].mem))
          /\ oob' = (oob \/ ~Terminated(buf[b].mem))
  /\ buf' = [buf EXCEPT ![b].flag = FALSE]
  /\ UNCHANGED <<buffered_p, cur, line, saved, status, issued, nmsgs>>

WarningCheck == Flush("warning")
ErrorCheck == Flush("error")

\* gfc_clear_warning, gfc_clear_error.
Clear(b) ==
  /\ Running
  /\ buf' = [buf EXCEPT ![b].flag = FALSE]
  /\ UNCHANGED <<buffered_p, cur, line, stderr, saved, status, oob, issued, nmsgs>>

\* gfc_push_error: err->flag = error_buffer.flag, err->message =
\* xstrdup (error_buffer.message) when set (a NULL message crashes), then
\* error_buffer.flag = 0.
PushError ==
  /\ Running
  /\ Len(saved) < MaxDepth
  /\ LET e == buf["error"]
     IN  IF e.flag /\ e.allocated = 0
         THEN /\ status' = "segv"
              /\ UNCHANGED <<buf, saved>>
         ELSE /\ saved' = Append(saved, [flag |-> e.flag,
                                         message |-> IF e.flag THEN StrOf(e.mem)
                                                     ELSE <<>>])
              /\ buf' = [buf EXCEPT !["error"].flag = FALSE]
              /\ UNCHANGED status
  /\ UNCHANGED <<buffered_p, cur, line, stderr, oob, issued, nmsgs>>

\* gfc_pop_error: error_buffer.flag = err->flag and, when set, the saved
\* message with its NUL memcpy'd over message[] after
\* gcc_assert (len <= error_buffer.allocated); the copy is freed.
PopError ==
  /\ Running
  /\ saved # <<>>
  /\ LET e   == buf["error"]
         top == Last(saved)
         len == Len(top.message) + 1
     IN  /\ saved' = Front(saved)
         /\ IF top.flag /\ len > e.allocated
            THEN /\ status' = "assert"
                 /\ UNCHANGED buf
            ELSE /\ buf' = [buf EXCEPT !["error"].flag = top.flag,
                             !["error"].mem =
                               IF top.flag
                               THEN (top.message \o <<NUL>>)
                                      \o SubSeq(@, len + 1, Len(@))
                               ELSE @]
                 /\ UNCHANGED status
  /\ UNCHANGED <<buffered_p, cur, line, stderr, oob, issued, nmsgs>>

\* gfc_free_error: the saved copy is freed; error_buffer is kept.
FreeError ==
  /\ Running
  /\ saved # <<>>
  /\ saved' = Front(saved)
  /\ UNCHANGED <<buffered_p, cur, buf, line, stderr, status, oob, issued, nmsgs>>

Next ==
  \/ \E f \in BOOLEAN : BufferError(f)
  \/ \E m \in Msgs : Warning1(m) \/ Error1(m) \/ NotifyStd1(m)
                     \/ WarningNow1(m) \/ ErrorNow1(m)
  \/ WarningCheck \/ ErrorCheck
  \/ \E b \in Bufs : Clear(b)
  \/ PushError \/ PopError \/ FreeError

Spec == Init /\ [][Next]_vars

-----------------------------------------------------------------------------
Chars == {NUL, NL, Minus, LetterA} \cup (Zero .. Zero + 9)

TypeOK ==
  /\ buffered_p \in BOOLEAN
  /\ cur \in Bufs \cup {"none"}
  /\ \A b \in Bufs :
       /\ buf[b].flag \in BOOLEAN
       /\ buf[b].index \in 0 .. Len(buf[b].mem)
       /\ buf[b].mem \in Seq(Chars)
  /\ line.index = Len(line.text)
  /\ \A k \in DOMAIN stderr : stderr[k] \in Seq(Chars)
  /\ status \in {"running", "segv", "assert"}
  /\ nmsgs \in 0 .. MaxMsgs

\* Each chunk that reaches stderr, from the line buffer of an unbuffered
\* message or from fputs of a buffered one, is exactly the text of a
\* message some entry point issued: the decimal of its long (LONG_MIN
\* included) or its string, and one '\n'; reusing a buffer for shorter
\* messages, and restoring a saved one over it, never prints a mixture.
StderrLinesIssued == \A k \in DOMAIN stderr : stderr[k] \in issued

\* gcc_assert (len <= error_buffer.allocated) in gfc_pop_error can never
\* fail: each saved message, with its NUL, fits in error_buffer's
\* allocation as it is now, whatever was buffered since the push.
SavedFits ==
  \A k \in DOMAIN saved :
    saved[k].flag => Len(saved[k].message) + 1 <= buf["error"].allocated

\* error_char never writes past message[] or line[] (including the NUL
\* stored at line[index] before fputs), and fputs never reads past a
\* buffered message for want of its NUL.
NoOutOfBoundsWrite == ~oob
=============================================================================
