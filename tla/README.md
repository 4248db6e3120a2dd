# TLA+ models of the gfortran diagnostic subsystem

This project models `src/src/gcc/fortran/error.c`. That file is the part of the
Fortran front end that records, buffers, formats and emits errors and warnings.
The rest of `src/` is compiler testsuite fixtures, and nothing there is modelled.

## The system

`error.c` is single-threaded. The parser calls it in an order the parser alone
decides, so the hard part is not concurrency. It is the long sequences of legal
calls that the parser may make, with state carried from one call to the next.

The pieces of state are:

* **Suppression and mode flags.**
  * `suppress_errors` is a nesting counter, changed by
    `gfc_push_suppress_errors` and `gfc_pop_suppress_errors`.
  * `warnings_not_errors` is set by `gfc_errors_to_warnings`.
  * `buffered_p` is set by `gfc_buffer_error`.
* **Two generations of tentative buffers.**
  * The legacy `*_1` entry points (`gfc_warning_1`, `gfc_error_1`,
    `gfc_error_now_1`, `gfc_warning_now_1`, `gfc_notify_std_1`) write into
    `warning_buffer` and `error_buffer`. Each buffer is a flag plus a message.
    They count in the file's own `errors` and `warnings`.
  * The common-diagnostics entry points (`gfc_warning`, `gfc_error`,
    `gfc_warning_now`, `gfc_error_now`, `gfc_notify_std`) hand each diagnostic
    to the shared `report_diagnostic`. That call counts it in the
    `errorcount`, `warningcount` and `werrorcount` of `gcc/diagnostic.c`.
  * When `buffered_p` is set, the text is diverted into `pp_error_buffer` or
    `pp_warning_buffer`. The count is then undone and remembered in
    `warningcount_buffered` and `werrorcount_buffered`, or in `error_buffer.flag`.
* **Commit and discard.**
  * `gfc_warning_check` and `gfc_error_check` print what is buffered and count
    it.
  * `gfc_clear_warning` and `gfc_clear_error` drop it.
  * `gfc_push_error`, `gfc_pop_error` and `gfc_free_error` save and restore the
    error buffer around speculative matching.
* **Termination.**
  * `gfc_increment_error_count` exits at `-fmax-errors` for the legacy counter.
  * `diagnostic.c` exits at `-fmax-errors` or `-Wfatal-errors` for the common
    counters.
  * `gfc_fatal_error` and `gfc_internal_error` always exit.
  * `gfc_get_errors` reports the sum of the two families of counters.
* **Pure layers.** Each of these turns values into text:
  * the output sink (`error_char`, `error_string`, `error_integer`);
  * the wide-character codec;
  * the format engine (`error_print`, a two-pass printf with positional
    arguments);
  * the locus renderer (`show_locus`, `show_loci`).

## Modules

### `GfcErrorState`

This module models the severity state machine and both buffer generations.
Every entry point that changes diagnostic state is one action, and the action
covers the whole function, including the nested `report_diagnostic` step and
the exit it may take.

The state is abstracted as follows:

* A message is the id of the call that produced it, a number in `1..MaxCalls`.
  `None` (0) stands for a NULL `error_buffer.message`.
* `out[d]` counts how many times message `d` reached stderr.
* `log` records each call's API, its severity and whether errors were
  suppressed at the time.
* `opts` is the command line (`-Werror`, `-w`, `-Wfatal-errors`,
  `-fmax-errors`). It is chosen once, in `Init`.
* `saved` is the stack of `gfc_error_buf`s pushed by callers. Its depth is
  bounded by `MaxDepth`.
* `status` says whether the compiler is running or how it exited. The value
  `"assert"` stands for a failed `gcc_assert`, and `"segv"` for `xstrdup(NULL)`.
* The standard of a `gfc_notify_std` call is one of three model values:
  allowed, warned, or an error (`Stds`, `AllowStd`, `WarnStd`).

Two definitions model `gcc/diagnostic.c`, which is not in `src/`, so they are
taken from the spec:

* `AfterErrorOutput` models the exit after an error, at the limit or under
  `-Wfatal-errors`.
* `NewWarningKind` models `-Werror` turning a warning into an error that is
  counted in `werrorcount`.

`MC_GfcErrorState` fixes the option sets that each run enumerates.

### `WideChar`

This module models the character codec:

* `WidecharDisplayLength` is `gfc_widechar_display_length`.
* `WideDisplayLength` is `gfc_wide_display_length`.
* `PrintWideCharIntoBuffer` is `print_wide_char_into_buffer`, with `HexDigits`
  as its right-to-left digit loop.

It is a library of operators with no state of its own. A character is a code
point, and rendered text is a sequence of ASCII codes. Its properties take a set
of characters and compare the codec with a reference reading of the escapes
(`FromHex`, `EscapeForm`). `LocusRender` applies them to a boundary alphabet
and to the characters of the source line, so they are checked in the `locus`
run. `gfc_wide_is_printable` lives in `scanner.c`, which
is outside `src/`, so `IsPrintable` is taken from the spec.

### `OutputSink`

This module models the characters behind the legacy entry points: `error_char`,
`error_string`, `error_uinteger` and `error_integer`, together with the
character-level life of `error_buffer` and `warning_buffer`.

* `buf[b]` is the `index`, `allocated` and contents of each buffer. `line` is
  the static unbuffered line. `stderr` is the list of lines written.
* `BufferChar` is the buffered path of `error_char`. It grows the buffer to
  `InitAlloc` and then doubles it. `LineChar` is the unbuffered path, which
  writes the line at `'\n'`. `oob` records a write past `allocated`.
* `ErrorInteger` formats a `long` of `LongBits` bits. Negating `LONG_MIN` is
  undefined behaviour. It is modelled as the wrap the build produces,
  `(-i) % 2^LongBits`.
* The actions are the legacy entry points, the checks, the clears and
  `gfc_push_error` / `gfc_pop_error` / `gfc_free_error`. `Issue` records the
  line each call should print (`RefLine`, which uses decimal digits by
  position).

### `TentativeDiagnostics`

This module is the abstract contract of the common-diagnostics buffers, with
counters, options and the legacy buffers left out.

* Each of two buffers holds at most one tentative diagnostic. A new report
  replaces it (`Report`), or prints at once and empties the buffer
  (`ReportNow`).
* The held diagnostic is printed once (`Commit`) or dropped (`Discard`).
* `Immediate` prints without touching a buffer.
* The error buffer can be saved on a stack (`Save`), restored (`Restore`) or
  its saved copy dropped (`Drop`).

`GfcErrorState` instantiates it as `TD`, mapping:

* `pp_error_buffer` and `pp_warning_buffer` to `pending`;
* the `pp` field of the snapshots to `stack`;
* the diagnostics issued through the common entry points, and their `out`
  counts, to `issued` and `printed`.

Legacy steps are stuttering steps of the abstraction.

### `CommonDiagnostics`

This module models the pretty-printer hooks. It composes them with the common
entry points and the output buffers `pp_warning_buffer` and `pp_error_buffer`,
down to the text each diagnostic prints.

* `FormatDecoder` is `gfc_format_decoder`. Each `%C` or `%L` prints `(1)`,
  moves the diagnostic's location to its locus, and sets `caret_char` to `'1'`.
* `LocusPrefix` and `KindPrefix` are `gfc_diagnostic_build_locus_prefix` and
  `gfc_diagnostic_build_prefix`. Text is abstracted to tuples and colour is
  left out.
* `Render` is `gfc_diagnostic_starter` plus `gfc_diagnostic_finalizer`, and
  produces one of two layouts:
  * the locus line, an empty line, the source line and the caret line, then the
    message;
  * or, when no excerpt was printed, one line `locus_prefix kind_prefix
    message`.
* `ShowsExcerpt` and `ReportDiagnostic` stand for `gcc/diagnostic.c`, which
  is not in `src/`, so they are marked `spec_modelled`. `spec.md` does not
  describe `last_location`. They model `diagnostic.c`'s behaviour as the
  comments in `error.c` state it (lines 799-810).
  * `diagnostic_show_locus` prints an excerpt only for a real location that
    differs from `last_location`, and then records it there.
  * `report_diagnostic` formats the message before it calls the starter.
* `ClearPpBuffer` is `gfc_clear_pp_buffer`. It empties a buffer and resets
  `last_location`.
* The actions are the whole functions:
  * `gfc_warning` and `gfc_error`, which clear their buffer and then report;
  * `gfc_warning_now` and `gfc_error_now`, which report without any clear;
  * the clears and the checks;
  * `gfc_push_error`, `gfc_pop_error` and `gfc_free_error`. Every move through
    `gfc_move_output_buffer_from_to` clears, so it resets `last_location`;
  * the mode switches;
  * `gfc_diagnostics_finish`.
* `stderr` is the sequence of diagnostics written. Each one records its
  location, whether it has an excerpt, and its lines.
* `error_buffer.flag`, which the checks test first, belongs to the legacy half
  in `GfcErrorState`. Here it is a nondeterministic input.

### `LocusRender`

This module models `show_loci` and `show_locus`. It reuses the codec through
`INSTANCE WideChar`.

* `Init` picks a source line of up to `MaxLen` characters and a terminal width.
* The one action, `ErrorPrint`, is the `show_loci (l1, l2)` call of
  `error_print`, for every pair of loci on that line.
* Each rendering records:
  * the header columns;
  * the scroll `offset`;
  * the source row (`SourceRow`, the loop that prints whole characters while
    width remains);
  * the marker row (`MarkerRow`);
  * whether the offset passed the line's NUL (`oob`).

### `FormatEngine`

This module models `error_print`, the two-pass formatter of the legacy entry
points.

* A template is a sequence of tokens: a literal, `%%`, or a specifier with a
  conversion and an explicit position (0 for none).
* `Init` picks a template that format checking would accept (`WellFormed`,
  taken from the spec because the checker is outside `src/`). The caller's
  va_list holds the argument of each non-`%C` position (`CallerArgs`).
* Each pass is a fold over the template:
  * `ScanFormat` and `ScanSpec` are the first pass, filling `arg[].type` and
    `spec[]`.
  * `ConvertArgs` and `ConvertArg` are the second pass. Each position takes a
    va_arg, or becomes locus `(1)`/`(2)`.
* `CopySpecs` is the copy to `spec[].u`. `SpecOverrun` is its read past
  `spec[]`.
* `EmitMessage` is the message walk.
* The action `ErrorPrint` (from `error_printf` or any legacy caller) stores
  what `ErrorPrintOf` returns: the printed values and the loci handed to
  `show_loci`.
* The reference (`RefText`, `RefLocus`) is what printf with positional
  arguments prints, with loci numbered in argument order.

## Runs

| run | module | cfg | checks | result |
|---|---|---|---|---|
| diagnostics | `MC_GfcErrorState` | `MC_diag.cfg` | `TypeOK`, `AssertionsHold`, `NewCountsMatchOutput`, `ErrorLimitPerCounter`, `TentativeRefinement` | pass |
| total_limit | `MC_GfcErrorState` | `MC_total.cfg` | `TotalErrorLimit` | violation |
| suppressed | `MC_GfcErrorState` | `MC_suppress.cfg` | `SuppressedIsSilent` | violation |
| werror_buffered | `MC_GfcErrorState` | `MC_werror.cfg` | `WerrorCountsLegacyWarnings` | violation |
| legacy_flag | `MC_GfcErrorState` | `MC_flag.cfg` | `LegacyFlagBacked` | violation |
| locus | `MC_LocusRender` | `MC_locus.cfg` | `TypeOK`, `MarkerAligned`, `NoReadPastLine`, `CodecPrintable`, `CodecWidthMatchesRendering`, `CodecRoundTrip` | pass |
| fits_terminal | `MC_LocusRender` | `MC_fits.cfg` | `FitsTerminal` | violation |
| narrow_terminal | `MC_LocusRender` | `MC_narrow.cfg` | `NoReadPastLine` | violation |
| format | `MC_FormatEngine` | `MC_format.cfg` | `TypeOK`, `FormatMatchesReference` | pass |
| spec_overrun | `MC_FormatEngine` | `MC_specs.cfg` | `FormatMatchesReference` | violation |
| caret_context | `MC_CommonDiagnostics` | `MC_caret.cfg` | `ExcerptShown` | violation |
| output | `MC_OutputSink` | `MC_output.cfg` | `TypeOK`, `StderrLinesIssued`, `SavedFits`, `NoOutOfBoundsWrite` | pass |

### Passing runs

* **diagnostics.**
  * The run covers all 16 option combinations of `-Werror`, `-w`,
    `-Wfatal-errors` and `-fmax-errors` (0 or 2).
  * `gfc_warning_check` never fails its assertion that exactly one buffered
    count is set.
  * The `diagnostic.c` counters equal the number of common-API diagnostics
    actually printed, per severity. A buffered diagnostic is therefore counted
    once when committed and never when discarded.
  * Whichever counter reaches `-fmax-errors` stops the compiler, on its own.
  * `TentativeRefinement`: every step refines `TentativeDiagnostics`. A
    buffered diagnostic reaches stderr only when the check that flushes its
    buffer runs. It is never printed twice, never printed after it was
    discarded, and comes back from a snapshot only through `gfc_pop_error`.
    This holds across nested pushes, flushes between a push and its pop, and
    frees.
* **locus.** Over every line of up to seven characters, every terminal width
  of 5, 11 and `INT_MAX`, and every pair of loci:
  * the two markers stand under their characters, even after escapes and
    horizontal scrolling;
  * the offset never passes the end of the line;
  * over the boundary code points 1, 9, 31, 32, 126, 127, 255, 256, 65535,
    65536, 0x10FFFF and 2^31-1, and the line's characters, every rendering is
    printable ASCII, its length is the display width, and it reads back as its
    character.
* **format.** Over every accepted template of up to three tokens (implicit or
  positional, with `%d`, `%s`, `%C`, `%L`, `%%` and literal text):
  * every specifier prints the argument at its position;
  * loci print as `(1)` and `(2)` in argument order;
  * `%C` consumes no va_arg;
  * `show_loci` gets the same loci;
  * no value is ever taken from an unset member of the argument union.

* **output.** Over up to three legacy calls, each printing the string `"A"` or
  one of the integers `LONG_MIN`, -1, 0 and `LONG_MAX` of an 8-bit `long`,
  under any buffering and any push/pop/free sequence of depth 1:
  * every line on stderr is a line some call should print (the `LONG_MIN`
    line included);
  * a saved message always fits back into `error_buffer` for
    `gfc_pop_error`;
  * no character is written past `allocated`, in the buffers or in the
    static line.

### Violation runs

Each violation run is a real disagreement, reported in the `findings` of
`PROJECT.json`:

* **total_limit.** The two counter families are limited separately. The total
  that `gfc_get_errors` reports can reach the limit while the compiler keeps
  going.
* **suppressed.** Warnings ignore `suppress_errors`.
* **werror_buffered.** Under `-Werror`, a legacy warning counts as an error
  when printed immediately, but only as a warning when it is buffered and
  flushed.
* **legacy_flag.** The counterexample is a single call, with buffering off:
  * `gfc_warning_1` prints and counts the warning (line 837), but also sets
    `warning_buffer.flag` (line 824), with no message behind it.
  * A later `gfc_warning_check` counts the warning a second time (line 1308)
    and prints nothing.
  * `gfc_error_1` and `gfc_error_now_1` set `error_buffer.flag` the same way.
    The trace does not show those paths.
* **caret_context.** The run finds a four-step trace:
  1. `gfc_buffer_error (1)`.
  2. `gfc_warning` at location l1. It clears `pp_warning_buffer`, which resets
     `last_location`. It then formats the warning, with its excerpt, into the
     buffer, which sets `last_location` to l1.
  3. `gfc_error_now` at l1. It clears nothing, finds l1 in `last_location`,
     and prints without its source excerpt.
  4. The result: the error is the first thing on stderr. The warning, if it is
     flushed at all, comes after it.

  The comment in `gfc_clear_pp_buffer` says the reset is there because
  "otherwise we may skip caret lines when we actually give a diagnostic". The
  immediate entry points bypass it.
* **fits_terminal.** The shortest counterexample is the tie-break at line 389:
  * the line is two `\x01` characters on an 11-column terminal, with both
    loci at the NUL;
  * `c2 += 1` moves `'2'` one character, and the NUL is four columns wide;
  * so the marker row is 13 columns long, with `'2'` at column 12.

  Two other overruns violate `FitsTerminal` as well. The project does not
  record either one as a finding, because this run reports only the first
  violation:
  * the scroll offset counts characters while the markers advance by columns
    (line 393);
  * the line cut prints a whole escape at its last column (line 405).
* **narrow_terminal.** With `COLUMNS` at most 4, the offset passes the line's
  NUL and `show_locus` reads outside the line.
* **spec_overrun.** With `MAX_ARGS` specifiers (scaled from 10 to 3), the copy
  loop reads `spec[MAX_ARGS]` looking for its `-1` sentinel.

### Mutants

Each property of a passing run is shown to catch a plausible slip in the code.
The full list is the `mutants` of `PROJECT.json`. Examples:

* a missing reset of the buffered counts;
* `>` instead of `>=` at the error limit;
* a release build's unchecked pop;
* `<=` at the `\x` boundary;
* hex digits stored in reverse;
* a tab copied verbatim;
* a wider `show_loci` margin;
* a scroll margin of 6;
* `%C` falling through to `va_arg`;
* a conversion loop that stops one position short;
* `i <= 0` for `i < 0` in `error_integer`;
* growing the buffer one character late;
* no room kept for the line's NUL;
* `gfc_push_error` copying `pp_error_buffer` without clearing it.

## Bounds

* **`MaxCalls = 2`.** Each `GfcErrorState` run allows two diagnostic-issuing
  calls. Two is the least number at which one diagnostic can interact with
  another. Mode, buffer and stack calls are unbounded except by the finite
  state.
* **`MaxSuppress = 1`.** One level of nesting already distinguishes suppressed
  from not suppressed.
* **`MaxDepth`.** This is 2 in `diagnostics`, so that a push can happen while
  another is outstanding, and 1 elsewhere.
* **`-fmax-errors`.** Runs use 0 (no limit) or 2. 2 is the smallest limit that
  two counters can share.
* **Lines of seven characters** over `{A, \x01}` in `LocusRender`. This is
  enough for a four-column escape to push a marker across the margin of 5 and
  the `show_loci` margin of 10.
* **Terminal widths.**
  * 5 is the narrowest width at which the offset formula stays inside the
    line.
  * 11 is the narrowest width at which `show_loci` puts two distinct loci in one
    rendering.
  * `INT_MAX` is the non-tty case.
  * Widths 1, 2 and 4 are the narrow violation.
* **Output sink.**
  * `LongBits = 8` stands for a 32-bit `long`. The edges `LONG_MIN`, -1, 0
    and `LONG_MAX` are the same at every width.
  * `InitAlloc = 4` stands for the 1000 bytes of the first allocation, so a
    short message already makes the buffer grow and double.
  * `MaxMsgs = 3` and `MaxDepth = 1` allow a message buffered after a push,
    and a pop over it.
* **Format templates.**
  * Up to three tokens and three specifiers, with `MAX_ARGS = 4`: one entry to
    spare, as the code assumes.
  * The violation run uses `MAX_ARGS = 3`. What matters is only how the number
    of specifiers compares with `MAX_ARGS`, so this scaled-down case shows the
    same edge as 10 specifiers with the real `MAX_ARGS` of 10.
* **`MC_caret`.**
  * Three calls over two locations. This is enough for a buffered diagnostic
    and an immediate one to share a location, with a location-less call
    between them.
  * Depth 1 and suppression depth 1.
  * Both values of `-fdiagnostics-show-caret` and of `-fshow-column`.

## Fairness and liveness

No fairness is assumed and no liveness is checked. The code has no threads or
callbacks of its own. Whether and when `gfc_error_check` is called is up to the
parser, which is outside the model, so nothing in `error.c` guarantees that any
step is ever taken.

The only progress the code itself guarantees is that a call runs to
completion. Each call is one atomic action in these models, so there is
nothing to state there. Splitting a call into steps with weak fairness would
only show that the steps end.

The configurations say `CHECK_DEADLOCK FALSE`, for two reasons:

* In `GfcErrorState`, every way out of `status = "running"` is an `exit()` of
  the compiler, and the process really stops there.
* The other modules model one call (one diagnostic rendered or formatted),
  after which nothing follows.

## Not modelled

* Colour escapes and the exact spelling of prefixes. `CommonDiagnostics`
  keeps which parts a line has.
* Message text and translation (`_()`). `FormatEngine` keeps a value's
  identity, not its characters.
* `gfc_print_wide_char`'s shared static buffer (line 308). The callers that
  keep two of its results at once are outside `src/`. `WideChar` states what
  one call renders.
* Positions beyond `MAX_ARGS` (line 581). `WellFormed` excludes them, as the
  format checking of callers does.
* The testsuite fixtures under `src/src/gcc/testsuite` and
  `src/src/libstdc++-v3/testsuite`. They test targets unrelated to this
  subsystem.
