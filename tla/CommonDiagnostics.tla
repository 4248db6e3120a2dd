-------------------------- MODULE CommonDiagnostics --------------------------
(***************************************************************************)
(* The common-diagnostics path of gfortran's error.c as it reaches the     *)
(* text: gfc_format_decoder turning %C / %L into "(1)" and the diagnostic's *)
(* location, gfc_diagnostic_starter laying out the locus line, the source   *)
(* excerpt and the prefixed message (or, without an excerpt, one prefixed  *)
(* line), gfc_diagnostic_finalizer, and the output_buffers                 *)
(* pp_warning_buffer / pp_error_buffer that hold the text of a buffered    *)
(* diagnostic until gfc_warning_check / gfc_error_check flush it.          *)
(*                                                                         *)
(* diagnostic_show_locus (gcc/diagnostic.c) prints the excerpt only when   *)
(* the location differs from context->last_location and then records it;  *)
(* gfc_clear_pp_buffer resets last_location so that clearing a buffer does *)
(* not cost the next diagnostic its excerpt.  That shared last_location is *)
(* the state this module is about.                                         *)
(*                                                                         *)
(* Counters and options other than -fdiagnostics-show-caret and            *)
(* -fshow-column are in GfcErrorState; the legacy error_buffer.flag, which *)
(* gfc_warning_check / gfc_error_check test first, is an input here.       *)
(***************************************************************************)
EXTENDS Naturals, Sequences

CONSTANTS
  Locs,         \* source locations a %C / %L can denote
  MaxCalls,     \* diagnostics issued in one behaviour
  MaxDepth,     \* gfc_push_error nesting
  MaxSuppress   \* gfc_push_suppress_errors nesting

Unknown == "unknown"          \* UNKNOWN_LOCATION
Bufs    == {"warning", "error"}

VARIABLES
  opts,                 \* [show_caret, show_column]: the command line
  buffered_p, warnings_not_errors, suppress_errors,
  last_location,        \* global_dc->last_location
  caret_char,           \* global_dc->caret_char
  pp,                   \* pp[b]: the diagnostics whose text output_buffer b holds
  saved,                \* the output_buffers of the gfc_push_error snapshots
  stderr,               \* the diagnostics written, in order
  n                     \* diagnostics issued so far

vars == <<opts, buffered_p, warnings_not_errors, suppress_errors,
          last_location, caret_char, pp, saved, stderr, n>>
ctlVars == <<opts, buffered_p, warnings_not_errors, suppress_errors>>

\* The %C / %L arguments of a message: none, or one (the common entry
\* points "do not support two locations").
LocArgs == {<<>>} \cup {<<l>> : l \in Locs}

-----------------------------------------------------------------------------
(* The pretty-printer hooks                                                *)

\* gfc_format_decoder: each %C / %L prints "(1)", moves the diagnostic's
\* location to its locus, and sets the caret character to '1'.
FormatDecoder(args, cc) ==
  IF args = <<>> THEN [loc |-> Unknown, caret_char |-> cc]
  ELSE [loc |-> args[Len(args)], caret_char |-> "1"]

\* gfc_diagnostic_build_locus_prefix: the program name without a file,
\* else file:line:column: or file:line: by -fshow-column (colour left out).
LocusPrefix(loc) ==
  IF loc = Unknown THEN <<"f951">>
  ELSE IF opts.show_column THEN <<loc, "line", "column">>
  ELSE <<loc, "line">>

\* gfc_diagnostic_build_prefix: "Error: " or "Warning: " (colour left out).
KindPrefix(kind) == <<kind>>

\* diagnostic_show_locus (gcc/diagnostic.c): an excerpt only with
\* -fdiagnostics-show-caret, for a real location, and not for the location
\* last shown.
ShowsExcerpt(loc, last) == opts.show_caret /\ loc \in Locs /\ loc # last

\* gfc_diagnostic_starter, the message and gfc_diagnostic_finalizer: the
\* locus line, an empty line, the source line and the caret line, then the
\* message behind the kind prefix; without an excerpt the output area is
\* cleared and the message is one line behind "locus_prefix kind_prefix".
Render(d, kind, loc, cc, shown) ==
  IF shown
  THEN << LocusPrefix(loc), <<>>, <<"source", loc>>, <<"caret", cc>>,
          KindPrefix(kind) \o <<d>> >>
  ELSE << LocusPrefix(loc) \o KindPrefix(kind) \o <<d>> >>

\* report_diagnostic for message d: pp_format (with the decoder), then the
\* starter, the text and the finalizer, with last_location as given.
ReportDiagnostic(d, kind, args, last) ==
  LET f    == FormatDecoder(args, caret_char)
      show == ShowsExcerpt(f.loc, last)
  IN  [diag |-> [id |-> d, loc |-> f.loc, excerpt |-> show,
                 text |-> Render(d, kind, f.loc, f.caret_char, show)],
       last |-> IF show THEN f.loc ELSE last,
       caret_char |-> f.caret_char]

\* gfc_clear_pp_buffer: empty the buffer and reset last_location.
ClearPpBuffer(b) ==
  /\ pp' = [pp EXCEPT ![b] = <<>>]
  /\ last_location' = Unknown

-----------------------------------------------------------------------------
(* Entry points                                                            *)

CanIssue == n < MaxCalls

\* Issue message d = n + 1 through report_diagnostic into buffer b when
\* buffering, else to stderr, after the buffer was cleared.
Buffered(b, kind, args) ==
  LET r == ReportDiagnostic(n + 1, kind, args, Unknown) IN
  /\ n' = n + 1
  /\ IF buffered_p
       THEN /\ pp' = [pp EXCEPT ![b] = <<r.diag>>]
            /\ UNCHANGED stderr
       ELSE /\ pp' = [pp EXCEPT ![b] = <<>>]
            /\ stderr' = Append(stderr, r.diag)
  /\ last_location' = r.last
  /\ caret_char' = r.caret_char

\* The static gfc_warning: clear pp_warning_buffer, then report (on: the
\* option is enabled, so report_diagnostic formats it).
Warning(args, on) ==
  /\ IF on THEN CanIssue /\ Buffered("warning", "Warning", args)
           ELSE /\ ClearPpBuffer("warning")
                /\ UNCHANGED <<caret_char, stderr, n>>
  /\ UNCHANGED <<ctlVars, saved>>

\* The static gfc_error: a warning under gfc_errors_to_warnings, nothing
\* while errors are suppressed, else clear pp_error_buffer and report.
Error(args) ==
  \/ warnings_not_errors /\ \E on \in BOOLEAN : Warning(args, on)
  \/ /\ ~warnings_not_errors
     /\ suppress_errors = 0
     /\ CanIssue
     /\ Buffered("error", "Error", args)
     /\ UNCHANGED <<ctlVars, saved>>

\* gfc_warning_now / gfc_error_now: report_diagnostic straight to stderr,
\* with no buffer cleared first.
Now(kind, args) ==
  LET r == ReportDiagnostic(n + 1, kind, args, last_location) IN
  /\ CanIssue
  /\ n' = n + 1
  /\ stderr' = Append(stderr, r.diag)
  /\ last_location' = r.last
  /\ caret_char' = r.caret_char
  /\ UNCHANGED <<ctlVars, pp, saved>>

WarningNow(args) == Now("Warning", args)
ErrorNow(args)   == Now("Error", args)

\* gfc_clear_warning / gfc_clear_error (the latter also ends
\* gfc_errors_to_warnings).
ClearWarning ==
  /\ ClearPpBuffer("warning")
  /\ UNCHANGED <<ctlVars, caret_char, saved, stderr, n>>

ClearError ==
  /\ ClearPpBuffer("error")
  /\ warnings_not_errors' = FALSE
  /\ UNCHANGED <<opts, buffered_p, suppress_errors, caret_char, saved, stderr, n>>

\* pp_really_flush of buffer b to stderr.
Flush(b) ==
  /\ pp[b] # <<>>
  /\ stderr' = stderr \o pp[b]
  /\ pp' = [pp EXCEPT ![b] = <<>>]
  /\ UNCHANGED <<ctlVars, last_location, caret_char, saved, n>>

\* gfc_warning_check / gfc_error_check: a set legacy flag (flag) wins and
\* clears the buffer (gfc_clear_warning, gfc_clear_pp_buffer); else a
\* non-empty buffer is flushed.
WarningCheck(flag) ==
  IF flag THEN ClearWarning ELSE Flush("warning")

ErrorCheck(flag) ==
  IF flag THEN /\ ClearPpBuffer("error")
               /\ UNCHANGED <<ctlVars, caret_char, saved, stderr, n>>
          ELSE Flush("error")

\* gfc_push_error: gfc_move_output_buffer_from_to (pp_error_buffer, snapshot)
\* clears the snapshot and, when there was text, the source buffer; both
\* clears reset last_location.
PushError ==
  /\ Len(saved) < MaxDepth
  /\ saved' = Append(saved, pp["error"])
  /\ ClearPpBuffer("error")
  /\ UNCHANGED <<ctlVars, caret_char, stderr, n>>

\* gfc_pop_error: the move back clears pp_error_buffer and then holds the
\* snapshot's text.
PopError ==
  /\ saved # <<>>
  /\ pp' = [pp EXCEPT !["error"] = saved[Len(saved)]]
  /\ saved' = SubSeq(saved, 1, Len(saved) - 1)
  /\ last_location' = Unknown
  /\ UNCHANGED <<ctlVars, caret_char, stderr, n>>

\* gfc_free_error: gfc_clear_pp_buffer on the snapshot.
FreeError ==
  /\ saved # <<>>
  /\ saved' = SubSeq(saved, 1, Len(saved) - 1)
  /\ last_location' = Unknown
  /\ UNCHANGED <<ctlVars, caret_char, pp, stderr, n>>

BufferError(f) ==
  /\ buffered_p' = f
  /\ UNCHANGED <<opts, warnings_not_errors, suppress_errors, last_location,
                 caret_char, pp, saved, stderr, n>>

ErrorsToWarnings(f) ==
  /\ warnings_not_errors' = f
  /\ UNCHANGED <<opts, buffered_p, suppress_errors, last_location,
                 caret_char, pp, saved, stderr, n>>

PushSuppressErrors ==
  /\ suppress_errors < MaxSuppress
  /\ suppress_errors' = suppress_errors + 1
  /\ UNCHANGED <<opts, buffered_p, warnings_not_errors, last_location,
                 caret_char, pp, saved, stderr, n>>

PopSuppressErrors ==
  /\ suppress_errors > 0
  /\ suppress_errors' = suppress_errors - 1
  /\ UNCHANGED <<opts, buffered_p, warnings_not_errors, last_location,
                 caret_char, pp, saved, stderr, n>>

\* gfc_diagnostics_finish: the caret character is '^' again.
DiagnosticsFinish ==
  /\ caret_char' = "^"
  /\ UNCHANGED <<ctlVars, last_location, pp, saved, stderr, n>>

-----------------------------------------------------------------------------
\* gfc_diagnostics_init: empty output buffers, caret '^'.
Init ==
  /\ opts \in [show_caret : BOOLEAN, show_column : BOOLEAN]
  /\ buffered_p = FALSE /\ warnings_not_errors = FALSE /\ suppress_errors = 0
  /\ last_location = Unknown
  /\ caret_char = "^"
  /\ pp = [b \in Bufs |-> <<>>]
  /\ saved = <<>>
  /\ stderr = <<>>
  /\ n = 0

Next ==
  \/ \E a \in LocArgs, on \in BOOLEAN : Warning(a, on)
  \/ \E a \in LocArgs : Error(a) \/ WarningNow(a) \/ ErrorNow(a)
  \/ ClearWarning \/ ClearError
  \/ \E f \in BOOLEAN : WarningCheck(f) \/ ErrorCheck(f)
  \/ PushError \/ PopError \/ FreeError
  \/ \E f \in BOOLEAN : BufferError(f) \/ ErrorsToWarnings(f)
  \/ PushSuppressErrors \/ PopSuppressErrors
  \/ DiagnosticsFinish

Spec == Init /\ [][Next]_vars

-----------------------------------------------------------------------------
(* Properties                                                              *)

\* diagnostic_show_locus leaves an excerpt out only to avoid repeating the
\* one just shown, and gfc_clear_pp_buffer resets last_location "otherwise
\* we may skip caret lines when we actually give a diagnostic": on stderr,
\* a diagnostic at a source location is printed without its excerpt only
\* when the last diagnostic before it that had a source location was at
\* the same location (diagnostics without a location, which print no
\* excerpt, do not count).
ExcerptShown ==
  \A i \in DOMAIN stderr :
    opts.show_caret /\ stderr[i].loc \in Locs /\ ~stderr[i].excerpt
      => \E j \in 1 .. i - 1 :
           /\ stderr[j].loc = stderr[i].loc
           /\ \A k \in j + 1 .. i - 1 : stderr[k].loc \notin Locs
=============================================================================
