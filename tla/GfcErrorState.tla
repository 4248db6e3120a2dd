--------------------------- MODULE GfcErrorState ---------------------------
(***************************************************************************)
(* The severity state machine of the gfortran front end's error module     *)
(* (gcc/fortran/error.c): the process-wide counters and flags, the two     *)
(* legacy message buffers (error_buffer, warning_buffer), the two          *)
(* pretty-printer output buffers (pp_error_buffer, pp_warning_buffer), the *)
(* caller-owned snapshots of gfc_push_error, and the exits that end the    *)
(* process.                                                                *)
(*                                                                         *)
(* Every diagnostic call is one atomic step: the program is single         *)
(* threaded and each entry point runs to completion.  The order of calls  *)
(* is chosen by the parser, which is not modelled: any sequence of calls   *)
(* the API accepts is a behaviour.  A message is abstracted to the id of   *)
(* the call that produced it; the text of a buffer is abstracted to the id *)
(* of the last message written into it.  The counters of the shared        *)
(* diagnostic machinery (errorcount, warningcount, werrorcount) and        *)
(* report_diagnostic / diagnostic_action_after_output live in              *)
(* gcc/diagnostic.c, outside this repository's sources.                    *)
(***************************************************************************)
EXTENDS Integers, Sequences, FiniteSetsExt

CONSTANTS
  MaxCalls,      \* bound on the number of diagnostics issued
  MaxSuppress,   \* bound on the nesting of gfc_push_suppress_errors
  MaxDepth,      \* bound on the nesting of gfc_push_error snapshots
  OptionSpace,   \* the option settings (-Werror, -w, -Wfatal-errors, -fmax-errors=)
  Stds,          \* the GFC_STD_* feature classes passed to gfc_notify_std
  AllowStd,      \* gfc_option.allow_std
  WarnStd        \* gfc_option.warn_std

ASSUME MaxCalls \in Nat \ {0}
ASSUME AllowStd \subseteq Stds /\ WarnStd \subseteq Stds

\* Ids of diagnostics; None is "no message" (a NULL message pointer, an
\* empty output_buffer).
Ids  == 1 .. MaxCalls
None == 0

LegacyApis    == {"warning_1", "warning_now_1", "error_1", "error_now_1", "notify_std_1"}
NewApis       == {"warning", "warning_now", "error", "error_now", "notify_std"}
ImmediateApis == {"warning_now_1", "error_now_1", "warning_now", "error_now"}
Kinds         == {"warning", "werror", "error"}
Statuses      == {"running", "fatal", "failure", "ice", "assert", "segv"}

VARIABLES
  opts,                   \* option settings, fixed for the run
  suppress_errors,
  warnings_not_errors,
  buffered_p,
  errors, warnings,       \* the legacy counters of error.c
  error_buffer, warning_buffer,          \* [flag, message]
  pp_error_buffer, pp_warning_buffer,    \* id held by the output_buffer, or None
  warningcount_buffered, werrorcount_buffered,
  errorcount, warningcount, werrorcount, \* diagnostic.c counters
  saved,                  \* stack of caller-owned gfc_push_error snapshots
  status,                 \* "running", or how the process ended
  out,                    \* history: out[d] is how often diagnostic d reached stderr
  log                     \* history: log[i] describes diagnostic call i

vars == <<opts, suppress_errors, warnings_not_errors, buffered_p, errors,
          warnings, error_buffer, warning_buffer, pp_error_buffer,
          pp_warning_buffer, warningcount_buffered, werrorcount_buffered,
          errorcount, warningcount, werrorcount, saved, status, out, log>>

legacyVars == <<errors, warnings, error_buffer, warning_buffer>>
ppVars     == <<pp_error_buffer, pp_warning_buffer, warningcount_buffered,
                werrorcount_buffered, errorcount, warningcount, werrorcount>>
ctlVars    == <<opts, suppress_errors, warnings_not_errors, buffered_p, saved>>

-----------------------------------------------------------------------------
(* Helpers                                                                 *)

Running  == status = "running"
NewId    == Len(log) + 1
CanIssue == Running /\ Len(log) < MaxCalls

\* Write diagnostic d to stderr once more.
ErrorChar(o, d) == [o EXCEPT ![d] = @ + 1]

\* Record diagnostic call NewId: its entry point, how it is counted, and
\* whether errors were suppressed when it was issued.
Issue(api, kind) ==
  log' = Append(log, [api |-> api, kind |-> kind, supp |-> suppress_errors > 0])

\* Seeded fault of LimitReached: an off-by-one in the limit test.
LimitReachedLate(n) == opts.max # 0 /\ n > opts.max

\* The -fmax-errors= test: gfc_increment_error_count and
\* diagnostic_action_after_output both stop once the count reaches the limit.
LimitReached(n) == opts.max # 0 /\ n >= opts.max

\* gfc_increment_error_count: bump errors; reaching the limit calls
\* gfc_fatal_error, which exits.
IncrementErrorCount ==
  /\ errors' = errors + 1
  /\ status' = IF LimitReached(errors + 1) THEN "fatal" ELSE status

\* diagnostic_action_after_output for DK_ERROR, given the counts after the
\* diagnostic was counted (sorrycount is always 0 in the front end).
AfterErrorOutput(fatalErrors, ec, wec) ==
  IF fatalErrors \/ LimitReached(ec + wec) THEN "fatal" ELSE status

\* report_diagnostic turns a DK_WARNING into a DK_ERROR under -Werror and
\* counts it as DK_WERROR.
NewWarningKind == IF opts.werror THEN "werror" ELSE "warning"

\* gfc_notification_std: is use of a feature of class std a warning?
StdWarning(std) == std \in WarnStd /\ ~opts.inhibit
\* ... and is it silently accepted?
StdSilent(std)  == std \in AllowStd /\ ~StdWarning(std)

-----------------------------------------------------------------------------
(* Suppression, buffering mode, errors-to-warnings                         *)

PushSuppressErrors ==
  /\ Running /\ suppress_errors < MaxSuppress
  /\ suppress_errors' = suppress_errors + 1
  /\ UNCHANGED <<opts, warnings_not_errors, buffered_p, saved, status, out, log>>
  /\ UNCHANGED <<legacyVars, ppVars>>

\* A pop whose assertion is compiled out (release gcc_assert).
PopSuppressErrorsUnchecked ==
  /\ Running
  /\ suppress_errors' = suppress_errors - 1
  /\ UNCHANGED <<opts, warnings_not_errors, buffered_p, saved, status, out, log>>
  /\ UNCHANGED <<legacyVars, ppVars>>

\* The callers nest pushes and pops; gcc_assert (suppress_errors > 0).
PopSuppressErrors ==
  /\ Running /\ suppress_errors > 0
  /\ suppress_errors' = suppress_errors - 1
  /\ UNCHANGED <<opts, warnings_not_errors, buffered_p, saved, status, out, log>>
  /\ UNCHANGED <<legacyVars, ppVars>>

BufferError(flag) ==
  /\ Running
  /\ buffered_p' = flag
  /\ UNCHANGED <<opts, suppress_errors, warnings_not_errors, saved, status, out, log>>
  /\ UNCHANGED <<legacyVars, ppVars>>

ErrorsToWarnings(f) ==
  /\ Running
  /\ warnings_not_errors' = f
  /\ UNCHANGED <<opts, suppress_errors, buffered_p, saved, status, out, log>>
  /\ UNCHANGED <<legacyVars, ppVars>>

-----------------------------------------------------------------------------
(* The legacy entry points (the *_1 functions): text goes through          *)
(* error_print and error_char into the current gfc_error_buf when          *)
(* buffered_p, and straight to stderr otherwise.                           *)

\* The body of gfc_warning_1 after its -w test; also the warning arm of
\* gfc_error_1.  The flag is set even when the text went to stderr.
LegacyWarning(api) ==
  /\ ~opts.inhibit
  /\ Issue(api, "warning")
  /\ warning_buffer' = [flag    |-> TRUE,
                        message |-> IF buffered_p THEN NewId
                                    ELSE warning_buffer.message]
  /\ IF buffered_p
       THEN UNCHANGED <<out, warnings, errors, status>>
       ELSE /\ out' = ErrorChar(out, NewId)
            /\ warnings' = warnings + 1
            /\ IF opts.werror THEN IncrementErrorCount
                              ELSE UNCHANGED <<errors, status>>
  /\ UNCHANGED error_buffer

Warning1 ==
  /\ CanIssue
  /\ LegacyWarning("warning_1")
  /\ UNCHANGED <<ctlVars, ppVars>>

Error1 ==
  /\ CanIssue
  /\ \/ /\ warnings_not_errors
        /\ LegacyWarning("error_1")
     \/ /\ ~warnings_not_errors
        /\ suppress_errors = 0
        /\ Issue("error_1", "error")
        /\ error_buffer' = [flag    |-> TRUE,
                            message |-> IF buffered_p THEN NewId
                                        ELSE error_buffer.message]
        /\ IF buffered_p
             THEN UNCHANGED <<out, errors, status>>
             ELSE /\ out' = ErrorChar(out, NewId)
                  /\ IncrementErrorCount
        /\ UNCHANGED <<warnings, warning_buffer>>
  /\ UNCHANGED <<ctlVars, ppVars>>

\* gfc_warning_now_1 prints with buffered_p forced off and leaves the
\* warning buffer alone.
WarningNow1 ==
  /\ CanIssue
  /\ ~opts.inhibit
  /\ Issue("warning_now_1", "warning")
  /\ warnings' = warnings + 1
  /\ out' = ErrorChar(out, NewId)
  /\ IF opts.werror THEN IncrementErrorCount ELSE UNCHANGED <<errors, status>>
  /\ UNCHANGED <<error_buffer, warning_buffer, ctlVars, ppVars>>

\* gfc_error_now_1 sets error_buffer.flag, prints with buffered_p forced
\* off (the buffer's text is left as it was), counts, and exits under
\* -Wfatal-errors.
ErrorNow1 ==
  /\ CanIssue
  /\ Issue("error_now_1", "error")
  /\ error_buffer' = [error_buffer EXCEPT !.flag = TRUE]
  /\ out' = ErrorChar(out, NewId)
  /\ errors' = errors + 1
  /\ status' = IF LimitReached(errors + 1) \/ opts.fatal THEN "fatal" ELSE status
  /\ UNCHANGED <<warnings, warning_buffer, ctlVars, ppVars>>

\* gfc_notify_std_1: silent when the standard allows the feature, a no-op
\* while errors are suppressed; otherwise a warning or an error into the
\* matching buffer.  Printed immediately, it is counted and the flag is
\* cleared again.
NotifyStd1(std) ==
  LET w      == StdWarning(std)
      buf    == IF w THEN warning_buffer ELSE error_buffer
      newBuf == [flag    |-> buffered_p,
                 message |-> IF buffered_p THEN NewId ELSE buf.message]
  IN
  /\ CanIssue
  /\ ~StdSilent(std)
  /\ suppress_errors = 0
  /\ Issue("notify_std_1", IF w THEN "warning" ELSE "error")
  /\ IF w THEN /\ warning_buffer' = newBuf /\ UNCHANGED error_buffer
          ELSE /\ error_buffer' = newBuf   /\ UNCHANGED warning_buffer
  /\ IF buffered_p
       THEN UNCHANGED <<out, errors, warnings, status>>
       ELSE /\ out' = ErrorChar(out, NewId)
            /\ IF w /\ ~opts.werror
                 THEN /\ warnings' = warnings + 1
                      /\ UNCHANGED <<errors, status>>
                 ELSE /\ IncrementErrorCount
                      /\ UNCHANGED warnings
  /\ UNCHANGED <<ctlVars, ppVars>>

-----------------------------------------------------------------------------
(* The entry points that use the common diagnostics machinery.  While      *)
(* buffered_p, gfc_warning and gfc_error point the pretty-printer at       *)
(* pp_warning_buffer / pp_error_buffer, switch off -Wfatal-errors, and     *)
(* pre-decrement the counter report_diagnostic is about to bump, so that   *)
(* -fmax-errors= does not trigger on a diagnostic that may be discarded.   *)

\* Seeded faults of UndoBufferedWarningCount, each a plausible slip in
\* lines 878-887: the buffered counts are not restarted, or the warning
\* report_diagnostic counted is left in warningcount.
UndoBufferedWarningCountNoReset(on, kind, w1, c1) ==
  [werrorcount           |-> IF ~on \/ kind = "warning" THEN w1 + 1 ELSE w1,
   warningcount          |-> IF on /\ kind = "warning" THEN c1 - 1 ELSE c1,
   warningcount_buffered |-> warningcount_buffered + (IF on /\ kind = "warning" THEN 1 ELSE 0),
   werrorcount_buffered  |-> werrorcount_buffered + (IF on /\ kind = "werror" THEN 1 ELSE 0)]
UndoBufferedWarningCountKeepsWarning(on, kind, w1, c1) ==
  [werrorcount           |-> IF ~on \/ kind = "warning" THEN w1 + 1 ELSE w1,
   warningcount          |-> c1,
   warningcount_buffered |-> IF on /\ kind = "warning" THEN 1 ELSE 0,
   werrorcount_buffered  |-> IF on /\ kind = "werror" THEN 1 ELSE 0]

\* The bookkeeping after report_diagnostic in the buffered gfc_warning:
\* restart the buffered counts, then move the count report_diagnostic just
\* made into them (undoing the --werrorcount unless it was a -Werror
\* warning).  w1, c1: werrorcount and warningcount after the report.
UndoBufferedWarningCount(on, kind, w1, c1) ==
  [werrorcount           |-> IF ~on \/ kind = "warning" THEN w1 + 1 ELSE w1,
   warningcount          |-> IF on /\ kind = "warning" THEN c1 - 1 ELSE c1,
   warningcount_buffered |-> IF on /\ kind = "warning" THEN 1 ELSE 0,
   werrorcount_buffered  |-> IF on /\ kind = "werror" THEN 1 ELSE 0]

\* The static gfc_warning (opt, gmsgid, ap).  on: report_diagnostic
\* returns true (the option is enabled and -w is not given).
Warning(api, on) ==
  LET kind == NewWarningKind
      \* counts after --werrorcount (buffered only) and report_diagnostic
      w1   == werrorcount - (IF buffered_p THEN 1 ELSE 0)
                          + (IF on /\ kind = "werror" THEN 1 ELSE 0)
      c1   == warningcount + (IF on /\ kind = "warning" THEN 1 ELSE 0)
      u    == UndoBufferedWarningCount(on, kind, w1, c1)
  IN
  /\ IF on THEN CanIssue /\ Issue(api, kind)
           ELSE Running /\ UNCHANGED log
  /\ \/ /\ buffered_p
        /\ pp_warning_buffer' = IF on THEN NewId ELSE None
        /\ werrorcount' = u.werrorcount
        /\ warningcount' = u.warningcount
        /\ warningcount_buffered' = u.warningcount_buffered
        /\ werrorcount_buffered' = u.werrorcount_buffered
        /\ status' = IF on /\ kind = "werror"
                       THEN AfterErrorOutput(FALSE, errorcount, w1)
                       ELSE status
        /\ UNCHANGED out
     \/ /\ ~buffered_p
        /\ pp_warning_buffer' = None
        /\ out' = IF on THEN ErrorChar(out, NewId) ELSE out
        /\ werrorcount'  = w1
        /\ warningcount' = c1
        /\ status' = IF on /\ kind = "werror"
                       THEN AfterErrorOutput(opts.fatal, errorcount, w1)
                       ELSE status
        /\ UNCHANGED <<warningcount_buffered, werrorcount_buffered>>
  /\ UNCHANGED <<pp_error_buffer, errorcount, legacyVars, ctlVars>>

\* The static gfc_error (gmsgid, ap).
Error(api) ==
  \/ /\ warnings_not_errors
     /\ Warning(api, ~opts.inhibit)
  \/ /\ ~warnings_not_errors
     /\ suppress_errors = 0
     /\ CanIssue
     /\ Issue(api, "error")
     /\ \/ /\ buffered_p
           /\ pp_error_buffer' = NewId
           /\ errorcount' = (errorcount - 1) + 1
           /\ status' = AfterErrorOutput(FALSE, errorcount, werrorcount)
           /\ UNCHANGED out
        \/ /\ ~buffered_p
           /\ pp_error_buffer' = None
           /\ out' = ErrorChar(out, NewId)
           /\ errorcount' = errorcount + 1
           /\ status' = AfterErrorOutput(opts.fatal, errorcount + 1, werrorcount)
     /\ UNCHANGED <<pp_warning_buffer, warningcount_buffered,
                    werrorcount_buffered, warningcount, werrorcount,
                    legacyVars, ctlVars>>

\* gfc_warning_now: report_diagnostic straight to stderr.
WarningNow ==
  LET kind == NewWarningKind IN
  /\ CanIssue
  /\ ~opts.inhibit
  /\ Issue("warning_now", kind)
  /\ out' = ErrorChar(out, NewId)
  /\ IF kind = "werror"
       THEN /\ werrorcount' = werrorcount + 1
            /\ status' = AfterErrorOutput(opts.fatal, errorcount, werrorcount + 1)
            /\ UNCHANGED warningcount
       ELSE /\ warningcount' = warningcount + 1
            /\ UNCHANGED <<werrorcount, status>>
  /\ UNCHANGED <<pp_error_buffer, pp_warning_buffer, warningcount_buffered,
                 werrorcount_buffered, errorcount, legacyVars, ctlVars>>

\* gfc_error_now: report_diagnostic straight to stderr; neither the
\* suppression depth nor the buffers are consulted.
ErrorNow ==
  /\ CanIssue
  /\ Issue("error_now", "error")
  /\ out' = ErrorChar(out, NewId)
  /\ errorcount' = errorcount + 1
  /\ status' = AfterErrorOutput(opts.fatal, errorcount + 1, werrorcount)
  /\ UNCHANGED <<pp_error_buffer, pp_warning_buffer, warningcount_buffered,
                 werrorcount_buffered, warningcount, werrorcount,
                 legacyVars, ctlVars>>

\* gfc_notify_std: the same classification as gfc_notify_std_1, then
\* gfc_warning (opt 0) or gfc_error.
NotifyStd(std) ==
  /\ ~StdSilent(std)
  /\ suppress_errors = 0
  /\ IF StdWarning(std) THEN Warning("notify_std", TRUE)
                        ELSE Error("notify_std")

-----------------------------------------------------------------------------
(* Flushing and discarding what was buffered                               *)

\* gfc_clear_warning
ClearWarning ==
  /\ Running
  /\ warning_buffer' = [warning_buffer EXCEPT !.flag = FALSE]
  /\ pp_warning_buffer' = None
  /\ warningcount_buffered' = 0
  /\ werrorcount_buffered' = 0
  /\ UNCHANGED <<errors, warnings, error_buffer, pp_error_buffer, errorcount,
                 warningcount, werrorcount, ctlVars, status, out, log>>

\* gfc_warning_check: print the legacy warning if its flag is set (the text
\* only if a message was ever allocated), else flush pp_warning_buffer and
\* add the buffered counts.
WarningCheck ==
  /\ Running
  /\ \/ /\ warning_buffer.flag
        /\ warnings' = warnings + 1
        /\ out' = IF warning_buffer.message # None
                    THEN ErrorChar(out, warning_buffer.message) ELSE out
        /\ warning_buffer' = [warning_buffer EXCEPT !.flag = FALSE]
        /\ pp_warning_buffer' = None
        /\ warningcount_buffered' = 0
        /\ werrorcount_buffered' = 0
        /\ UNCHANGED <<warningcount, werrorcount, status>>
     \/ /\ ~warning_buffer.flag
        /\ pp_warning_buffer # None
        /\ out' = ErrorChar(out, pp_warning_buffer)
        /\ pp_warning_buffer' = None
        /\ warningcount' = warningcount + warningcount_buffered
        /\ werrorcount'  = werrorcount + werrorcount_buffered
        /\ status' =
             IF warningcount_buffered + werrorcount_buffered # 1 THEN "assert"
             ELSE IF warningcount_buffered # 0 THEN status
             ELSE AfterErrorOutput(opts.fatal, errorcount, werrorcount')
        /\ UNCHANGED <<warnings, warning_buffer, warningcount_buffered,
                       werrorcount_buffered>>
  /\ UNCHANGED <<errors, error_buffer, pp_error_buffer, errorcount, ctlVars, log>>

\* gfc_clear_error
ClearError ==
  /\ Running
  /\ error_buffer' = [error_buffer EXCEPT !.flag = FALSE]
  /\ warnings_not_errors' = FALSE
  /\ pp_error_buffer' = None
  /\ UNCHANGED <<opts, suppress_errors, buffered_p, saved, errors, warnings,
                 warning_buffer, pp_warning_buffer, warningcount_buffered,
                 werrorcount_buffered, errorcount, warningcount, werrorcount,
                 status, out, log>>

\* gfc_error_check: print the legacy error if its flag is set (dropping
\* whatever pp_error_buffer holds), else flush pp_error_buffer.
ErrorCheck ==
  /\ Running
  /\ \/ /\ error_buffer.flag
        /\ out' = IF error_buffer.message # None
                    THEN ErrorChar(out, error_buffer.message) ELSE out
        /\ error_buffer' = [error_buffer EXCEPT !.flag = FALSE]
        /\ pp_error_buffer' = None
        /\ errors' = errors + 1
        /\ status' = IF LimitReached(errors + 1) \/ opts.fatal THEN "fatal"
                     ELSE status
        /\ UNCHANGED errorcount
     \/ /\ ~error_buffer.flag
        /\ pp_error_buffer # None
        /\ out' = ErrorChar(out, pp_error_buffer)
        /\ pp_error_buffer' = None
        /\ errorcount' = errorcount + 1
        /\ status' = AfterErrorOutput(opts.fatal, errorcount + 1, werrorcount)
        /\ UNCHANGED <<errors, error_buffer>>
  /\ UNCHANGED <<warnings, warning_buffer, pp_warning_buffer,
                 warningcount_buffered, werrorcount_buffered, warningcount,
                 werrorcount, ctlVars, log>>

-----------------------------------------------------------------------------
(* Snapshots for speculative matching.  The caller owns each snapshot (a  *)
(* gfc_error_buf and an output_buffer, locals of the matcher), so they     *)
(* nest: a snapshot is popped or freed by the frame that pushed it.       *)

\* gfc_push_error copying pp_error_buffer into the snapshot without the
\* gfc_clear_pp_buffer (from) of gfc_move_output_buffer_from_to.
PushErrorKeepsBuffer ==
  /\ Running
  /\ Len(saved) < MaxDepth
  /\ \/ /\ error_buffer.flag /\ error_buffer.message = None
        /\ status' = "segv"
        /\ UNCHANGED <<error_buffer, pp_error_buffer, saved>>
     \/ /\ ~(error_buffer.flag /\ error_buffer.message = None)
        /\ saved' = Append(saved,
                      [flag    |-> error_buffer.flag,
                       message |-> IF error_buffer.flag THEN error_buffer.message
                                   ELSE None,
                       pp      |-> pp_error_buffer])
        /\ error_buffer' = [error_buffer EXCEPT !.flag = FALSE]
        /\ UNCHANGED <<status, pp_error_buffer>>
  /\ UNCHANGED <<opts, suppress_errors, warnings_not_errors, buffered_p,
                 errors, warnings, warning_buffer, pp_warning_buffer,
                 warningcount_buffered, werrorcount_buffered, errorcount,
                 warningcount, werrorcount, out, log>>

\* gfc_push_error: copy the legacy flag and, when it is set, xstrdup the
\* message; clear the flag; move pp_error_buffer into the snapshot.
\* xstrdup of a NULL message dereferences NULL.
PushError ==
  /\ Running
  /\ Len(saved) < MaxDepth
  /\ \/ /\ error_buffer.flag /\ error_buffer.message = None
        /\ status' = "segv"
        /\ UNCHANGED <<error_buffer, pp_error_buffer, saved>>
     \/ /\ ~(error_buffer.flag /\ error_buffer.message = None)
        /\ saved' = Append(saved,
                      [flag    |-> error_buffer.flag,
                       message |-> IF error_buffer.flag THEN error_buffer.message
                                   ELSE None,
                       pp      |-> pp_error_buffer])
        /\ error_buffer' = [error_buffer EXCEPT !.flag = FALSE]
        /\ pp_error_buffer' = None
        /\ UNCHANGED status
  /\ UNCHANGED <<opts, suppress_errors, warnings_not_errors, buffered_p,
                 errors, warnings, warning_buffer, pp_warning_buffer,
                 warningcount_buffered, werrorcount_buffered, errorcount,
                 warningcount, werrorcount, out, log>>

\* gfc_pop_error: the snapshot replaces the current state (the message is
\* copied back only when the saved flag is set).
PopError ==
  LET s == saved[Len(saved)] IN
  /\ Running
  /\ saved # <<>>
  /\ error_buffer' = [flag    |-> s.flag,
                      message |-> IF s.flag THEN s.message ELSE error_buffer.message]
  /\ pp_error_buffer' = s.pp
  /\ saved' = SubSeq(saved, 1, Len(saved) - 1)
  /\ UNCHANGED <<opts, suppress_errors, warnings_not_errors, buffered_p,
                 errors, warnings, warning_buffer, pp_warning_buffer,
                 warningcount_buffered, werrorcount_buffered, errorcount,
                 warningcount, werrorcount, status, out, log>>

\* gfc_free_error: drop the snapshot, keep the current state.
FreeError ==
  /\ Running
  /\ saved # <<>>
  /\ saved' = SubSeq(saved, 1, Len(saved) - 1)
  /\ UNCHANGED <<opts, suppress_errors, warnings_not_errors, buffered_p,
                 legacyVars, ppVars, status, out, log>>

-----------------------------------------------------------------------------
(* The entry points that end the process                                   *)

\* gfc_get_errors
TotalErrors   == errors + errorcount + werrorcount
TotalWarnings == warnings + warningcount + werrorcount

\* gfc_fatal_error: report DK_FATAL, which exits.
FatalError ==
  /\ Running
  /\ status' = "fatal"
  /\ UNCHANGED <<ctlVars, legacyVars, ppVars, out, log>>

\* gfc_internal_error: exit (EXIT_FAILURE) if errors were already
\* reported, else report DK_ICE.
InternalError ==
  /\ Running
  /\ status' = IF TotalErrors > 0 THEN "failure" ELSE "ice"
  /\ UNCHANGED <<ctlVars, legacyVars, ppVars, out, log>>

-----------------------------------------------------------------------------
(* The specification                                                       *)

\* The state after gfc_diagnostics_init and gfc_error_init_1: static
\* storage is zero, both output buffers are empty, nothing is buffered.
Init ==
  /\ opts \in OptionSpace
  /\ suppress_errors = 0
  /\ warnings_not_errors = FALSE
  /\ buffered_p = FALSE
  /\ errors = 0 /\ warnings = 0
  /\ error_buffer = [flag |-> FALSE, message |-> None]
  /\ warning_buffer = [flag |-> FALSE, message |-> None]
  /\ pp_error_buffer = None /\ pp_warning_buffer = None
  /\ warningcount_buffered = 0 /\ werrorcount_buffered = 0
  /\ errorcount = 0 /\ warningcount = 0 /\ werrorcount = 0
  /\ saved = <<>>
  /\ status = "running"
  /\ out = [d \in Ids |-> 0]
  /\ log = <<>>

Next ==
  \/ PushSuppressErrors
  \/ PopSuppressErrors
  \/ \E f \in BOOLEAN : BufferError(f)
  \/ \E f \in BOOLEAN : ErrorsToWarnings(f)
  \/ Warning1
  \/ Error1
  \/ WarningNow1
  \/ ErrorNow1
  \/ \E std \in Stds : NotifyStd1(std)
  \/ \E on \in BOOLEAN : Warning("warning", on /\ ~opts.inhibit)
  \/ Error("error")
  \/ WarningNow
  \/ ErrorNow
  \/ \E std \in Stds : NotifyStd(std)
  \/ ClearWarning
  \/ WarningCheck
  \/ ClearError
  \/ ErrorCheck
  \/ PushError
  \/ PopError
  \/ FreeError
  \/ FatalError
  \/ InternalError

Spec == Init /\ [][Next]_vars

-----------------------------------------------------------------------------
(* Properties                                                              *)

TypeOK ==
  /\ opts \in OptionSpace
  /\ suppress_errors \in 0 .. MaxSuppress
  /\ warnings_not_errors \in BOOLEAN /\ buffered_p \in BOOLEAN
  /\ error_buffer \in [flag : BOOLEAN, message : Ids \cup {None}]
  /\ warning_buffer \in [flag : BOOLEAN, message : Ids \cup {None}]
  /\ {pp_error_buffer, pp_warning_buffer} \subseteq Ids \cup {None}
  /\ {errors, warnings, errorcount, warningcount, werrorcount,
      warningcount_buffered, werrorcount_buffered} \subseteq Nat
  /\ saved \in Seq([flag : BOOLEAN, message : Ids \cup {None}, pp : Ids \cup {None}])
  /\ Len(saved) <= MaxDepth
  /\ status \in Statuses
  /\ out \in [Ids -> Nat]
  /\ log \in Seq([api : LegacyApis \cup NewApis, kind : Kinds, supp : BOOLEAN])

\* No gcc_assert of error.c fails.  The one a caller cannot rule out is
\* gfc_warning_check's "warningcount_buffered + werrorcount_buffered == 1"
\* when it flushes pp_warning_buffer: it depends on every path that fills,
\* clears or flushes that buffer keeping the two buffered counts in step.
AssertionsHold == status # "assert"

\* -fmax-errors=N: while the compiler runs, neither the legacy counter
\* (checked by gfc_increment_error_count) nor the diagnostic.c error count
\* (checked by diagnostic_action_after_output, after the buffered paths'
\* pre-decrement and the flush in gfc_error_check / gfc_warning_check) has
\* reached N.
ErrorLimitPerCounter ==
  Running /\ opts.max # 0 =>
    /\ errors < opts.max
    /\ errorcount + werrorcount < opts.max

\* The number of diagnostics of kind k issued through the common
\* diagnostics machinery that reached stderr.
PrintedNew(k) ==
  LET ds == {d \in DOMAIN log : log[d].api \in NewApis /\ log[d].kind = k}
  IN  MapThenSumSet(LAMBDA d : out[d], ds)

\* Each diagnostic of the common machinery is counted once, as the kind it
\* was printed as, when it is printed, and never while it sits in a
\* buffer: errorcount, warningcount and werrorcount equal the numbers of
\* such errors, warnings and -Werror warnings on stderr.  This is what the
\* pre-decrements in gfc_warning / gfc_error, the buffered counts and the
\* flushes in gfc_warning_check / gfc_error_check are for, across
\* gfc_push_error / gfc_pop_error and discarded diagnostics.
NewCountsMatchOutput ==
  /\ errorcount   = PrintedNew("error")
  /\ warningcount = PrintedNew("warning")
  /\ werrorcount  = PrintedNew("werror")

\* While errors are suppressed (gfc_push_suppress_errors), the buffered
\* warning and error entry points issue nothing (spec 4.5: reportWarning
\* and reportError are no-ops when suppressed); only the *_now entry points
\* may print.
SuppressedIsSilent ==
  \A i \in DOMAIN log : log[i].supp => log[i].api \in ImmediateApis

\* gfc_error_check ("Check to see if any errors have been saved.  If so,
\* print the error"), gfc_warning_check and gfc_push_error read a set flag
\* of a legacy buffer as "a message is saved here": whenever
\* error_buffer.flag or warning_buffer.flag is set, that buffer holds a
\* message that has not been printed yet.
LegacyFlagBacked ==
  \A b \in {error_buffer, warning_buffer} :
    b.flag => b.message # None /\ out[b.message] = 0

\* -fmax-errors=N bounds the number of errors gfc_get_errors reports: the
\* compiler stops as soon as that total reaches N (spec section 7: the
\* ceiling always terminates).
TotalErrorLimit == Running /\ opts.max # 0 => TotalErrors < opts.max

\* Under -Werror every legacy warning that reaches stderr is also counted
\* as an error, as gfc_warning_1 does when it prints immediately.
WerrorCountsLegacyWarnings ==
  opts.werror =>
    errors >= Cardinality({d \in Ids : out[d] > 0}
                          \cap {d \in DOMAIN log : /\ log[d].api \in LegacyApis
                                                   /\ log[d].kind = "warning"})

-----------------------------------------------------------------------------
(* Refinement of TentativeDiagnostics                                      *)

\* The abstract view of the common-diagnostics buffers: pp_error_buffer and
\* pp_warning_buffer are the two tentative slots, the output_buffers of the
\* gfc_push_error snapshots are the stack, and only diagnostics issued
\* through the common entry points are seen (legacy ones are stuttering).
NewIssued == {d \in DOMAIN log : log[d].api \in NewApis}

TD == INSTANCE TentativeDiagnostics WITH
        pending <- [b \in {"error", "warning"} |->
                      IF b = "error" THEN pp_error_buffer ELSE pp_warning_buffer],
        stack   <- [k \in DOMAIN saved |-> saved[k].pp],
        issued  <- NewIssued,
        printed <- [d \in Ids |-> IF d \in NewIssued THEN out[d] ELSE 0]

\* Every step of gfc_warning, gfc_error, the *_now entry points, the checks,
\* the clears and gfc_push_error / gfc_pop_error / gfc_free_error is a step
\* of TentativeDiagnostics: a buffered diagnostic replaces the one held,
\* reaches stderr only when gfc_warning_check / gfc_error_check flushes the
\* buffer holding it, and a snapshot's buffer comes back only through
\* gfc_pop_error.  So no buffered diagnostic is printed twice, printed after
\* it was discarded, or lost into a buffer it was never put in.
TentativeRefinement == TD!Spec

=============================================================================
