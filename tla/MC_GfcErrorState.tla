------------------------- MODULE MC_GfcErrorState --------------------------
(* Model-checking instance of GfcErrorState.                               *)
EXTENDS GfcErrorState

\* Every combination of -Werror, -w and -Wfatal-errors, with no limit and
\* with -fmax-errors=2.
MCOptionSpace ==
  [werror : BOOLEAN, inhibit : BOOLEAN, fatal : BOOLEAN, max : {0, 2}]

\* Only the -fmax-errors=2 settings without -w / -Wfatal-errors.
MCLimitOptions ==
  [werror : BOOLEAN, inhibit : {FALSE}, fatal : {FALSE}, max : {2}]

\* -Werror alone.
MCWerrorOptions ==
  [werror : {TRUE}, inhibit : {FALSE}, fatal : {FALSE}, max : {0}]

\* No options.
MCPlainOptions ==
  [werror : {FALSE}, inhibit : {FALSE}, fatal : {FALSE}, max : {0}]
=============================================================================
