------------------------ MODULE MC_CommonDiagnostics ------------------------
(* Model-checking instance of CommonDiagnostics.                           *)
EXTENDS CommonDiagnostics

\* Two source locations, as model values.
CONSTANTS l1, l2
MCLocs == {l1, l2}
=============================================================================
