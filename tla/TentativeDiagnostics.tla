------------------------ MODULE TentativeDiagnostics ------------------------
(* What the common-diagnostics half of error.c promises its callers, with  *)
(* the counters, options and legacy buffers abstracted away.  Each of the  *)
(* two buffers (error, warning) holds at most one tentative diagnostic.   *)
(* A new report replaces whatever the buffer held; the held diagnostic is *)
(* later committed (printed once) or discarded.  The error buffer can be  *)
(* saved on a stack and restored, or the saved copy dropped.  A            *)
(* diagnostic reaches the output only when it is reported immediately or  *)
(* committed from a buffer.                                                *)
EXTENDS Naturals, Sequences

CONSTANTS Ids, None

VARIABLES
  pending,   \* pending[b]: the tentative diagnostic of buffer b, or None
  stack,     \* saved copies of the error buffer, innermost last
  issued,    \* diagnostics reported so far
  printed    \* printed[d]: how often d reached the output

vars == <<pending, stack, issued, printed>>

Bufs == {"error", "warning"}

Fresh(d) == d \in Ids \ issued

Emit(d) == printed' = [printed EXCEPT ![d] = @ + 1]

Init ==
  /\ pending = [b \in Bufs |-> None]
  /\ stack = <<>>
  /\ issued = {}
  /\ printed = [d \in Ids |-> 0]

\* A new diagnostic is held in buffer b in place of the old one.
Report(b, d) ==
  /\ Fresh(d)
  /\ issued' = issued \cup {d}
  /\ pending' = [pending EXCEPT ![b] = d]
  /\ UNCHANGED <<stack, printed>>

\* A new diagnostic goes to the output; buffer b is emptied first.
ReportNow(b, d) ==
  /\ Fresh(d)
  /\ issued' = issued \cup {d}
  /\ pending' = [pending EXCEPT ![b] = None]
  /\ Emit(d)
  /\ UNCHANGED stack

\* A new diagnostic goes to the output; no buffer is touched.
Immediate(d) ==
  /\ Fresh(d)
  /\ issued' = issued \cup {d}
  /\ Emit(d)
  /\ UNCHANGED <<pending, stack>>

\* The held diagnostic of b is printed and b is emptied.
Commit(b) ==
  /\ pending[b] # None
  /\ Emit(pending[b])
  /\ pending' = [pending EXCEPT ![b] = None]
  /\ UNCHANGED <<stack, issued>>

\* Buffer b is emptied without printing.
Discard(b) ==
  /\ pending' = [pending EXCEPT ![b] = None]
  /\ UNCHANGED <<stack, issued, printed>>

\* The error buffer moves onto the stack.
Save ==
  /\ stack' = Append(stack, pending["error"])
  /\ pending' = [pending EXCEPT !["error"] = None]
  /\ UNCHANGED <<issued, printed>>

\* The innermost saved copy replaces the error buffer.
Restore ==
  /\ stack # <<>>
  /\ pending' = [pending EXCEPT !["error"] = stack[Len(stack)]]
  /\ stack' = SubSeq(stack, 1, Len(stack) - 1)
  /\ UNCHANGED <<issued, printed>>

\* The innermost saved copy is dropped; the error buffer is kept.
Drop ==
  /\ stack # <<>>
  /\ stack' = SubSeq(stack, 1, Len(stack) - 1)
  /\ UNCHANGED <<pending, issued, printed>>

Next ==
  \/ \E b \in Bufs, d \in Ids : Report(b, d) \/ ReportNow(b, d)
  \/ \E d \in Ids : Immediate(d)
  \/ \E b \in Bufs : Commit(b) \/ Discard(b)
  \/ Save \/ Restore \/ Drop

Spec == Init /\ [][Next]_vars

\* Every diagnostic is printed at most once, and only after it was issued.
PrintedAtMostOnce ==
  \A d \in Ids : printed[d] <= 1 /\ (printed[d] > 0 => d \in issued)
=============================================================================
