----------------------------- MODULE FormatEngine -----------------------------
(***************************************************************************)
(* error_print of gfortran's error.c: the two-pass interpreter of the      *)
(* message templates passed to gfc_error_1, gfc_warning_1 and the other    *)
(* legacy entry points.  Pass 1 scans the template for specifiers and      *)
(* records each one's argument position and type; pass 2 takes the        *)
(* arguments from the va_list in position order, turning the first locus   *)
(* into "(1)" and the second into "(2)"; the values are copied to the      *)
(* specifiers, and a second walk of the template prints them.              *)
(*                                                                         *)
(* A template is a sequence of tokens: a literal run, "%%", or a           *)
(* specifier with its conversion and its explicit position (0 for none).   *)
(* The caller's argument for position p is the value <<"arg", p>>; the     *)
(* current locus is <<"current", 0>>.  Printing a value is left to the     *)
(* output sink (error_integer, error_string).                              *)
(***************************************************************************)
EXTENDS Integers, Sequences, SequencesExt, FiniteSets

CONSTANTS
  MAX_ARGS,     \* the size of arg[] and spec[] (10 in error.c)
  MaxSpecs,     \* the most specifiers a template has
  MaxTokens,    \* the longest template
  Conversions   \* the conversion letters used ("d", "s", "C", "L", ...)

VARIABLES
  template,     \* the format string of the call
  result        \* what error_print did with it

vars == <<template, result>>

LocusConvs == {"C", "L"}
NOTYPE == "none"
Current == <<"current", 0>>
Undef == <<"undef", 0>>        \* a member of the union never assigned
NoLocus == <<"nolocus", 0>>
Arg(p) == <<"arg", p>>
Label(j) == <<"label", j>>      \* the text "(1)" or "(2)"
Text(x) == <<"text", x>>       \* literal text, or the "%" of "%%"

Lit == [kind |-> "lit", conv |-> "lit", pos |-> 0]
Pct == [kind |-> "pct", conv |-> "%", pos |-> 0]
Tokens ==
  {Lit, Pct} \cup [kind : {"spec"}, conv : Conversions, pos : 0 .. MaxSpecs]

Specs(t) == SelectSeq(t, LAMBDA tok : tok.kind = "spec")

-----------------------------------------------------------------------------
(* The templates callers pass, as the format checking of                   *)
(* ATTRIBUTE_GCC_GFC and spec 4.3 require them: positions all implicit or  *)
(* all explicit, the positions used are 0 .. maxpos with one conversion    *)
(* each, at most two loci and at most MAX_ARGS positions.                  *)

\* The position the k-th specifier stands for, by printf's rules.
SlotOf(t, k) ==
  IF Specs(t)[k].pos > 0 THEN Specs(t)[k].pos - 1 ELSE k - 1

Slots(t) == {SlotOf(t, k) : k \in DOMAIN Specs(t)}

ConvAt(t, p) == Specs(t)[CHOOSE k \in DOMAIN Specs(t) : SlotOf(t, k) = p].conv

LocusSlots(t) == {p \in Slots(t) : ConvAt(t, p) \in LocusConvs}

WellFormed(t) ==
  LET sp == Specs(t) IN
  /\ Len(sp) <= MaxSpecs
  /\ \/ \A k \in DOMAIN sp : sp[k].pos = 0
     \/ \A k \in DOMAIN sp : sp[k].pos > 0
  /\ Slots(t) = 0 .. (Cardinality(Slots(t)) - 1)
  /\ Cardinality(Slots(t)) <= MAX_ARGS
  /\ \A j, k \in DOMAIN sp :
       SlotOf(t, j) = SlotOf(t, k) => sp[j].conv = sp[k].conv
  /\ Cardinality(LocusSlots(t)) <= 2

\* The va_list: one value per position in increasing order, none for %C.
CallerArgs(t) ==
  LET ps == SetToSortSeq({p \in Slots(t) : ConvAt(t, p) # "C"}, <)
  IN  [i \in DOMAIN ps |-> Arg(ps[i])]

-----------------------------------------------------------------------------
(* Pass 1: "First parse the format string for position specifiers."        *)

\* One specifier: an explicit position is atoi - 1, an implicit one the
\* previous position + 1; its type goes to arg[pos], its position to
\* spec[n++].  A position or count past MAX_ARGS writes outside the arrays.
ScanSpec(acc, tok) ==
  IF tok.kind # "spec" THEN acc
  ELSE LET pos == IF tok.pos > 0 THEN tok.pos - 1 ELSE acc.pos + 1
       IN  [acc EXCEPT
              !.pos     = pos,
              !.maxpos  = IF pos > @ THEN pos ELSE @,
              !.type    = IF pos < MAX_ARGS THEN [@ EXCEPT ![pos] = tok.conv]
                                            ELSE @,
              !.spec    = Append(@, pos),
              !.overrun = @ \/ pos >= MAX_ARGS \/ Len(acc.spec) >= MAX_ARGS]

ScanFormat(t) ==
  FoldLeft(ScanSpec,
           [pos |-> -1, maxpos |-> -1,
            type |-> [p \in 0 .. MAX_ARGS - 1 |-> NOTYPE],
            spec |-> <<>>, overrun |-> FALSE],
           t)

-----------------------------------------------------------------------------
(* Pass 2: "Then convert the values for each %-style argument."            *)

\* A plausible slip: %C falling through to %L's va_arg.
ConvertArgFallThrough(args, acc, pos) ==
  LET ty   == acc.type[pos]
      next == IF acc.next <= Len(args) THEN args[acc.next] ELSE Undef
  IN  IF ty = NOTYPE THEN [acc EXCEPT !.failed = TRUE]
      ELSE IF ty \in LocusConvs
      THEN [acc EXCEPT
              !.next   = @ + 1,
              !.have_l1 = TRUE,
              !.l1     = IF acc.have_l1 THEN @ ELSE next,
              !.l2     = IF acc.have_l1 THEN next ELSE @,
              !.u[pos] = IF acc.have_l1 THEN Label(2) ELSE Label(1)]
      ELSE [acc EXCEPT !.next = @ + 1, !.u[pos] = next]

\* One position: a locus (%C the current one, %L the next va_arg) becomes
\* l1 and "(1)", or l2 and "(2)" once l1 is taken; any other type takes
\* the next va_arg.  gcc_assert (arg[pos].type != NOTYPE).
ConvertArg(args, acc, pos) ==
  LET ty   == acc.type[pos]
      next == IF acc.next <= Len(args) THEN args[acc.next] ELSE Undef
  IN  IF ty = NOTYPE THEN [acc EXCEPT !.failed = TRUE]
      ELSE IF ty \in LocusConvs
      THEN LET loc == IF ty = "L" THEN next ELSE Current
           IN  [acc EXCEPT
                  !.next   = IF ty = "L" THEN @ + 1 ELSE @,
                  !.have_l1 = TRUE,
                  !.l1     = IF acc.have_l1 THEN @ ELSE loc,
                  !.l2     = IF acc.have_l1 THEN loc ELSE @,
                  !.u[pos] = IF acc.have_l1 THEN Label(2) ELSE Label(1)]
      ELSE [acc EXCEPT !.next = @ + 1, !.u[pos] = next]

\* A plausible slip: the last position left out of the conversion loop.
ConvertArgsShort(sc, args) ==
  FoldLeft(LAMBDA acc, pos : ConvertArg(args, acc, pos),
           [type |-> sc.type, next |-> 1, have_l1 |-> FALSE, failed |-> FALSE,
            l1 |-> NoLocus, l2 |-> NoLocus,
            u |-> [p \in 0 .. MAX_ARGS - 1 |-> Undef]],
           [i \in 1 .. sc.maxpos |-> i - 1])

\* for (pos = 0; pos <= maxpos; pos++) ...
ConvertArgs(sc, args) ==
  FoldLeft(LAMBDA acc, pos : ConvertArg(args, acc, pos),
           [type |-> sc.type, next |-> 1, have_l1 |-> FALSE, failed |-> FALSE,
            l1 |-> NoLocus, l2 |-> NoLocus,
            u |-> [p \in 0 .. MAX_ARGS - 1 |-> Undef]],
           [i \in 1 .. sc.maxpos + 1 |-> i - 1])

\* for (n = 0; spec[n].pos >= 0; n++) spec[n].u = arg[spec[n].pos].u:
\* the loop stops at the first unused entry (pos -1), so with MAX_ARGS
\* specifiers it reads spec[MAX_ARGS], past the array.
CopySpecs(sc, cv) == [n \in DOMAIN sc.spec |-> cv.u[sc.spec[n]]]

SpecOverrun(sc) == Len(sc.spec) >= MAX_ARGS

\* The message walk: literal text as it is, "%%" as "%", the n-th
\* specifier as the n-th copied value under the template's conversion.
EmitMessage(t, vals) ==
  LET step(acc, tok) ==
        IF tok.kind = "spec"
        THEN [n |-> acc.n + 1,
              text |-> Append(acc.text, [conv |-> tok.conv, val |-> vals[acc.n]])]
        ELSE [n |-> acc.n,
              text |-> Append(acc.text, [conv |-> tok.conv, val |-> Text(tok.conv)])]
  IN  FoldLeft(step, [n |-> 1, text |-> <<>>], t).text

\* error_print (type, format0, argp), up to the loci it hands to show_loci
\* and the message text after them.
ErrorPrintOf(t) ==
  LET sc == ScanFormat(t)
      cv == ConvertArgs(sc, CallerArgs(t))
  IN  CASE sc.overrun   -> [status |-> "overrun", text |-> <<>>,
                            l1 |-> NoLocus, l2 |-> NoLocus]
        [] cv.failed    -> [status |-> "assert", text |-> <<>>,
                            l1 |-> NoLocus, l2 |-> NoLocus]
        [] SpecOverrun(sc) -> [status |-> "overrun", text |-> <<>>,
                               l1 |-> NoLocus, l2 |-> NoLocus]
        [] OTHER        -> [status |-> "ok",
                            text |-> EmitMessage(t, CopySpecs(sc, cv)),
                            l1 |-> cv.l1, l2 |-> cv.l2]

-----------------------------------------------------------------------------
NotYet == [status |-> "pending", text |-> <<>>, l1 |-> NoLocus, l2 |-> NoLocus]

Init ==
  /\ template \in {t \in BoundedSeq(Tokens, MaxTokens) : WellFormed(t)}
  /\ result = NotYet

\* A legacy entry point formats its message.
ErrorPrint ==
  /\ result = NotYet
  /\ result' = ErrorPrintOf(template)
  /\ UNCHANGED template

Next == ErrorPrint

Spec == Init /\ [][Next]_vars

-----------------------------------------------------------------------------
(* Reference: the message printf would print, with loci numbered in        *)
(* argument order (spec 4.3).                                              *)

RefValue(t, p) ==
  IF ConvAt(t, p) \in LocusConvs
  THEN Label(Cardinality({q \in LocusSlots(t) : q <= p}))
  ELSE Arg(p)

RefText(t) ==
  [i \in DOMAIN t |->
     IF t[i].kind = "spec"
     THEN [conv |-> t[i].conv,
           val |-> RefValue(t, SlotOf(t, Cardinality({j \in 1 .. i : t[j].kind = "spec"})))]
     ELSE [conv |-> t[i].conv, val |-> Text(t[i].conv)]]

RefLocus(t, j) ==
  LET ls == SetToSortSeq(LocusSlots(t), <)
  IN  IF j > Len(ls) THEN NoLocus
      ELSE IF ConvAt(t, ls[j]) = "C" THEN Current ELSE Arg(ls[j])

Values == {Arg(p) : p \in 0 .. MAX_ARGS - 1} \cup {Label(1), Label(2)}
          \cup {Text("lit"), Text("%")}
LocusValues == {Current, NoLocus} \cup {Arg(p) : p \in 0 .. MAX_ARGS - 1}

\* Every value printed is one the caller passed or a locus label: no
\* specifier prints a member of the argument union that pass 2 never set.
TypeOK ==
  /\ template \in BoundedSeq(Tokens, MaxTokens)
  /\ result.status \in {"pending", "ok", "assert", "overrun"}
  /\ \A i \in DOMAIN result.text :
       result.text[i] \in [conv : Conversions \cup {"lit", "%"}, val : Values]
  /\ {result.l1, result.l2} \subseteq LocusValues

\* For every template the format checking accepts, error_print prints what
\* printf would with the same positions: each specifier shows the argument
\* at its position, the loci show as (1) and (2) in argument order, %C
\* takes no argument, and show_loci is given the same two loci.
FormatMatchesReference ==
  result # NotYet =>
    /\ result.status = "ok"
    /\ result.text = RefText(template)
    /\ result.l1 = RefLocus(template, 1)
    /\ result.l2 = RefLocus(template, 2)
=============================================================================
