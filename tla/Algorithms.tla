----------------------------- MODULE Algorithms -----------------------------
(***************************************************************************)
(* The repository's pure code in one state machine: each of the exercises of *)
(* Luogu and the log statement of FormatUtil reads an input, gives an output *)
(* and ends.                                                                 *)
(***************************************************************************)
EXTENDS Luogu, FormatUtil

CONSTANTS
  Characters,       \* of a format string
  MaxFormatLength   \* of a format string, without its NUL

ASSUME FormatAssumption == MaxFormatLength \in Nat /\ NUL \notin Characters

UserLog ==
  /\ program = "none"
  /\ \E s \in BoundedSeq(Characters, MaxFormatLength), args \in 0..MaxFormatLength,
        constant \in BOOLEAN, level \in {1, LOG_TYPE_NUM - 1}, asked \in {-1, 1, LOG_TYPE_NUM} :
       LET format == Append(s, NUL)
       IN Runs("cshr_log",
               [format |-> format, args |-> args, constant |-> constant, asked |-> asked],
               cshr_log(level, format, args, constant, set_log_level(asked)))

AllNext == Next \/ UserLog

AllSpec == Init /\ [][AllNext]_vars

-----------------------------------------------------------------------------
(* The conversions of a format as printf reads them: a '%' that opens one is   *)
(* the last of an odd number in a row.                                       *)
PercentsUpTo(s, i) ==
  LET starts == {k \in 1..i : \A j \in k..i : s[j] = "%"} IN Cardinality(starts)
Conversions(s) ==
  {i \in 1..(Len(s) - 1) : s[i] = "%" /\ PercentsUpTo(s, i) % 2 = 1 /\ s[i + 1] # "%"}

(* A log statement compiles just if it has an argument for each conversion of  *)
(* its format, "%%" being none, at least one, and constants all of them; the   *)
(* type of each conversion is read in order; it prints only at its level,     *)
(* which an out-of-range set_log_level cannot move past the first or the last. *)
(* A '%' at the end of the literal counts as a conversion, of no valid type.  *)
FormatAnswered ==
  program = "cshr_log" =>
    LET found == SetToSortSeq(Conversions(input.format), LAMBDA i, j : i < j)
    IN /\ output.compiles <=> /\ Len(found) > 0 /\ input.args = Len(found)
                               /\ input.constant
       /\ output.paramsArray =
            [k \in 1..Len(found) |-> marker_to_param_type(input.format[found[k] + 1])]
       /\ input.asked < 0 => ~output.prints
       /\ input.asked >= LOG_TYPE_NUM /\ output.compiles => output.prints

(* The exercises on graphs.                                                 *)
GraphsAnswered ==
  ShortestPaths /\ MaximumMatching /\ TransitiveClosureOf /\ OwnEdgesSorted

(* The exercises on numbers.                                                *)
AllNumbersAnswered == NumbersAnswered /\ InversesAgree
=============================================================================
