----------------------------- MODULE FormatUtil -----------------------------
(***************************************************************************)
(* The compile-time reading of a format string by nanolog (FormatUtil.hpp)   *)
(* and the statement that uses it (UserLog.hpp, the level of Logger.hpp).    *)
(* A string literal is a sequence of characters that ends with its NUL.      *)
(***************************************************************************)
EXTENDS Integers, Sequences, SequencesExt

NUL == "\\0"
LOG_TYPE_NUM == 5   \* SILENT .. DEBUG

marker_to_param_type(c) ==
  IF c \in {"d", "f", "c"} THEN "NON_STRING" ELSE IF c = "s" THEN "STRING" ELSE "INVALID"

(* Mutant of Scan: the second of two '%' is read again as a marker.                  *)
ScanEveryPercent(stringFormat) ==
  FoldLeft(LAMBDA s, c :
             [marked |-> c = "%",
              markers |-> IF s.marked /\ c # "%" THEN Append(s.markers, c) ELSE s.markers],
           [marked |-> FALSE, markers |-> <<>>], stringFormat)

(* The loop shared by the two readers: it passes over the character after     *)
(* every '%', and a parameter is there unless that is another '%'.           *)
Scan(stringFormat) ==
  FoldLeft(LAMBDA s, c :
             IF s.marked
             THEN [marked |-> FALSE,
                   markers |-> IF c # "%" THEN Append(s.markers, c) ELSE s.markers]
             ELSE [s EXCEPT !.marked = (c = "%")],
           [marked |-> FALSE, markers |-> <<>>], stringFormat)

count_param_types(stringFormat) == Len(Scan(stringFormat).markers)

(* An array of NTypes entries, zero (STRING) where the loop stores nothing.  *)
analyze_params_format(NTypes, stringFormat) ==
  LET markers == Scan(stringFormat).markers
  IN [i \in 1..NTypes |-> IF i <= Len(markers) THEN marker_to_param_type(markers[i]) ELSE "STRING"]

check_number_match(NTypes, args) == NTypes = args

(* set_log_level clamps what it is given.                                   *)
set_log_level(level) ==
  IF level < 0 THEN 0 ELSE IF level > LOG_TYPE_NUM - 1 THEN LOG_TYPE_NUM - 1 ELSE level

(* Whether the text of the macro is a statement of C++: without arguments the *)
(* call of static_check_format ends in a comma, and a static_assert takes only *)
(* arguments that are constant expressions.                                  *)
WellFormed(args, constant) == args > 0 /\ constant

(* A log statement: whether it compiles, the types it stores, and whether it  *)
(* prints at the current level.                                              *)
cshr_log(logLevel, stringFormat, args, constant, current) ==
  LET NTypes == count_param_types(stringFormat)
      compiles == WellFormed(args, constant) /\ check_number_match(NTypes, args)
  IN [compiles |-> compiles,
      paramsArray |-> analyze_params_format(NTypes, stringFormat),
      prints |-> compiles /\ logLevel <= current]
=============================================================================
