------------------------------ MODULE Dimensions ------------------------------
(***************************************************************************)
(* The dimensions of a tileset, lib/dimension.c: which values a request    *)
(* may ask for and how a valid value is spelled afterwards. A value is a   *)
(* word or a number and a form: written plainly, in capitals or padded     *)
(* with zeros.                                                             *)
(***************************************************************************)
EXTENDS Integers, FiniteSets

CONSTANTS None,   \* an attribute, a child or a parameter that is not there
          Junk    \* one that is there and cannot be read

Readable(x) == x \notin {None, Junk}
Optional(x) == x # Junk
Given(x, default) == IF x = None THEN default ELSE x

Word(w, form) == [word |-> w, number |-> {}, form |-> form]
Numeral(n, form) == [word |-> "", number |-> {n}, form |-> form]

(* struct mapcache_dimension and its kinds: values, regex and intervals.   *)
(* words: the values, or those that the expression matches; intervals:     *)
(* records of start, end and resolution.                                   *)
Dimension(el) ==
  [type |-> el.type, name |-> el.name, default_value |-> el.default,
   words |-> el.words, intervals |-> el.intervals, case_sensitive |-> el.case_sensitive = "true"]

SameWord(v, w) == v.word = w.word /\ v.number = w.number
ValuesValidate(dim, v) ==
  IF \E w \in dim.words : IF dim.case_sensitive THEN v = w ELSE SameWord(v, w) THEN {v} ELSE {}

RegexValidate(dim, v) == IF v \in dim.words THEN {v} ELSE {}

(* A number is always written anew. A resolution of 0 takes all between.   *)
InInterval(n, i) ==
  /\ n >= i.start /\ n <= i.end
  /\ i.resolution = 0 \/ (n - i.start) % i.resolution = 0
IntervalsValidate(dim, v) ==
  IF \E n \in v.number, i \in dim.intervals : InInterval(n, i) THEN {[v EXCEPT !.form = "plain"]} ELSE {}

(* dimension->validate: the value as it will be used, or none.             *)
Validate(dim, v) ==
  CASE dim.type = "values" -> ValuesValidate(dim, v)
    [] dim.type = "regex" -> RegexValidate(dim, v)
    [] dim.type = "intervals" -> IntervalsValidate(dim, v)

(* <dimension>: time is known and not implemented.                         *)
DimensionAccepted(el) ==
  /\ Readable(el.name) /\ Readable(el.default)
  /\ \/ el.type \in {"values", "regex"} /\ Readable(el.words) /\ el.words # {}
     \/ el.type = "intervals" /\ Readable(el.intervals) /\ el.intervals # {}
=============================================================================
