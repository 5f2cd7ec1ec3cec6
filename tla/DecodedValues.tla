---------------------------- MODULE DecodedValues ----------------------------
(***************************************************************************)
(* What the decoders of the verifier leave besides a value, and the ranges  *)
(* of its integers.  A field that is there and decodes is the value itself. *)
(***************************************************************************)
EXTENDS Integers, Sequences

CONSTANTS
  Absent,      \* an optional field or argument that is not there
  Garbage,     \* there, but not of the type or form the code reads
  Unreadable,  \* a certificate extension that does not decode, a list that does not inflate
  MaxI64,      \* i64::MAX, small in the runs
  MaxU64       \* u64::MAX, small in the runs

ASSUME WidthAssumption == MaxI64 \in Nat /\ MaxU64 \in Nat
\* What is not there or not read is no number.
ASSUME DecodedAssumption == Absent # Garbage /\ Absent \notin Int /\ Garbage \notin Int

IsValue(v) == v \notin {Absent, Garbage}

\* What a sequence holds of a set, in its order: a retain, a filter.
Retain(s, S) ==
  LET Upto[n \in 0..Len(s)] ==
        IF n = 0 THEN <<>> ELSE IF s[n] \in S THEN Append(Upto[n - 1], s[n]) ELSE Upto[n - 1]
  IN  Upto[Len(s)]
==============================================================================
