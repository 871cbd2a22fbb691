---------------------------- MODULE MCEnrollment ----------------------------
(* Small instances of Enrollment for TLC. *)
EXTENDS Enrollment, TLC

CONSTANTS n1, n2, k1, f1, f2

\* Two machines present one token; the machines have fingerprints of their own.
OneToken == [n \in Node |-> k1]
OwnFp == [n \in Node |-> IF n = n1 THEN f1 ELSE f2]

\* One machine sends its join twice.
SameFp == [n \in Node |-> f1]

NoPairs == {}

\* Operators are interchangeable.
OperatorSymmetry == Permutations(Operator)
==============================================================================
