---------------------------- MODULE MCKeyslots ----------------------------
(* Keyslots with two single-line credentials and one of two lines, which   *)
(* are the two others.                                                     *)
EXTENDS Keyslots, TLC

CONSTANTS a, b, k

MCFirstLine  == [c \in {a, b, k} |-> IF c = k THEN b ELSE c]
MCSecondLine == [c \in {a, b, k} |-> a]

Symmetry == Permutations(Tasks)

=============================================================================
