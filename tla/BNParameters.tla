---------------------------- MODULE BNParameters ----------------------------
(***************************************************************************)
(* The sizes of the numbers in crypto/fipsmodule/bn.                       *)
(***************************************************************************)
EXTENDS Integers

CONSTANTS
    MaxBits,  \* the largest number of bits of a number
    Pow,      \* Pow[k] is 2^k
    Widths    \* the bits that a number of words may have

ASSUME PowAssumption ==
    /\ MaxBits \in Nat
    /\ Pow \in [0..MaxBits -> Nat]
    /\ Pow[0] = 1
    /\ \A k \in 0..MaxBits : k < MaxBits => Pow[k + 1] = 2 * Pow[k]
    /\ Widths \subseteq 1..MaxBits
=============================================================================
