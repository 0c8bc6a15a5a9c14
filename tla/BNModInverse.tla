---------------------------- MODULE BNModInverse ----------------------------
(***************************************************************************)
(* bn_mod_inverse_consttime, crypto/fipsmodule/bn/gcd_extra.cc.inc: the    *)
(* inverse of a modulo n by an extended binary GCD that runs for a fixed   *)
(* number of iterations and keeps its coefficients in as many words as a   *)
(* and n have.                                                             *)
(*                                                                         *)
(* A number of w words is a natural number below 2^(w * BN_BITS2); sums    *)
(* and differences of words wrap there and report a carry or a borrow.     *)
(* Choosing between two words under a mask is a conditional.               *)
(***************************************************************************)
EXTENDS BNParameters

VARIABLES
    a, n,            \* the arguments
    a_bits, n_bits,  \* their widths; a has at most as many words as n
    u, v,            \* the numbers that shrink
    A, B, C, D,      \* the coefficients
    i,               \* iterations done
    pc,              \* "start", "loop" or "done"
    r                \* the result, or -1 when there is no inverse

args == <<a, n, a_bits, n_bits>>
InverseVars == <<args, u, v, A, B, C, D, i, pc, r>>

-----------------------------------------------------------------------------
(***************************************************************************)
(* Words below R                                                           *)
(***************************************************************************)
Carry(x, R) == IF x >= R THEN 1 ELSE 0
Borrow(x, y) == IF x < y THEN 1 ELSE 0

(* bn_add_words and bn_sub_words *)
AddWords(x, y, R) == IF x + y >= R THEN x + y - R ELSE x + y
SubWords(x, y, R) == IF x < y THEN x - y + R ELSE x - y

(* bn_select_words: the mask is all ones or zero. *)
Select(mask, x, y) == IF mask = 0 THEN y ELSE x

IsOdd(x) == x % 2 = 1

Rn == Pow[n_bits]
Ra == Pow[a_bits]

num_iters == a_bits + n_bits

-----------------------------------------------------------------------------
(* The arguments are nonnegative and reduced. *)
InverseInit ==
    /\ n_bits \in Widths /\ a_bits \in Widths /\ a_bits <= n_bits
    /\ n \in 1..(Pow[n_bits] - 1)
    /\ a \in 0..(Pow[a_bits] - 1) /\ a < n
    /\ u = 0 /\ v = 0 /\ A = 0 /\ B = 0 /\ C = 0 /\ D = 0
    /\ i = 0 /\ pc = "start" /\ r = -1

(* Mutant: zero is never invertible. *)
ZeroResult_None == -1

(* Zero is its own inverse modulo one and has none otherwise. *)
ZeroResult == IF n = 1 THEN 0 ELSE -1

ReturnZero ==
    /\ pc = "start" /\ a = 0
    /\ r' = ZeroResult
    /\ pc' = "done"
    /\ UNCHANGED <<args, u, v, A, B, C, D, i>>

BothEven ==
    /\ pc = "start" /\ a # 0
    /\ ~IsOdd(a) /\ ~IsOdd(n)
    /\ r' = -1
    /\ pc' = "done"
    /\ UNCHANGED <<args, u, v, A, B, C, D, i>>

Start ==
    /\ pc = "start" /\ a # 0
    /\ IsOdd(a) \/ IsOdd(n)
    /\ u' = a /\ v' = n
    /\ A' = 1 /\ B' = 0 /\ C' = 0 /\ D' = 1
    /\ pc' = "loop"
    /\ UNCHANGED <<args, i, r>>

-----------------------------------------------------------------------------
(***************************************************************************)
(* One iteration.  If both numbers are odd, the smaller is subtracted from *)
(* the larger and the coefficients are added, A + C modulo n and B + D     *)
(* along with it: the carry of the first decides both.                     *)
(***************************************************************************)
BothOdd == IsOdd(u) /\ IsOdd(v)
SubtractFromU == BothOdd /\ v < u
SubtractFromV == BothOdd /\ ~(v < u)

(* -1, all ones, when A + C is less than n, and then nothing is taken off *)
SumCarry == Carry(A + C, Rn) - Borrow(AddWords(A, C, Rn), n)

SumAC == Select(SumCarry, AddWords(A, C, Rn),
                          SubWords(AddWords(A, C, Rn), n, Rn))

SumBD == Select(SumCarry, AddWords(B, D, Ra),
                          SubWords(AddWords(B, D, Ra), a, Ra))

u1 == IF SubtractFromU THEN u - v ELSE u
v1 == IF SubtractFromV THEN v - u ELSE v
A1 == IF SubtractFromU THEN SumAC ELSE A
B1 == IF SubtractFromU THEN SumBD ELSE B
C1 == IF SubtractFromV THEN SumAC ELSE C
D1 == IF SubtractFromV THEN SumBD ELSE D

(* Whether x and y, the coefficients of a number to be halved, are odd *)
Adjust(x, y) == IsOdd(x) \/ IsOdd(y)

(* maybe_add_words and maybe_rshift1_words_carry: the carry is shifted in. *)
Half(x, m, adjust) == IF adjust THEN (x + m) \div 2 ELSE x \div 2

(* The even one is halved, and its coefficients with it. *)
Iterate ==
    /\ pc = "loop" /\ i < num_iters
    /\ u' = IF IsOdd(u1) THEN u1 ELSE u1 \div 2
    /\ A' = IF IsOdd(u1) THEN A1 ELSE Half(A1, n, Adjust(A1, B1))
    /\ B' = IF IsOdd(u1) THEN B1 ELSE Half(B1, a, Adjust(A1, B1))
    /\ v' = IF IsOdd(v1) THEN v1 ELSE v1 \div 2
    /\ C' = IF IsOdd(v1) THEN C1 ELSE Half(C1, n, Adjust(C1, D1))
    /\ D' = IF IsOdd(v1) THEN D1 ELSE Half(D1, a, Adjust(C1, D1))
    /\ i' = i + 1
    /\ UNCHANGED <<args, pc, r>>

(* Mutant: the GCD is not looked at. *)
Result_Unchecked == A

Result == IF u = 1 THEN A ELSE -1

Finish ==
    /\ pc = "loop" /\ i = num_iters
    /\ r' = Result
    /\ pc' = "done"
    /\ UNCHANGED <<args, u, v, A, B, C, D, i>>

InverseNext == ReturnZero \/ BothEven \/ Start \/ Iterate \/ Finish

InverseSpec == InverseInit /\ [][InverseNext]_InverseVars

-----------------------------------------------------------------------------
\* The types of the numbers, the loop counter and the result
InverseTypeOK ==
    /\ a \in Nat /\ n \in Nat
    /\ a_bits \in Widths /\ n_bits \in Widths
    /\ a < n /\ a < Pow[a_bits] /\ n < Pow[n_bits] /\ a_bits <= n_bits
    /\ u \in Int /\ v \in Int
    /\ A \in Int /\ B \in Int /\ C \in Int /\ D \in Int
    /\ i \in Nat /\ i <= num_iters
    /\ pc \in {"start", "loop", "done"}
    /\ r \in Int

(***************************************************************************)
(* What the comment before the loop claims: the two numbers are the        *)
(* combinations of a and n that the coefficients say, and everything stays *)
(* within the words it has.                                                *)
(***************************************************************************)
LoopInvariant ==
    pc = "loop" =>
        /\ u = A * a - B * n
        /\ v = D * n - C * a
        /\ 0 < u /\ u <= a
        /\ 0 <= v /\ v <= n
        /\ 0 <= A /\ A < n /\ 0 <= C /\ C < n
        /\ 0 <= B /\ B <= a /\ 0 <= D /\ D <= a

(***************************************************************************)
(* What the assertions of the code say: exactly one of the numbers is even *)
(* when one is to be halved, and v is zero after the last iteration.       *)
(***************************************************************************)
AssertionsHold ==
    pc = "loop" =>
        /\ IsOdd(u1) # IsOdd(v1)
        /\ i = num_iters => v = 0

(* The result, if there is one, is reduced and inverts a modulo n. *)
IsInverse(x) ==
    /\ x \in 0..(n - 1)
    /\ n > 1 => \E k \in 0..a : a * x = k * n + 1

InverseRight == r # -1 => IsInverse(r)

(* Where the function reports that there is no inverse, there is none. *)
NoInverseRight ==
    pc = "done" /\ r = -1 => ~\E x \in 0..(n - 1) : IsInverse(x)
=============================================================================
