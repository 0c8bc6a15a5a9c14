------------------------- MODULE BNModInverseProofs -------------------------
(***************************************************************************)
(* bn_mod_inverse_consttime is right for numbers of every size: the loop   *)
(* invariant of its comment is inductive, its assertions hold, and what it *)
(* returns inverts a modulo n.                                             *)
(***************************************************************************)
EXTENDS BNModInverse, TLAPS

(* x is the combination of aa and nn with the coefficients P and -Q. *)
Combines(x, P, Q, aa, nn) == x = P * aa - Q * nn

(* A smaller product with a positive factor has the smaller other factor. *)
LEMMA ProductOrder ==
    ASSUME NEW x \in Int, NEW y \in Int, NEW m \in Int, m > 0, x * m < y * m
    PROVE  x < y
<1>1. SUFFICES ASSUME x >= y PROVE FALSE
  OBVIOUS
<1>2. (x - y) * m >= 0
  BY <1>1
<1>3. (x - y) * m = x * m - y * m
  OBVIOUS
<1> QED BY <1>2, <1>3

(***************************************************************************)
(* When u is replaced by u - v, the sum of the coefficients of n exceeds a *)
(* exactly where that of the coefficients of a exceeds n.                  *)
(***************************************************************************)
LEMMA SumBoundU ==
    ASSUME NEW x \in Int, NEW P \in Int, NEW Q \in Int,
           NEW aa \in Int, NEW nn \in Int,
           0 < aa, aa < nn, Combines(x, P, Q, aa, nn), 0 < x, x <= aa
    PROVE  /\ P < nn => Q <= aa
           /\ P >= nn => Q >= aa
<1>1. CASE P < nn
  <2>1. P * aa < nn * aa
    BY <1>1
  <2>2. Q * nn < aa * nn
    BY <2>1 DEF Combines
  <2> QED BY <1>1, <2>2, ProductOrder
<1>2. CASE P >= nn
  <2>1. (P - nn) * aa >= 0
    BY <1>2
  <2>2. P * aa >= nn * aa
    BY <2>1
  <2>3. (aa - 1) * nn < Q * nn
    BY <2>2 DEF Combines
  <2>4. aa - 1 < Q
    BY <2>3, ProductOrder
  <2> QED BY <1>2, <2>4
<1> QED BY <1>1, <1>2

(* The same when v is replaced by v - u *)
LEMMA SumBoundV ==
    ASSUME NEW x \in Int, NEW P \in Int, NEW Q \in Int,
           NEW aa \in Int, NEW nn \in Int,
           0 < aa, aa < nn, Combines(x, P, Q, aa, nn), x <= 0, -nn <= x
    PROVE  /\ P < nn => Q <= aa
           /\ P >= nn => Q >= aa
<1>1. CASE P < nn
  <2>1. P * aa <= (nn - 1) * aa
    <3>1. (nn - 1 - P) * aa >= 0
      BY <1>1
    <3> QED BY <3>1
  <2>2. Q * nn < (aa + 1) * nn
    BY <2>1 DEF Combines
  <2>3. Q < aa + 1
    BY <2>2, ProductOrder
  <2> QED BY <1>1, <2>3
<1>2. CASE P >= nn
  <2>1. (P - nn) * aa >= 0
    BY <1>2
  <2>2. (aa - 1) * nn < Q * nn
    BY <2>1 DEF Combines
  <2>3. aa - 1 < Q
    BY <2>2, ProductOrder
  <2> QED BY <1>2, <2>3
<1> QED BY <1>1, <1>2

(* An integer is twice its half, plus one if it is odd. *)
LEMMA Halves ==
    ASSUME NEW x \in Int
    PROVE  /\ x \div 2 \in Int
           /\ x % 2 \in {0, 1}
           /\ x = 2 * (x \div 2) + (x % 2)
  OBVIOUS

(***************************************************************************)
(* Halving 2h = P * aa - Q * nn: if a coefficient is odd, then adding nn   *)
(* to P and aa to Q makes both even, because aa and nn are not both even.  *)
(***************************************************************************)
LEMMA OddTogether ==
    ASSUME NEW h \in Int, NEW P \in Int, NEW Q \in Int,
           NEW aa \in Int, NEW nn \in Int,
           Combines(2 * h, P, Q, aa, nn), IsOdd(aa) \/ IsOdd(nn),
           IsOdd(P) \/ IsOdd(Q)
    PROVE  P % 2 = nn % 2 /\ Q % 2 = aa % 2
<1> DEFINE p == P \div 2
           q == Q \div 2
           f == aa \div 2
           g == nn \div 2
           p0 == P % 2
           q0 == Q % 2
           f0 == aa % 2
           g0 == nn % 2
<1>1. /\ P = 2 * p + p0 /\ Q = 2 * q + q0
      /\ aa = 2 * f + f0 /\ nn = 2 * g + g0
      /\ p \in Int /\ q \in Int /\ f \in Int /\ g \in Int
      /\ p0 \in {0, 1} /\ q0 \in {0, 1} /\ f0 \in {0, 1} /\ g0 \in {0, 1}
  BY Halves
<1>2. f0 = 1 \/ g0 = 1
  BY DEF IsOdd
<1>3. p0 = 1 \/ q0 = 1
  BY DEF IsOdd
<1> HIDE DEF p, q, f, g, p0, q0, f0, g0
<1>4. P * aa = 2 * (2 * p * f + p * f0 + p0 * f) + p0 * f0
  BY <1>1
<1>5. Q * nn = 2 * (2 * q * g + q * g0 + q0 * g) + q0 * g0
  BY <1>1
<1>6. PICK m \in Int : p0 * f0 - q0 * g0 = 2 * m
  <2> DEFINE w == h - (2 * p * f + p * f0 + p0 * f)
                   + (2 * q * g + q * g0 + q0 * g)
  <2>1. w \in Int
    BY <1>1
  <2>2. p0 * f0 - q0 * g0 = 2 * w
    BY <1>1, <1>4, <1>5 DEF Combines
  <2> QED BY <2>1, <2>2
<1>7. p0 = g0 /\ q0 = f0
  BY <1>1, <1>2, <1>3, <1>6
<1> QED BY <1>7 DEF p0, q0, f0, g0

LEMMA HalfSum ==
    ASSUME NEW x \in Int, NEW y \in Int, x % 2 = y % 2
    PROVE  2 * ((x + y) \div 2) = x + y
<1>1. x + y = 2 * (x \div 2 + y \div 2 + (x % 2))
  BY Halves
<1> QED BY <1>1

LEMMA Halving ==
    ASSUME NEW h \in Int, NEW P \in Int, NEW Q \in Int,
           NEW aa \in Int, NEW nn \in Int,
           Combines(2 * h, P, Q, aa, nn), IsOdd(aa) \/ IsOdd(nn),
           0 <= P, P < nn, 0 <= Q, Q <= aa
    PROVE  LET P2 == Half(P, nn, Adjust(P, Q))
               Q2 == Half(Q, aa, Adjust(P, Q))
           IN  /\ h = P2 * aa - Q2 * nn
               /\ P2 \in Int /\ Q2 \in Int
               /\ 0 <= P2 /\ P2 < nn /\ 0 <= Q2 /\ Q2 <= aa
<1> DEFINE P2 == Half(P, nn, Adjust(P, Q))
           Q2 == Half(Q, aa, Adjust(P, Q))
<1>1. CASE Adjust(P, Q)
  <2>0. IsOdd(P) \/ IsOdd(Q)
    BY <1>1 DEF Adjust
  <2>1. P % 2 = nn % 2 /\ Q % 2 = aa % 2
    BY <2>0, OddTogether
  <2>2. 2 * P2 = P + nn /\ 2 * Q2 = Q + aa
    BY <1>1, <2>1, HalfSum DEF Half
  <2>3. P2 \in Int /\ Q2 \in Int
    BY <1>1, Halves DEF Half
  <2> HIDE DEF P2, Q2
  <2>4. 2 * (P2 * aa - Q2 * nn) = 2 * h
    <3>1. 2 * (P2 * aa - Q2 * nn) = (2 * P2) * aa - (2 * Q2) * nn
      BY <2>3
    <3>2. (P + nn) * aa - (Q + aa) * nn = P * aa - Q * nn
      OBVIOUS
    <3> QED BY <2>2, <3>1, <3>2 DEF Combines
  <2>5. h = P2 * aa - Q2 * nn
    BY <2>3, <2>4
  <2>6. 0 <= P2 /\ P2 < nn /\ 0 <= Q2 /\ Q2 <= aa
    BY <2>2, <2>3
  <2> QED BY <2>3, <2>5, <2>6 DEF P2, Q2
<1>2. CASE ~Adjust(P, Q)
  <2>1. 2 * P2 = P /\ 2 * Q2 = Q /\ P2 \in Int /\ Q2 \in Int
    BY <1>2, Halves DEF Half, Adjust, IsOdd
  <2> HIDE DEF P2, Q2
  <2>2. 2 * (P2 * aa - Q2 * nn) = (2 * P2) * aa - (2 * Q2) * nn
    BY <2>1
  <2>3. h = P2 * aa - Q2 * nn
    BY <2>1, <2>2 DEF Combines
  <2> QED BY <2>1, <2>3 DEF P2, Q2
<1> QED BY <1>1, <1>2

-----------------------------------------------------------------------------
(***************************************************************************)
(* The inductive invariant.  Besides what the comment claims, at most one  *)
(* of the two numbers is even, and each iteration takes a bit off one of   *)
(* them: k bits have been taken off u and l off v.                         *)
(***************************************************************************)
OneOdd == pc = "loop" => (IsOdd(u) \/ IsOdd(v)) /\ (IsOdd(a) \/ IsOdd(n))

Taken(k, l) ==
    /\ k \in 0..a_bits /\ l \in 0..n_bits
    /\ k + l = i
    /\ u < Pow[a_bits - k] /\ v < Pow[n_bits - l]

Shrinks == pc = "loop" => v = 0 \/ \E k, l \in Nat : Taken(k, l)

AtStart == pc = "start" => i = 0 /\ r = -1

InLoop == pc = "loop" => r = -1 /\ a > 0

IInv == /\ InverseTypeOK /\ LoopInvariant /\ OneOdd /\ Shrinks /\ AtStart /\ InLoop
        /\ InverseRight

LEMMA InitIInv == InverseInit => IInv
<1> SUFFICES ASSUME InverseInit PROVE IInv
  OBVIOUS
<1>1. n_bits \in 0..MaxBits /\ a_bits \in 0..MaxBits
  BY PowAssumption DEF InverseInit
<1>2. Pow[n_bits] \in Nat /\ Pow[a_bits] \in Nat
  BY <1>1, PowAssumption
<1>3. InverseTypeOK
  BY <1>1, <1>2 DEF InverseInit, InverseTypeOK, num_iters
<1> QED
  BY <1>3 DEF InverseInit, IInv, LoopInvariant, OneOdd, Shrinks, AtStart, InLoop,
              InverseRight

(* What an iteration has to start from *)
LEMMA Facts ==
    ASSUME IInv, pc = "loop"
    PROVE  /\ a \in Int /\ n \in Int /\ 0 < a /\ a < n
           /\ u \in Int /\ v \in Int
           /\ A \in Int /\ B \in Int /\ C \in Int /\ D \in Int
           /\ u = A * a - B * n /\ v = D * n - C * a
           /\ 0 < u /\ u <= a /\ 0 <= v /\ v <= n
           /\ 0 <= A /\ A < n /\ 0 <= C /\ C < n
           /\ 0 <= B /\ B <= a /\ 0 <= D /\ D <= a
           /\ IsOdd(u) \/ IsOdd(v)
           /\ IsOdd(a) \/ IsOdd(n)
           /\ a < Ra /\ n < Rn /\ Ra \in Int /\ Rn \in Int
<1>1. n_bits \in 0..MaxBits /\ a_bits \in 0..MaxBits
  BY PowAssumption DEF IInv, InverseTypeOK
<1>2. Pow[n_bits] \in Nat /\ Pow[a_bits] \in Nat
  BY <1>1, PowAssumption
<1> QED
  BY <1>2 DEF IInv, InverseTypeOK, LoopInvariant, OneOdd, InLoop, Ra, Rn

(***************************************************************************)
(* Both sums are reduced by the carry of the first, and both come out in   *)
(* range.                                                                  *)
(***************************************************************************)
LEMMA Sums ==
    ASSUME IInv, pc = "loop",
           A + C < n => B + D <= a, A + C >= n => B + D >= a
    PROVE  /\ SumAC = IF A + C < n THEN A + C ELSE A + C - n
           /\ SumBD = IF A + C < n THEN B + D ELSE B + D - a
           /\ SumAC \in Int /\ SumBD \in Int
           /\ 0 <= SumAC /\ SumAC < n /\ 0 <= SumBD /\ SumBD <= a
<1>1. SumCarry = IF A + C < n THEN -1 ELSE 0
  BY Facts DEF SumCarry, Carry, Borrow, AddWords
<1>2. SumAC = IF A + C < n THEN A + C ELSE A + C - n
  BY Facts, <1>1 DEF SumAC, Select, AddWords, SubWords
<1>3. SumBD = IF A + C < n THEN B + D ELSE B + D - a
  BY Facts, <1>1 DEF SumBD, Select, AddWords, SubWords
<1> QED BY Facts, <1>2, <1>3

(* What the first half of an iteration keeps *)
Kept ==
    /\ u1 \in Int /\ v1 \in Int
    /\ A1 \in Int /\ B1 \in Int /\ C1 \in Int /\ D1 \in Int
    /\ u1 = A1 * a - B1 * n /\ v1 = D1 * n - C1 * a
    /\ 0 < u1 /\ u1 <= u /\ 0 <= v1 /\ v1 <= v
    /\ 0 <= A1 /\ A1 < n /\ 0 <= C1 /\ C1 < n
    /\ 0 <= B1 /\ B1 <= a /\ 0 <= D1 /\ D1 <= a
    /\ \/ IsOdd(u1) /\ ~IsOdd(v1)
       \/ ~IsOdd(u1) /\ IsOdd(v1)

LEMMA Difference ==
    ASSUME NEW x \in Int, NEW y \in Int, IsOdd(x), IsOdd(y)
    PROVE  ~IsOdd(x - y)
<1>1. x - y = 2 * (x \div 2 - y \div 2)
  BY Halves DEF IsOdd
<1> QED BY <1>1, Halves DEF IsOdd

LEMMA Subtracting == ASSUME IInv, pc = "loop" PROVE Kept
<1>1. CASE SubtractFromU
  <2>1. u - v = (A + C) * a - (B + D) * n
    BY Facts
  <2>2. 0 < u - v /\ u - v <= a
    BY <1>1, Facts DEF SubtractFromU
  <2>3. /\ A + C < n => B + D <= a
        /\ A + C >= n => B + D >= a
    <3>1. A + C \in Int /\ B + D \in Int /\ u - v \in Int
      BY Facts
    <3>2. Combines(u - v, A + C, B + D, a, n)
      BY <2>1 DEF Combines
    <3> QED BY <2>2, <3>1, <3>2, Facts, SumBoundU
  <2>4. SumAC * a - SumBD * n = (A + C) * a - (B + D) * n
    <3>1. (A + C - n) * a - (B + D - a) * n = (A + C) * a - (B + D) * n
      BY Facts
    <3> QED BY <2>3, <3>1, Sums
  <2>5. ~SubtractFromV
    BY <1>1 DEF SubtractFromU, SubtractFromV
  <2>6. /\ u1 = u - v /\ A1 = SumAC /\ B1 = SumBD
        /\ v1 = v /\ C1 = C /\ D1 = D
    BY <1>1, <2>5 DEF u1, A1, B1, v1, C1, D1
  <2>7. ~IsOdd(u1) /\ IsOdd(v1)
    BY <1>1, <2>6, Facts, Difference DEF SubtractFromU, BothOdd
  <2>8. u1 = A1 * a - B1 * n
    BY <2>1, <2>4, <2>6
  <2> QED BY <2>2, <2>3, <2>6, <2>7, <2>8, Facts, Sums DEF Kept
<1>2. CASE SubtractFromV
  <2>1. v - u = (B + D) * n - (A + C) * a
    BY Facts
  <2>2. 0 <= v - u /\ v - u <= n
    BY <1>2, Facts DEF SubtractFromV
  <2>3. /\ A + C < n => B + D <= a
        /\ A + C >= n => B + D >= a
    <3>1. A + C \in Int /\ B + D \in Int /\ u - v \in Int
      BY Facts
    <3>2. Combines(u - v, A + C, B + D, a, n)
      BY <2>1, Facts DEF Combines
    <3>3. u - v <= 0 /\ -n <= u - v
      BY <2>2, Facts
    <3>4. a \in Int /\ n \in Int /\ 0 < a /\ a < n
      BY Facts
    <3> QED BY <3>1, <3>2, <3>3, <3>4, SumBoundV
  <2>4. SumBD * n - SumAC * a = (B + D) * n - (A + C) * a
    <3>1. (B + D - a) * n - (A + C - n) * a = (B + D) * n - (A + C) * a
      BY Facts
    <3> QED BY <2>3, <3>1, Sums
  <2>5. ~SubtractFromU
    BY <1>2 DEF SubtractFromU, SubtractFromV
  <2>6. /\ v1 = v - u /\ C1 = SumAC /\ D1 = SumBD
        /\ u1 = u /\ A1 = A /\ B1 = B
    BY <1>2, <2>5 DEF u1, A1, B1, v1, C1, D1
  <2>7. IsOdd(u1) /\ ~IsOdd(v1)
    BY <1>2, <2>6, Facts, Difference DEF SubtractFromV, BothOdd
  <2>8. v1 = D1 * n - C1 * a
    BY <2>1, <2>4, <2>6
  <2> QED BY <2>2, <2>3, <2>6, <2>7, <2>8, Facts, Sums DEF Kept
<1>3. CASE ~SubtractFromU /\ ~SubtractFromV
  <2>1. /\ u1 = u /\ A1 = A /\ B1 = B
        /\ v1 = v /\ C1 = C /\ D1 = D
    BY <1>3 DEF u1, A1, B1, v1, C1, D1
  <2>2. \/ IsOdd(u) /\ ~IsOdd(v)
        \/ ~IsOdd(u) /\ IsOdd(v)
    BY <1>3, Facts DEF SubtractFromU, SubtractFromV, BothOdd
  <2> QED BY <2>1, <2>2, Facts DEF Kept
<1> QED BY <1>1, <1>2, <1>3

(* The second half of an iteration keeps what the first one did. *)
LEMMA HalvedU ==
    ASSUME IInv, pc = "loop", i < num_iters, Iterate
    PROVE  /\ u' \in Int /\ A' \in Int /\ B' \in Int
           /\ u' = A' * a - B' * n
           /\ 0 < u' /\ u' <= u
           /\ 0 <= A' /\ A' < n /\ 0 <= B' /\ B' <= a
<1>0. Kept
  BY Subtracting
<1>1. CASE IsOdd(u1)
  <2>1. u' = u1 /\ A' = A1 /\ B' = B1
    BY <1>1 DEF Iterate
  <2> QED BY <1>0, <2>1 DEF Kept
<1>2. CASE ~IsOdd(u1)
  <2> DEFINE h == u1 \div 2
  <2>1. u' = h /\ A' = Half(A1, n, Adjust(A1, B1))
                /\ B' = Half(B1, a, Adjust(A1, B1))
    BY <1>2 DEF Iterate
  <2>2. u1 \in Int /\ 0 < u1 /\ u1 <= u
    BY <1>0 DEF Kept
  <2>3. h \in Int /\ u1 = 2 * h
    BY <1>2, <2>2, Halves DEF IsOdd
  <2>4. Combines(2 * h, A1, B1, a, n)
    BY <1>0, <2>3 DEF Kept, Combines
  <2>5. /\ A1 \in Int /\ B1 \in Int /\ 0 <= A1 /\ A1 < n /\ 0 <= B1 /\ B1 <= a
    BY <1>0 DEF Kept
  <2>6. a \in Int /\ n \in Int /\ (IsOdd(a) \/ IsOdd(n))
    BY Facts
  <2>7. 0 < h /\ h <= u
    <3>1. u \in Int
      BY Facts
    <3> QED BY <2>2, <2>3, <3>1
  <2> HIDE DEF h
  <2>8. LET P2 == Half(A1, n, Adjust(A1, B1))
            Q2 == Half(B1, a, Adjust(A1, B1))
        IN  /\ h = P2 * a - Q2 * n
            /\ P2 \in Int /\ Q2 \in Int
            /\ 0 <= P2 /\ P2 < n /\ 0 <= Q2 /\ Q2 <= a
    BY <2>3, <2>4, <2>5, <2>6, Halving
  <2> QED BY <2>1, <2>3, <2>7, <2>8
<1> QED BY <1>1, <1>2

LEMMA HalvedV ==
    ASSUME IInv, pc = "loop", i < num_iters, Iterate
    PROVE  /\ v' \in Int /\ C' \in Int /\ D' \in Int
           /\ v' = D' * n - C' * a
           /\ 0 <= v' /\ v' <= v
           /\ 0 <= C' /\ C' < n /\ 0 <= D' /\ D' <= a
<1>0. Kept
  BY Subtracting
<1>1. CASE IsOdd(v1)
  <2>1. v' = v1 /\ C' = C1 /\ D' = D1
    BY <1>1 DEF Iterate
  <2> QED BY <1>0, <2>1 DEF Kept
<1>2. CASE ~IsOdd(v1)
  <2> DEFINE h == v1 \div 2
             g == -h
  <2>1. v' = h /\ C' = Half(C1, n, Adjust(C1, D1))
                /\ D' = Half(D1, a, Adjust(C1, D1))
    BY <1>2 DEF Iterate
  <2>2. v1 \in Int /\ 0 <= v1 /\ v1 <= v
    BY <1>0 DEF Kept
  <2>3. h \in Int /\ v1 = 2 * h
    BY <1>2, <2>2, Halves DEF IsOdd
  <2>4. Combines(2 * g, C1, D1, a, n)
    <3>1. v1 = D1 * n - C1 * a /\ C1 \in Int /\ D1 \in Int
      BY <1>0 DEF Kept
    <3>2. a \in Int /\ n \in Int
      BY Facts
    <3> QED BY <2>3, <3>1, <3>2 DEF Combines
  <2>5. /\ C1 \in Int /\ D1 \in Int /\ 0 <= C1 /\ C1 < n /\ 0 <= D1 /\ D1 <= a
    BY <1>0 DEF Kept
  <2>6. a \in Int /\ n \in Int /\ (IsOdd(a) \/ IsOdd(n))
    BY Facts
  <2>7. 0 <= h /\ h <= v /\ g \in Int /\ h = -g
    <3>1. v \in Int
      BY Facts
    <3> QED BY <2>2, <2>3, <3>1
  <2> HIDE DEF h, g
  <2>8. LET P2 == Half(C1, n, Adjust(C1, D1))
            Q2 == Half(D1, a, Adjust(C1, D1))
        IN  /\ g = P2 * a - Q2 * n
            /\ P2 \in Int /\ Q2 \in Int
            /\ 0 <= P2 /\ P2 < n /\ 0 <= Q2 /\ Q2 <= a
    BY <2>4, <2>5, <2>6, <2>7, Halving
  <2>9. g = C' * a - D' * n /\ C' \in Int /\ D' \in Int
    BY <2>1, <2>8
  <2>10. v' = D' * n - C' * a
    BY <2>1, <2>6, <2>7, <2>9
  <2> QED BY <2>1, <2>3, <2>7, <2>8, <2>10
<1> QED BY <1>1, <1>2

LEMMA PowStep ==
    ASSUME NEW w \in Widths, NEW k \in 0..w
    PROVE  /\ w \in Nat
           /\ Pow[w - k] \in Nat
           /\ k = w => Pow[w - k] = 1
           /\ k < w => k + 1 \in 0..w /\ Pow[w - k] = 2 * Pow[w - (k + 1)]
                       /\ Pow[w - (k + 1)] \in Nat
<1>1. w \in 1..MaxBits /\ MaxBits \in Nat
  BY PowAssumption
<1>2. w - k \in 0..MaxBits
  BY <1>1
<1>3. CASE k = w
  BY <1>1, <1>2, <1>3, PowAssumption
<1>4. CASE k < w
  <2>1. w - (k + 1) \in 0..MaxBits /\ w - (k + 1) < MaxBits
    BY <1>1, <1>4
  <2>2. (w - (k + 1)) + 1 = w - k
    BY <1>1, <1>4
  <2>3. Pow[(w - (k + 1)) + 1] = 2 * Pow[w - (k + 1)]
    BY <2>1, PowAssumption
  <2>4. k + 1 \in 0..w
    BY <1>1, <1>4
  <2> QED BY <1>1, <1>2, <1>4, <2>1, <2>2, <2>3, <2>4, PowAssumption
<1> QED BY <1>1, <1>3, <1>4

(* An iteration takes a bit off the number that it halves. *)
LEMMA TakesABit ==
    ASSUME IInv, pc = "loop", i < num_iters, Iterate
    PROVE  v' = 0 \/ \E k, l \in Nat : Taken(k, l)'
<1>0. Kept
  BY Subtracting
<1>1. /\ a_bits \in Widths /\ n_bits \in Widths /\ i \in Nat
      /\ a_bits' = a_bits /\ n_bits' = n_bits /\ i' = i + 1
  BY DEF IInv, InverseTypeOK, Iterate, args
<1>2. /\ u \in Int /\ v \in Int /\ u1 \in Int /\ v1 \in Int
      /\ 0 < u1 /\ u1 <= u /\ 0 <= v1 /\ v1 <= v
  BY <1>0, Facts DEF Kept
<1>3. CASE v = 0
  BY <1>2, <1>3, HalvedV
<1>4. CASE v # 0
  <2>1. PICK k \in Nat, l \in Nat : Taken(k, l)
    BY <1>4 DEF IInv, Shrinks
  <2>2. /\ k \in 0..a_bits /\ l \in 0..n_bits /\ k + l = i
        /\ u < Pow[a_bits - k] /\ v < Pow[n_bits - l]
    BY <2>1 DEF Taken
  <2>3. /\ Pow[a_bits - k] \in Nat /\ Pow[n_bits - l] \in Nat
        /\ k = a_bits => Pow[a_bits - k] = 1
        /\ l = n_bits => Pow[n_bits - l] = 1
        /\ a_bits \in Nat /\ n_bits \in Nat
    BY <1>1, <2>2, PowStep
  <2>4. k < a_bits /\ l < n_bits
    BY <1>2, <1>4, <2>2, <2>3
  <2>5. /\ k + 1 \in 0..a_bits /\ Pow[a_bits - k] = 2 * Pow[a_bits - (k + 1)]
        /\ Pow[a_bits - (k + 1)] \in Nat
    BY <1>1, <2>2, <2>4, PowStep
  <2>6. /\ l + 1 \in 0..n_bits /\ Pow[n_bits - l] = 2 * Pow[n_bits - (l + 1)]
        /\ Pow[n_bits - (l + 1)] \in Nat
    BY <1>1, <2>2, <2>4, PowStep
  <2>7. CASE ~IsOdd(u1) /\ IsOdd(v1)
    <3>1. u' = u1 \div 2 /\ v' = v1
      BY <2>7 DEF Iterate
    <3>2. u1 = 2 * (u1 \div 2) /\ u1 \div 2 \in Int
      BY <1>2, <2>7, Halves DEF IsOdd
    <3>3. u' < Pow[a_bits - (k + 1)] /\ v' < Pow[n_bits - l]
      BY <1>2, <2>2, <2>3, <2>5, <3>1, <3>2
    <3>4. Taken(k + 1, l)'
      BY <1>1, <2>2, <2>5, <3>3 DEF Taken
    <3>5. k + 1 \in Nat
      OBVIOUS
    <3> QED BY <3>4, <3>5
  <2>8. CASE IsOdd(u1) /\ ~IsOdd(v1)
    <3>1. u' = u1 /\ v' = v1 \div 2
      BY <2>8 DEF Iterate
    <3>2. v1 = 2 * (v1 \div 2) /\ v1 \div 2 \in Int
      BY <1>2, <2>8, Halves DEF IsOdd
    <3>3. u' < Pow[a_bits - k] /\ v' < Pow[n_bits - (l + 1)]
      BY <1>2, <2>2, <2>3, <2>6, <3>1, <3>2
    <3>4. Taken(k, l + 1)'
      BY <1>1, <2>2, <2>6, <3>3 DEF Taken
    <3>5. l + 1 \in Nat
      OBVIOUS
    <3> QED BY <3>4, <3>5
  <2> QED BY <1>0, <2>7, <2>8 DEF Kept
<1> QED BY <1>3, <1>4

(* After num_iters iterations v has no bits left, and u had at least one. *)
LEMMA VanishesAtEnd ==
    ASSUME IInv, pc = "loop", i = num_iters
    PROVE  v = 0
<1> SUFFICES ASSUME v # 0 PROVE FALSE
  OBVIOUS
<1>1. PICK k \in Nat, l \in Nat : Taken(k, l)
  BY DEF IInv, Shrinks
<1>2. a_bits \in Widths /\ n_bits \in Widths
  BY DEF IInv, InverseTypeOK
<1>3. /\ a_bits \in Nat /\ n_bits \in Nat /\ Pow[0] = 1
      /\ k + l = a_bits + n_bits /\ k <= a_bits /\ l <= n_bits
      /\ u < Pow[a_bits - k]
  <2>1. a_bits \in Nat /\ n_bits \in Nat /\ Pow[0] = 1
    BY <1>2, PowAssumption
  <2> QED
    BY <1>1, <2>1 DEF Taken, num_iters
<1>4. k = a_bits /\ a_bits - k = 0
  BY <1>3
<1>5. u < 1
  BY <1>3, <1>4
<1> QED BY <1>5, Facts

-----------------------------------------------------------------------------
LEMMA IterateIInv == IInv /\ Iterate => IInv'
<1> SUFFICES ASSUME IInv, Iterate PROVE IInv'
  OBVIOUS
<1>1. /\ pc = "loop" /\ i < num_iters
      /\ a' = a /\ n' = n /\ a_bits' = a_bits /\ n_bits' = n_bits
      /\ pc' = pc /\ r' = r /\ i' = i + 1
  BY DEF Iterate, args
<1>2. a \in Nat /\ n \in Nat /\ u \in Int /\ v \in Int /\ u <= a /\ v <= n
  BY <1>1, Facts DEF IInv, InverseTypeOK
<1>3. num_iters \in Nat /\ num_iters' = num_iters
  BY <1>1, PowAssumption DEF IInv, InverseTypeOK, num_iters
<1>4. InverseTypeOK'
  BY <1>1, <1>3, HalvedU, HalvedV DEF IInv, InverseTypeOK
<1>5. LoopInvariant'
  <2>1. u' = A' * a - B' * n /\ v' = D' * n - C' * a
    BY <1>1, HalvedU, HalvedV
  <2>2. /\ 0 < u' /\ u' <= a /\ 0 <= v' /\ v' <= n
        /\ 0 <= A' /\ A' < n /\ 0 <= C' /\ C' < n
        /\ 0 <= B' /\ B' <= a /\ 0 <= D' /\ D' <= a
    BY <1>1, <1>2, HalvedU, HalvedV
  <2> QED BY <1>1, <2>1, <2>2 DEF LoopInvariant
<1>6. OneOdd'
  <2>1. Kept
    BY <1>1, Subtracting
  <2>2. IsOdd(u') \/ IsOdd(v')
    BY <2>1 DEF Kept, Iterate
  <2>3. IsOdd(a') \/ IsOdd(n')
    BY <1>1 DEF IInv, OneOdd
  <2> QED BY <2>2, <2>3 DEF OneOdd, IsOdd
<1>7. Shrinks'
  BY <1>1, TakesABit DEF Shrinks
<1>8. AtStart' /\ InLoop' /\ InverseRight'
  BY <1>1 DEF IInv, AtStart, InLoop, InverseRight
<1> QED BY <1>4, <1>5, <1>6, <1>7, <1>8 DEF IInv

LEMMA StartIInv == IInv /\ Start => IInv'
<1> SUFFICES ASSUME IInv, Start PROVE IInv'
  OBVIOUS
<1>1. /\ pc = "start" /\ pc' = "loop" /\ a # 0
      /\ a' = a /\ n' = n /\ a_bits' = a_bits /\ n_bits' = n_bits
      /\ u' = a /\ v' = n /\ A' = 1 /\ B' = 0 /\ C' = 0 /\ D' = 1
      /\ i' = i /\ r' = r /\ i = 0 /\ r = -1
      /\ IsOdd(a) \/ IsOdd(n)
  BY DEF Start, args, IInv, AtStart
<1>2. /\ a \in Nat /\ n \in Nat /\ a < n
      /\ a_bits \in Widths /\ n_bits \in Widths
      /\ a < Pow[a_bits] /\ n < Pow[n_bits]
  BY DEF IInv, InverseTypeOK
<1>3. InverseTypeOK'
  BY <1>1, <1>2 DEF IInv, InverseTypeOK, num_iters
<1>4. LoopInvariant'
  BY <1>1, <1>2 DEF LoopInvariant
<1>5. OneOdd'
  BY <1>1 DEF OneOdd
<1>6. Taken(0, 0)'
  <2>1. a_bits \in Nat /\ n_bits \in Nat
    BY <1>2, PowAssumption
  <2>2. a_bits - 0 = a_bits /\ n_bits - 0 = n_bits
    BY <2>1
  <2> QED BY <1>1, <1>2, <2>1, <2>2 DEF Taken
<1>7. Shrinks'
  BY <1>6 DEF Shrinks
<1>8. AtStart' /\ InLoop' /\ InverseRight'
  BY <1>1, <1>2 DEF AtStart, InLoop, InverseRight
<1> QED BY <1>3, <1>4, <1>5, <1>7, <1>8 DEF IInv

LEMMA FinishIInv == IInv /\ Finish => IInv'
<1> SUFFICES ASSUME IInv, Finish PROVE IInv'
  OBVIOUS
<1>1. /\ pc = "loop" /\ pc' = "done" /\ r' = Result
      /\ a' = a /\ n' = n /\ a_bits' = a_bits /\ n_bits' = n_bits
      /\ u' = u /\ v' = v /\ A' = A /\ B' = B /\ C' = C /\ D' = D /\ i' = i
  BY DEF Finish, args
<1>2. Result \in Int
  BY <1>1, Facts DEF Result
<1>3. InverseTypeOK'
  BY <1>1, <1>2 DEF IInv, InverseTypeOK, num_iters
<1>4. InverseRight'
  <2> SUFFICES ASSUME r' # -1
               PROVE  /\ r' \in 0..(n' - 1)
                      /\ n' > 1 => \E k \in 0..a' : a' * r' = k * n' + 1
    BY DEF InverseRight, IsInverse
  <2>1. u = 1 /\ r' = A
    BY <1>1 DEF Result
  <2>2. a * A = B * n + 1
    BY <1>1, <2>1, Facts
  <2>3. A \in 0..(n - 1) /\ B \in 0..a
    BY <1>1, Facts
  <2> QED BY <1>1, <2>1, <2>2, <2>3
<1> QED
  BY <1>1, <1>3, <1>4 DEF IInv, LoopInvariant, OneOdd, Shrinks, AtStart, InLoop

LEMMA ReturnIInv == IInv /\ (ReturnZero \/ BothEven) => IInv'
<1> SUFFICES ASSUME IInv, ReturnZero \/ BothEven PROVE IInv'
  OBVIOUS
<1>1. /\ pc' = "done"
      /\ a' = a /\ n' = n /\ a_bits' = a_bits /\ n_bits' = n_bits
      /\ u' = u /\ v' = v /\ A' = A /\ B' = B /\ C' = C /\ D' = D /\ i' = i
      /\ r' = -1 \/ (r' = 0 /\ n = 1)
  BY DEF ReturnZero, BothEven, ZeroResult, args
<1>2. InverseTypeOK'
  BY <1>1 DEF IInv, InverseTypeOK, num_iters
<1>3. InverseRight'
  BY <1>1 DEF InverseRight, IsInverse
<1> QED
  BY <1>1, <1>2, <1>3 DEF IInv, LoopInvariant, OneOdd, Shrinks, AtStart, InLoop

LEMMA NextIInv == IInv /\ [InverseNext]_InverseVars => IInv'
<1> SUFFICES ASSUME IInv, [InverseNext]_InverseVars PROVE IInv'
  OBVIOUS
<1>1. CASE UNCHANGED InverseVars
  <2>1. /\ a' = a /\ n' = n /\ a_bits' = a_bits /\ n_bits' = n_bits
        /\ u' = u /\ v' = v /\ A' = A /\ B' = B /\ C' = C /\ D' = D
        /\ i' = i /\ pc' = pc /\ r' = r
    BY <1>1 DEF InverseVars, args
  <2>2. InverseTypeOK' /\ LoopInvariant' /\ OneOdd'
    BY <2>1 DEF IInv, InverseTypeOK, LoopInvariant, OneOdd, num_iters
  <2>3. Shrinks' /\ AtStart' /\ InLoop'
    BY <2>1 DEF IInv, Shrinks, Taken, AtStart, InLoop
  <2>4. InverseRight'
    BY <2>1 DEF IInv, InverseRight, IsInverse
  <2> QED BY <2>2, <2>3, <2>4 DEF IInv
<1> QED
  BY <1>1, IterateIInv, StartIInv, FinishIInv, ReturnIInv DEF InverseNext

LEMMA Inductive == InverseSpec => []IInv
<1> QED BY InitIInv, NextIInv, PTL DEF InverseSpec

-----------------------------------------------------------------------------
(* The claim of the comment before the loop of bn_mod_inverse_consttime *)
THEOREM LoopInvariantHolds == InverseSpec => []LoopInvariant
<1>1. IInv => LoopInvariant
  BY DEF IInv
<1> QED BY <1>1, Inductive, PTL

(***************************************************************************)
(* Its assertions: one number is even whenever one is halved, and v is     *)
(* zero after the fixed number of iterations.                              *)
(***************************************************************************)
THEOREM AssertionsAlwaysHold == InverseSpec => []AssertionsHold
<1>1. IInv => AssertionsHold
  <2> SUFFICES ASSUME IInv, pc = "loop"
               PROVE  IsOdd(u1) # IsOdd(v1) /\ (i = num_iters => v = 0)
    BY DEF AssertionsHold
  <2>1. \/ IsOdd(u1) /\ ~IsOdd(v1)
        \/ ~IsOdd(u1) /\ IsOdd(v1)
    BY Subtracting DEF Kept
  <2>2. IsOdd(u1) # IsOdd(v1)
    BY <2>1, Zenon
  <2> QED BY <2>2, VanishesAtEnd
<1> QED BY <1>1, Inductive, PTL

(* What it returns is less than n and inverts a. *)
THEOREM InverseIsRight == InverseSpec => []InverseRight
<1>1. IInv => InverseRight
  BY DEF IInv
<1> QED BY <1>1, Inductive, PTL
=============================================================================
