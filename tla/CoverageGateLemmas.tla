------------------------- MODULE CoverageGateLemmas -------------------------
(***************************************************************************)
(* What rounding the coverage before comparing it does to the comparison,  *)
(* for every estate and threshold.                                         *)
(***************************************************************************)
EXTENDS CoverageGate, TLAPS

\* Multiplication keeps an inequality; the solver is told so once.
LEMMA ScaledInequality ==
  ASSUME NEW a \in Int, NEW b \in Int, NEW n \in Nat, a >= b
  PROVE  n * a >= n * b
<1>1. a - b \in Nat
  OBVIOUS
<1>2. n * (a - b) \in Nat
  BY <1>1
<1>3. n * (a - b) = n * a - n * b
  OBVIOUS
<1> QED
  BY <1>2, <1>3

\* The rounded percentage is an integer within half a tenth of the true one.
LEMMA TenthsAreNear ==
  ASSUME NEW c \in Nat, NEW n \in Nat \ {0}, NEW k \in Tenths(c, n)
  PROVE  /\ k \in Int
         /\ 2000 * c - 2 * (n * k) <= n
         /\ 2 * (n * k) - 2000 * c <= n
<1>1. (1000 * c) \div n \in Int
  OBVIOUS
<1>2. k \in Int
  BY <1>1 DEF Tenths
<1>3. k * n = n * k /\ k * n \in Int
  BY <1>2
<1>4. /\ 2 * (1000 * c - k * n) <= n
      /\ 2 * (k * n - 1000 * c) <= n
  BY DEF Tenths
<1> QED
  BY <1>2, <1>3, <1>4

\* A rounded percentage that meets the threshold was earned, but for rounding.
LEMMA MeetingIsEarned ==
  ASSUME NEW c \in Nat, NEW n \in Nat \ {0}, NEW t \in Nat,
         NEW k \in Tenths(c, n), Meets(k, t)
  PROVE  2000 * c + n >= 20 * t * n
<1>1. /\ k \in Int
      /\ 2 * (n * k) - 2000 * c <= n
  BY TenthsAreNear
<1>2. n * k >= n * (10 * t)
  BY <1>1, ScaledInequality DEF Meets
<1>3. 20 * t * n = 2 * (n * (10 * t))
  OBVIOUS
<1>4. n * k \in Int /\ n * (10 * t) \in Int
  BY <1>1
<1> QED
  BY <1>1, <1>2, <1>3, <1>4

\* A rounded percentage that misses the threshold was short of it, but for
\* rounding.
LEMMA MissingIsEarned ==
  ASSUME NEW c \in Nat, NEW n \in Nat \ {0}, NEW t \in Nat,
         NEW k \in Tenths(c, n), ~Meets(k, t)
  PROVE  2000 * c < 20 * t * n + n
<1>1. /\ k \in Int
      /\ 2000 * c - 2 * (n * k) <= n
  BY TenthsAreNear
<1>2. n * (10 * t) >= n * (k + 1)
  BY <1>1, ScaledInequality DEF Meets
<1>3. 20 * t * n = 2 * (n * (10 * t)) /\ n * (k + 1) = n * k + n
  BY <1>1
<1>4. n * k \in Int /\ n * (10 * t) \in Int
  BY <1>1
<1> QED
  BY <1>1, <1>2, <1>3, <1>4

=============================================================================
