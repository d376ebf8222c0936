------------------------------- MODULE Fraction ------------------------------
(***************************************************************************)
(* Exact fractions [num, den] in lowest terms, den > 0, and NaN, which any *)
(* arithmetic passes on: the numbers the indicators compute with, without  *)
(* rounding.                                                               *)
(***************************************************************************)
LOCAL INSTANCE Integers
LOCAL INSTANCE Sequences

CONSTANT NaN

ASSUME NaNAssumption == NaN \notin [num : Int, den : Nat \ {0}]

Abs(n) == IF n < 0 THEN -n ELSE n

Gcd[p \in Nat \X Nat] == IF p[2] = 0 THEN p[1] ELSE Gcd[<<p[2], p[1] % p[2]>>]

\* n / d, for d # 0.
Frac(n, d) ==
  LET g == Gcd[<<Abs(n), Abs(d)>>]
      s == IF d < 0 THEN -1 ELSE 1
  IN  [num |-> s * (n \div g), den |-> Abs(d) \div g]

\* A fraction in lowest terms.
IsFraction(a) == a \in [num : Int, den : Nat \ {0}] /\ a = Frac(a.num, a.den)

Whole(n) == [num |-> n, den |-> 1]
Zero == Whole(0)

Lift(a, b, value) == IF NaN \in {a, b} THEN NaN ELSE value

a ++ b == Lift(a, b, Frac(a.num * b.den + b.num * a.den, a.den * b.den))
a -- b == Lift(a, b, Frac(a.num * b.den - b.num * a.den, a.den * b.den))
a ** b == Lift(a, b, Frac(a.num * b.num, a.den * b.den))
a // b == Lift(a, b, Frac(a.num * b.den, a.den * b.num))
Less(a, b) == a.num * b.den < b.num * a.den
AtMost(a, b) == ~Less(b, a)

AbsFrac(a) == IF a.num < 0 THEN [a EXCEPT !.num = -@] ELSE a
Larger(a, b) == IF Less(a, b) THEN b ELSE a
Smaller(a, b) == IF Less(a, b) THEN a ELSE b

\* The sum of a sequence of fractions, and its mean.
Total(s) ==
  LET upTo[i \in 0..Len(s)] == IF i = 0 THEN Zero ELSE upTo[i - 1] ++ s[i]
  IN  upTo[Len(s)]

Mean(s) == Total(s) // Whole(Len(s))
=============================================================================
