------------------------------ MODULE Series ------------------------------
(***************************************************************************)
(* The two sums the conversions and the orbits rest on: the series from    *)
(* the sphere to the Krueger projection (and back), which llaToUtm.c and   *)
(* the other three files sum with an unrolled Clenshaw recurrence, and the *)
(* polynomial of polyval.c.  Complex numbers are pairs of integers.        *)
(***************************************************************************)
EXTENDS Integers, Sequences

Plus(x, y)  == <<x[1] + y[1], x[2] + y[2]>>
Minus(x, y) == <<x[1] - y[1], x[2] - y[2]>>
Times(x, y) == <<x[1] * y[1] - x[2] * y[2], x[1] * y[2] + x[2] * y[1]>>
Re(c)       == <<c, 0>>

\* A plausible slip: the highest of an odd number of terms is dropped.
ClenshawEven(coef, s, a) ==
    LET top == 2 * (Len(coef) \div 2)
        acc[k \in 0 .. top \div 2] ==
            IF k = 0
            THEN <<Re(0), Re(0)>>
            ELSE LET n  == top - 2 * (k - 1)
                     x1 == Plus(Minus(Times(a, acc[k-1][1]), acc[k-1][2]), Re(coef[n]))
                     x0 == Plus(Minus(Times(a, x1), acc[k-1][1]), Re(coef[n - 1]))
                 IN <<x0, x1>>
    IN Times(s, acc[top \div 2][1])

\* Two coefficients to a turn of the loop; when their number is odd, the
\* highest one is the initial value.  s is sin(2 zeta), a is 2 cos(2 zeta).
Clenshaw(coef, s, a) ==
    LET odd == Len(coef) % 2 = 1
        top == IF odd THEN Len(coef) - 1 ELSE Len(coef)
        acc[k \in 0 .. top \div 2] ==
            IF k = 0
            THEN <<IF odd THEN Re(coef[Len(coef)]) ELSE Re(0), Re(0)>>
            ELSE LET n  == top - 2 * (k - 1)
                     x1 == Plus(Minus(Times(a, acc[k-1][1]), acc[k-1][2]), Re(coef[n]))
                     x0 == Plus(Minus(Times(a, x1), acc[k-1][1]), Re(coef[n - 1]))
                 IN <<x0, x1>>
    IN Times(s, acc[top \div 2][1])

\* polyval(p, x, [], mu): Horner's scheme in the centred and scaled variable.
Horner(p, x, mu) ==
    LET xi == (x - mu[1]) \div mu[2]
        y[j \in 1 .. Len(p)] == IF j = 1 THEN p[1] ELSE xi * y[j-1] + p[j]
    IN y[Len(p)]

-----------------------------------------------------------------------------
\* What they should be: the sum over k of coef[k] sin(2 k zeta), where
\* sin((k+1) v) = 2 cos(v) sin(k v) - sin((k-1) v); and the sum of p[j] xi^(n-j).
TrigonometricSum(coef, s, a) ==
    LET sine[k \in 0 .. Len(coef)] == IF k = 0 THEN Re(0) ELSE IF k = 1 THEN s
                                      ELSE Minus(Times(a, sine[k-1]), sine[k-2])
        sum[k \in 0 .. Len(coef)] == IF k = 0 THEN Re(0)
                                     ELSE Plus(sum[k-1], Times(Re(coef[k]), sine[k]))
    IN sum[Len(coef)]

PolynomialSum(p, xi) ==
    LET power[k \in 0 .. Len(p)] == IF k = 0 THEN 1 ELSE xi * power[k-1]
        sum[j \in 0 .. Len(p)]   == IF j = 0 THEN 0 ELSE sum[j-1] + p[j] * power[Len(p) - j]
    IN sum[Len(p)]
=============================================================================
