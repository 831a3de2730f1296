------------------------------ MODULE Dynamics ------------------------------
(***************************************************************************)
(* The parts of sim/platforms/pelicanODE.c that decide: how the thrust     *)
(* follows the throttle, and when an angular acceleration is cut off; with *)
(* the two-stage step of sim/core/functions/ruku2.m around them.  Forces   *)
(* are whole grains, Newton of them to a newton; a rate is a change per    *)
(* time step.                                                              *)
(***************************************************************************)
EXTENDS Integers

CONSTANTS
    Newton,  \* grains to a newton
    Rate,    \* tau1*dt: the thrust changes by this much in a step
    Part,    \* 1/(tau0*dt): below LOW_THROTTLE_LIMIT, by this part of the rest
    MaxSpin  \* MAX_ANGVEL

ASSUME DynamicsAssumption ==
    /\ {Newton, Rate, Part} \subseteq Nat \ {0} /\ Part >= 2
    /\ MaxSpin \in Nat

Absolute(n) == IF n < 0 THEN -n ELSE n

\* A throttle command as the equations see it: is it below the limit, the
\* thrust it asks for, the most thrust the battery gives.
Command == [low : BOOLEAN, target : Int, cap : Int]

\* A plausible slip: the absolute value is forgotten.
WithinAStepSigned(d) == d < Rate

\* The C function abs takes an int: the difference is cut to whole newtons
\* before it is compared with what a step can do.
WithinAStep(d) == (Absolute(d) \div Newton) * Newton < Rate

Unlimited(d) == IF WithinAStep(d) THEN d ELSE IF d > 0 THEN Rate ELSE -Rate

\* A plausible slip: the ceiling of the battery is left out.
ThrustRateUncapped(F, c) ==
    IF c.low THEN (c.target - F) \div Part ELSE Unlimited(c.target - F)

ThrustRate(F, c) ==
    LET tau == Unlimited(c.target - F)
    IN IF c.low THEN (c.target - F) \div Part
       ELSE IF F + tau > c.cap THEN c.cap - F ELSE tau

\* A plausible slip: the cut-off is left out.
SpinRateUncut(p, acc) == acc

\* Outward of the limit nothing accelerates any further.
SpinRate(p, acc) == IF (p > MaxSpin /\ acc > 0) \/ (p < -MaxSpin /\ acc < 0) THEN 0 ELSE acc

\* ruku2: the mean of the rate here and of the rate one full step on.
NextThrust(F, c) ==
    LET rk1 == ThrustRate(F, c)
        rk2 == ThrustRate(F + rk1, c)
    IN F + (rk1 + rk2) \div 2

NextSpin(p, acc1, acc2) ==
    LET rk1 == SpinRate(p, acc1)
        rk2 == SpinRate(p + rk1, acc2)
    IN p + (rk1 + rk2) \div 2

\* Where a constant command leads.
Goal(c) == IF c.low \/ c.target < c.cap THEN c.target ELSE c.cap
=============================================================================
