--------------------------- MODULE Flight_proofs ---------------------------
(***************************************************************************)
(* Theorems about Flight, for any constants of the equations of motion,    *)
(* any commands and accelerations, and any delay and time step of the      *)
(* receiver.                                                               *)
(***************************************************************************)
EXTENDS Flight, TLAPS

LEMMA Constants ==
    /\ Newton \in Nat \ {0} /\ Rate \in Nat \ {0}
    /\ Part \in Nat \ {0} /\ Part >= 2 /\ MaxSpin \in Nat
    /\ Delay \in Nat /\ Div \in Nat \ {0}
    /\ Within \subseteq [1 .. 3 -> Int] /\ Vels \subseteq [1 .. 3 -> Int]
    /\ Commands \subseteq Command
    /\ MaxAcc \in Nat /\ Accs \subseteq -MaxAcc .. MaxAcc
    /\ SpinRange \in Nat /\ Spins \subseteq Int
    /\ Weight \in Int /\ Thrusts \subseteq Int
<1>1. -SpinRange .. SpinRange \subseteq Int
  OBVIOUS
<1>2. QED
  BY <1>1, DynamicsAssumption, ReceiverAssumption, FlightAssumption

-----------------------------------------------------------------------------
(* The thrust.                                                             *)

\* x lies between a and b.
Between2(a, x, b) == (a <= x /\ x <= b) \/ (b <= x /\ x <= a)

LEMMA PartOf ==
    ASSUME NEW d \in Int, NEW n \in Nat \ {0}
    PROVE  /\ d \div n \in Int
           /\ d >= 0 => 0 <= d \div n /\ (d \div n) * n <= d /\ d - (d \div n) * n < n
           /\ d >= 0 => d \div n <= d
           /\ d <= 0 => d <= d \div n /\ d \div n <= 0
  BY Z3

LEMMA Halved ==
    ASSUME NEW d \in Int
    PROVE  d \div 2 \in Int /\ 2 * (d \div 2) <= d /\ d <= 2 * (d \div 2) + 1
  OBVIOUS

\* What the integer abs does to the comparison: a difference that passes is less
\* than Rate and a newton, one that does not is at least Rate.
LEMMA StepTest ==
    ASSUME NEW d \in Int
    PROVE  /\ WithinAStep(d) => /\ Absolute(d) <= Rate + Newton - 1
                                /\ Rate <= Newton => Absolute(d) <= Newton - 1
           /\ ~WithinAStep(d) => Absolute(d) >= Rate
<1> DEFINE a == Absolute(d)
           k == a \div Newton
<1>1. a \in Nat
  BY DEF Absolute
<1>2. Newton \in Nat \ {0} /\ Rate \in Nat \ {0}
  BY Constants
<1>3. k \in Int /\ 0 <= k /\ k * Newton <= a /\ a - k * Newton < Newton
  BY <1>1, <1>2, PartOf
<1>4. k * Newton \in Int
  BY <1>2, <1>3
<1>5. ASSUME WithinAStep(d) PROVE a <= Rate + Newton - 1
  BY <1>1, <1>2, <1>3, <1>4, <1>5 DEF WithinAStep
<1>6. ASSUME WithinAStep(d), Rate <= Newton PROVE a <= Newton - 1
  <2>1. k = 0
    <3> SUFFICES ASSUME k >= 1 PROVE FALSE
      BY <1>3
    <3>1. k * Newton >= Newton
      BY <1>2, <1>3, Z3
    <3>2. QED
      BY <1>2, <1>4, <1>6, <3>1 DEF WithinAStep
  <2>2. k * Newton = 0
    BY <1>2, <2>1
  <2>3. QED
    BY <1>1, <1>2, <1>3, <2>2
<1>7. ASSUME ~WithinAStep(d) PROVE a >= Rate
  BY <1>1, <1>2, <1>3, <1>4, <1>7 DEF WithinAStep
<1>8. QED
  BY <1>5, <1>6, <1>7

\* The rate without the ceiling of the battery leads towards the target.
LEMMA TowardsTarget ==
    ASSUME NEW d \in Int
    PROVE  Unlimited(d) \in Int /\ Between2(0, Unlimited(d), d)
<1>1. ~WithinAStep(d) => Absolute(d) >= Rate
  BY StepTest
<1>2. QED
  BY <1>1, Constants DEF Unlimited, Between2, Absolute

\* One stage leads from F towards the goal of the command.
LEMMA StageTowardsGoal ==
    ASSUME NEW f \in Int, NEW c \in Command
    PROVE  /\ ThrustRate(f, c) \in Int
           /\ Between2(f, f + ThrustRate(f, c), Goal(c))
<1>1. c.low \in BOOLEAN /\ c.target \in Int /\ c.cap \in Int
  BY DEF Command
<1>2. CASE c.low
  <2>1. c.target - f \in Int /\ Part \in Nat \ {0}
    BY <1>1, Constants
  <2>2. ThrustRate(f, c) = (c.target - f) \div Part /\ Goal(c) = c.target
    BY <1>2 DEF ThrustRate, Goal
  <2>3. QED
    BY <1>1, <2>1, <2>2, PartOf DEF Between2
<1>3. CASE ~c.low
  <2>1. Unlimited(c.target - f) \in Int
        /\ Between2(0, Unlimited(c.target - f), c.target - f)
    BY <1>1, TowardsTarget
  <2>2. QED
    BY <1>1, <1>3, <2>1 DEF ThrustRate, Goal, Between2
<1>4. QED
  BY <1>2, <1>3

LEMMA StepTowardsGoal ==
    ASSUME NEW f \in Int, NEW c \in Command
    PROVE  NextThrust(f, c) \in Int /\ Between2(f, NextThrust(f, c), Goal(c))
<1> DEFINE rk1 == ThrustRate(f, c)
           rk2 == ThrustRate(f + rk1, c)
<1>1. Goal(c) \in Int
  BY DEF Goal, Command
<1>2. rk1 \in Int /\ Between2(f, f + rk1, Goal(c))
  BY StageTowardsGoal
<1>3. f + rk1 \in Int
  BY <1>2
<1>4. rk2 \in Int /\ Between2(f + rk1, f + rk1 + rk2, Goal(c))
  BY <1>3, StageTowardsGoal
<1>5. /\ (rk1 + rk2) \div 2 \in Int
      /\ 2 * ((rk1 + rk2) \div 2) <= rk1 + rk2
      /\ rk1 + rk2 <= 2 * ((rk1 + rk2) \div 2) + 1
  BY <1>2, <1>4, Halved
<1>6. NextThrust(f, c) = f + (rk1 + rk2) \div 2
  BY DEF NextThrust
<1> HIDE DEF rk1, rk2
<1>7. QED
  BY <1>1, <1>2, <1>4, <1>5, <1>6 DEF Between2
-----------------------------------------------------------------------------
(* How far the thrust moves in a step.                                     *)

\* Without the ceiling of the battery: a stage takes the whole difference, which
\* the integer abs took for one within a step, or exactly Rate.
LEMMA StageLength ==
    ASSUME NEW d \in Int
    PROVE  \/ /\ WithinAStep(d) /\ Unlimited(d) = d
              /\ -(Rate + Newton - 1) <= d /\ d <= Rate + Newton - 1
              /\ Rate <= Newton => -(Newton - 1) <= d /\ d <= Newton - 1
           \/ ~WithinAStep(d) /\ d > 0 /\ Unlimited(d) = Rate
           \/ ~WithinAStep(d) /\ d < 0 /\ Unlimited(d) = -Rate
<1>1. /\ WithinAStep(d) => /\ Absolute(d) <= Rate + Newton - 1
                           /\ Rate <= Newton => Absolute(d) <= Newton - 1
      /\ ~WithinAStep(d) => Absolute(d) >= Rate
  BY StepTest
<1>2. CASE WithinAStep(d)
  BY <1>1, <1>2, Constants DEF Unlimited, Absolute
<1>3. CASE ~WithinAStep(d)
  BY <1>1, <1>3, Constants DEF Unlimited, Absolute
<1>4. QED
  BY <1>2, <1>3

LEMMA StepLength ==
    ASSUME NEW f \in Int, NEW c \in Command, ~c.low, f <= c.cap
    PROVE  2 * Absolute(NextThrust(f, c) - f)
              <= Rate + Newton + (IF Rate <= Newton THEN 0 ELSE Rate)
<1> DEFINE tau1 == Unlimited(c.target - f)
           rk1  == ThrustRate(f, c)
           tau2 == Unlimited(c.target - (f + rk1))
           rk2  == ThrustRate(f + rk1, c)
           sum  == rk1 + rk2
<1>1. c.target \in Int /\ c.cap \in Int
  BY DEF Command
<1>2. rk1 \in Int /\ rk2 \in Int /\ tau1 \in Int /\ tau2 \in Int
  BY <1>1, StageTowardsGoal, TowardsTarget
<1>3. /\ rk1 = IF f + tau1 > c.cap THEN c.cap - f ELSE tau1
      /\ rk2 = IF f + rk1 + tau2 > c.cap THEN c.cap - (f + rk1) ELSE tau2
  BY DEF ThrustRate
<1>4. /\ sum \div 2 \in Int /\ 2 * (sum \div 2) <= sum /\ sum <= 2 * (sum \div 2) + 1
      /\ NextThrust(f, c) = f + sum \div 2
  BY <1>2, Halved DEF NextThrust
<1>5. \/ /\ tau1 = c.target - f
         /\ -(Rate + Newton - 1) <= tau1 /\ tau1 <= Rate + Newton - 1
      \/ c.target > f /\ tau1 = Rate
      \/ c.target < f /\ tau1 = -Rate
  BY <1>1, StageLength
<1>6. \/ /\ tau2 = c.target - (f + rk1)
         /\ -(Rate + Newton - 1) <= tau2 /\ tau2 <= Rate + Newton - 1
         /\ Rate <= Newton => -(Newton - 1) <= tau2 /\ tau2 <= Newton - 1
      \/ c.target > f + rk1 /\ tau2 = Rate
      \/ c.target < f + rk1 /\ tau2 = -Rate
  BY <1>1, <1>2, StageLength
<1>7. Between2(0, tau1, c.target - f)
  BY <1>1, TowardsTarget
<1> HIDE DEF tau1, tau2, rk1, rk2
<1>8. CASE f + tau1 > c.cap \/ tau1 = c.target - f
  <2>1. rk2 = 0 /\ -(Rate + Newton - 1) <= rk1 /\ rk1 <= Rate + Newton - 1
    BY <1>1, <1>2, <1>3, <1>5, <1>6, <1>7, <1>8, Constants DEF Between2
  <2>2. QED
    BY <1>2, <1>4, <2>1, Constants DEF Absolute
<1>9. CASE ~(f + tau1 > c.cap \/ tau1 = c.target - f)
  <2>1. rk1 = Rate \/ rk1 = -Rate
    BY <1>3, <1>5, <1>9
  <2>2. \/ rk2 = tau2
        \/ 0 <= rk2 /\ rk2 < tau2
    BY <1>1, <1>2, <1>3, <1>9
  <2>3. QED
    BY <1>2, <1>4, <1>6, <2>1, <2>2, Constants DEF Absolute
<1>10. QED
  BY <1>8, <1>9

-----------------------------------------------------------------------------
(* The angular rates.                                                      *)

\* What bounds a rate on either side, if it is beyond the limit by what a step
\* adds, bounds the next one.
LEMMA SpinStep ==
    ASSUME NEW r \in Int, NEW b \in Int, b >= MaxSpin + MaxAcc,
           NEW acc1 \in -MaxAcc .. MaxAcc, NEW acc2 \in -MaxAcc .. MaxAcc
    PROVE  /\ NextSpin(r, acc1, acc2) \in Int
           /\ r <= b => NextSpin(r, acc1, acc2) <= b
           /\ r >= -b => NextSpin(r, acc1, acc2) >= -b
<1> DEFINE rk1 == SpinRate(r, acc1)
           rk2 == SpinRate(r + rk1, acc2)
<1>1. MaxSpin \in Nat /\ MaxAcc \in Nat
  BY Constants
<1>2. /\ rk1 \in -MaxAcc .. MaxAcc
      /\ r > MaxSpin => rk1 <= 0
      /\ r < -MaxSpin => rk1 >= 0
  BY <1>1 DEF SpinRate
<1>3. /\ rk2 \in -MaxAcc .. MaxAcc
      /\ r + rk1 > MaxSpin => rk2 <= 0
      /\ r + rk1 < -MaxSpin => rk2 >= 0
  BY <1>1, <1>2 DEF SpinRate
<1>4. /\ (rk1 + rk2) \div 2 \in Int
      /\ 2 * ((rk1 + rk2) \div 2) <= rk1 + rk2
      /\ rk1 + rk2 <= 2 * ((rk1 + rk2) \div 2) + 1
  BY <1>1, <1>2, <1>3, Halved
<1>5. NextSpin(r, acc1, acc2) = r + (rk1 + rk2) \div 2
  BY DEF NextSpin
<1> DEFINE h == (rk1 + rk2) \div 2
<1> HIDE DEF rk1, rk2, h
<1>6. ASSUME r <= b PROVE r + h <= b
  BY <1>1, <1>2, <1>3, <1>4, <1>6 DEF h
<1>7. ASSUME r >= -b PROVE r + h >= -b
  BY <1>1, <1>2, <1>3, <1>4, <1>7 DEF h
<1>8. QED
  BY <1>4, <1>5, <1>6, <1>7 DEF h

-----------------------------------------------------------------------------
(* The receiver.                                                           *)

\* Steps of the receiver, counted in those of the platform.
LEMMA Products ==
    ASSUME NEW k \in Nat, k <= Delay + 1, NEW f \in 0 .. Div - 1
    PROVE  /\ k * Div \in Nat /\ (k + 1) * Div = k * Div + Div
           /\ f + k * Div \in Window /\ f + k * Div \in Nat
<1>1. Delay \in Nat /\ Div \in Nat \ {0}
  BY Constants
<1>2. k * Div \in Nat /\ (k + 1) * Div = k * Div + Div
  BY <1>1, Z3
<1>3. (Delay + 2) * Div >= (k + 1) * Div /\ (Delay + 2) * Div \in Nat
  BY <1>1, Z3
<1>4. QED
  BY <1>1, <1>2, <1>3 DEF Window

\* A whole receiver step with the velocity of the receiver is Div steps with
\* that of the platform.
LEMMA SameHistory ==
    ASSUME NEW x \in [1 .. 3 -> Int], NEW v \in [1 .. 3 -> Int], NEW k \in Nat
    PROVE  Along(x, [i \in 1 .. 3 |-> Div * v[i]], -k) = Along(x, v, -(k * Div))
<1>1. Div \in Nat
  BY Constants
<1>2. \A i \in 1 .. 3 : (-k) * (Div * v[i]) = (-(k * Div)) * v[i]
  <2> SUFFICES ASSUME NEW i \in 1 .. 3 PROVE (-k) * (Div * v[i]) = (-(k * Div)) * v[i]
    OBVIOUS
  <2>1. v[i] \in Int
    OBVIOUS
  <2>2. ASSUME NEW w \in Int PROVE (-k) * (Div * w) = (-(k * Div)) * w
    BY <1>1, Z3
  <2>3. QED
    BY <2>1, <2>2
<1>3. QED
  BY <1>2 DEF Along

\* What the delay line holds: where the platform was at the Delay latest times
\* the receiver was due.
LineIsTrack ==
    (valid /\ aligned) =>
        \A k \in 0 .. Delay - 1 : gps.line[Delay - k] = track[phase + k * Div]

Solved == {Solve(x) : x \in Position}

Velocity == {Between(x, y) : x, y \in Solved}

Line == gps \in [line : [1 .. Delay -> Position], est : Solved, past : Solved, vel : Velocity]

Basics == /\ X \in Position /\ F \in Int /\ p \in Int /\ spun \in Int
          /\ command \in Commands
          /\ {valid, aligned} \subseteq BOOLEAN
          /\ phase \in 0 .. Div - 1
          /\ track \in [Window -> Position] /\ track[0] = X

IInv == Basics /\ Line /\ LineIsTrack /\ SpinLimited /\ ReadsDelayed

LEMMA AlongPosition ==
    ASSUME NEW x \in Position, NEW v \in Position, NEW k \in Int
    PROVE  Along(x, v, k) \in Position
<1>1. \A i \in 1 .. 3 : x[i] + k * v[i] \in Int
  BY DEF Position
<1>2. QED
  BY <1>1 DEF Along, Position

LEMMA ResetIs ==
    ASSUME NEW l, NEW e, NEW q, NEW v
    PROVE  ResetGps([line |-> l, est |-> e, past |-> q, vel |-> v])
              = [line |-> l, est |-> Solve(e), past |-> Solve(q),
                 vel |-> Between(Solve(q), Solve(e))]
  BY DEF ResetGps

\* setX and the first state: the history made up for the line and for the track
\* is the same, seen at a time the receiver is due.
LEMMA PlacedReceiver ==
    ASSUME NEW x \in Within, NEW v \in Position, NEW gg, NEW hh,
           gg = ResetGps(SetStateGps(x, [i \in 1 .. 3 |-> Div * v[i]])),
           hh = [k \in Window |-> Along(x, v, -k)]
    PROVE  /\ hh \in [Window -> Position] /\ hh[0] = x
           /\ gg \in [line : [1 .. Delay -> Position], est : Solved, past : Solved, vel : Velocity]
           /\ \A k \in 0 .. Delay - 1 : gg.line[Delay - k] = hh[k * Div]
           /\ gg.est = Solve(hh[Delay * Div]) /\ gg.past = Solve(hh[(Delay + 1) * Div])
           /\ gg.vel = Between(Solve(hh[(Delay + 1) * Div]), Solve(hh[Delay * Div]))
<1> DEFINE V == [i \in 1 .. 3 |-> Div * v[i]]
           s == SetStateGps(x, V)
           g == ResetGps(s)
           h == [k \in Window |-> Along(x, v, -k)]
<1>0. gg = g /\ hh = h
  OBVIOUS
<1>1. x \in Position /\ Delay \in Nat /\ Div \in Nat \ {0}
  BY Constants DEF Position
<1>2. V \in Position
  BY <1>1 DEF Position
<1>3. \A k \in Window : -k \in Int /\ Along(x, v, -k) \in Position
  <2> TAKE k \in Window
  <2>1. -k \in Int
    BY DEF Window
  <2>2. QED
    BY <1>1, <2>1, AlongPosition
<1>4. 0 \in Window
  <2>1. 0 + 0 * Div \in Window
    BY <1>1, Products
  <2>2. QED
    BY <1>1, <2>1
<1>5. Along(x, v, -0) = x
  <2>1. \A i \in 1 .. 3 : x[i] + (-0) * v[i] = x[i]
    BY <1>1 DEF Position
  <2>2. QED
    BY <1>1, <2>1 DEF Along, Position
<1>6. ASSUME NEW k \in Nat, k <= Delay + 1
      PROVE  k * Div \in Window /\ Along(x, V, -k) = h[k * Div]
  <2>1. 0 + k * Div \in Window /\ k * Div \in Nat
    <3>1. 0 \in 0 .. Div - 1
      BY <1>1
    <3>2. 0 + k * Div \in Window /\ k * Div \in Nat
      BY <1>6, <3>1, Products
    <3>3. QED
      BY <3>2
  <2>2. Along(x, V, -k) = Along(x, v, -(k * Div))
    BY <1>1, SameHistory DEF Position
  <2>3. QED
    BY <2>1, <2>2
<1>7. s = [line |-> [i \in 1 .. Delay |-> Along(x, V, i - Delay)],
           est  |-> h[Delay * Div], past |-> h[(Delay + 1) * Div], vel |-> V]
  <2>1. Along(x, V, -Delay) = h[Delay * Div]
    <3>1. Delay \in Nat /\ Delay <= Delay + 1
      BY <1>1
    <3>2. QED
      BY <1>6, <3>1
  <2>2. Along(x, V, -(Delay + 1)) = h[(Delay + 1) * Div]
    <3>1. Delay + 1 \in Nat /\ Delay + 1 <= Delay + 1
      BY <1>1
    <3>2. QED
      BY <1>6, <3>1
  <2>3. QED
    BY <2>1, <2>2 DEF SetStateGps
<1>7a. /\ s.line = [i \in 1 .. Delay |-> Along(x, V, i - Delay)]
       /\ s.est = h[Delay * Div] /\ s.past = h[(Delay + 1) * Div]
       /\ ResetGps(s) = [line |-> s.line, est |-> Solve(s.est), past |-> Solve(s.past),
                         vel |-> Between(Solve(s.past), Solve(s.est))]
  <2> HIDE DEF h, s
  <2>1. /\ s.line = [i \in 1 .. Delay |-> Along(x, V, i - Delay)]
        /\ s.est = h[Delay * Div] /\ s.past = h[(Delay + 1) * Div]
    BY <1>7
  <2>2. ResetGps(s) = [line |-> [i \in 1 .. Delay |-> Along(x, V, i - Delay)],
                       est |-> Solve(h[Delay * Div]), past |-> Solve(h[(Delay + 1) * Div]),
                       vel |-> Between(Solve(h[(Delay + 1) * Div]), Solve(h[Delay * Div]))]
    BY <1>7, ResetIs
  <2>3. QED
    BY <2>1, <2>2
<1>8. \A k \in 0 .. Delay - 1 : s.line[Delay - k] = h[k * Div]
  <2> TAKE k \in 0 .. Delay - 1
  <2>1. Delay - k \in 1 .. Delay /\ (Delay - k) - Delay = -k
    BY <1>1
  <2>2. s.line[Delay - k] = Along(x, V, -k)
    BY <1>7a, <2>1
  <2>3. k \in Nat /\ k <= Delay + 1
    BY <1>1
  <2>4. QED
    BY <1>6, <2>2, <2>3
<1>9. s.line \in [1 .. Delay -> Position]
  <2>1. \A i \in 1 .. Delay : i - Delay \in Int /\ Along(x, V, i - Delay) \in Position
    BY <1>1, <1>2, AlongPosition
  <2>2. QED
    BY <1>7a, <2>1
<1>10. h \in [Window -> Position] /\ h[0] = x
  BY <1>3, <1>4, <1>5
<1>11. h[Delay * Div] \in Position /\ h[(Delay + 1) * Div] \in Position
  <2>1. Delay * Div \in Window
    <3>1. Delay \in Nat /\ Delay <= Delay + 1
      BY <1>1
    <3>2. QED
      BY <1>6, <3>1
  <2>2. (Delay + 1) * Div \in Window
    <3>1. Delay + 1 \in Nat /\ Delay + 1 <= Delay + 1
      BY <1>1
    <3>2. QED
      BY <1>6, <3>1
  <2>3. QED
    BY <1>10, <2>1, <2>2
<1> HIDE DEF h
<1>12. /\ g.line = s.line /\ g.est = Solve(h[Delay * Div])
       /\ g.past = Solve(h[(Delay + 1) * Div])
       /\ g.vel = Between(Solve(h[(Delay + 1) * Div]), Solve(h[Delay * Div]))
       /\ g = [line |-> g.line, est |-> g.est, past |-> g.past, vel |-> g.vel]
  BY <1>7a
<1> HIDE DEF g, s
<1>13. g \in [line : [1 .. Delay -> Position], est : Solved, past : Solved, vel : Velocity]
  <2>1. Solve(h[Delay * Div]) \in Solved /\ Solve(h[(Delay + 1) * Div]) \in Solved
    BY <1>11 DEF Solved
  <2>2. g.vel \in Velocity
    BY <1>12, <2>1 DEF Velocity
  <2>3. QED
    BY <1>9, <1>12, <2>1, <2>2
<1>14. /\ h \in [Window -> Position] /\ h[0] = x
       /\ g \in [line : [1 .. Delay -> Position], est : Solved, past : Solved, vel : Velocity]
       /\ \A k \in 0 .. Delay - 1 : g.line[Delay - k] = h[k * Div]
       /\ g.est = Solve(h[Delay * Div]) /\ g.past = Solve(h[(Delay + 1) * Div])
       /\ g.vel = Between(Solve(h[(Delay + 1) * Div]), Solve(h[Delay * Div]))
  BY <1>8, <1>10, <1>12, <1>13
<1> HIDE DEF V
<1>15. QED
  BY ONLY <1>0, <1>14, Zenon
\* update: one position in, one out.
LEMMA Shifted ==
    ASSUME NEW l \in [1 .. Delay -> Position], NEW x \in Position
    PROVE  LET c == Append(l, x) IN
           /\ c[1] = (IF Delay = 0 THEN x ELSE l[1]) /\ c[1] \in Position
           /\ Tail(c) \in [1 .. Delay -> Position]
           /\ \A i \in 1 .. Delay : Tail(c)[i] = IF i = Delay THEN x ELSE l[i + 1]
<1>1. Delay \in Nat
  BY Constants
<1>2. l \in Seq(Position) /\ Len(l) = Delay
  BY <1>1
<1> DEFINE c == Append(l, x)
<1>3. /\ c \in Seq(Position) /\ Len(c) = Delay + 1
      /\ \A i \in 1 .. Delay : c[i] = l[i]
      /\ c[Delay + 1] = x
  BY <1>1, <1>2
<1> HIDE DEF c
<1>4. /\ Len(Tail(c)) = Delay /\ Tail(c) \in Seq(Position)
      /\ \A i \in 1 .. Delay : Tail(c)[i] = c[i + 1]
  BY <1>1, <1>3
<1>5. Tail(c) \in [1 .. Delay -> Position]
  <2> DEFINE u == Tail(c)
  <2>1. u \in Seq(Position) /\ Len(u) = Delay
    BY <1>4
  <2> HIDE DEF u
  <2>2. u \in [1 .. Len(u) -> Position]
    BY <2>1
  <2>3. QED
    BY <2>1, <2>2 DEF u
<1>6. c[1] = (IF Delay = 0 THEN x ELSE l[1]) /\ c[1] \in Position
  <2>1. CASE Delay = 0
    BY <1>3, <2>1
  <2>2. CASE Delay # 0
    BY <1>1, <1>3, <2>2
  <2>3. QED
    BY <2>1, <2>2
<1>7. \A i \in 1 .. Delay : Tail(c)[i] = IF i = Delay THEN x ELSE l[i + 1]
  <2> TAKE i \in 1 .. Delay
  <2>1. CASE i = Delay
    BY <1>3, <1>4, <2>1
  <2>2. CASE i # Delay
    BY <1>1, <1>3, <1>4, <2>2
  <2>3. QED
    BY <2>1, <2>2
<1>8. QED
  BY <1>5, <1>6, <1>7 DEF c

LEMMA PhaseStep ==
    ASSUME NEW f \in 0 .. Div - 1
    PROVE  /\ (f + 1) % Div \in 0 .. Div - 1
           /\ (f + 1) % Div = IF f = Div - 1 THEN 0 ELSE f + 1
<1>1. Div \in Nat \ {0}
  BY Constants
<1>2. CASE f = Div - 1
  BY <1>1, <1>2, Z3
<1>3. CASE f # Div - 1
  BY <1>1, <1>3, Z3
<1>4. QED
  BY <1>1, <1>2, <1>3

-----------------------------------------------------------------------------
LEMMA PlacedEstablishes ==
    ASSUME NEW x \in Within, NEW v \in Position, Placed(x, v),
           F' \in Int, p' \in Int, spun' = p',
           phase' \in 0 .. Div - 1, command' \in Commands
    PROVE  IInv'
<1>1. /\ track' \in [Window -> Position] /\ track'[0] = x
      /\ Line'
      /\ \A k \in 0 .. Delay - 1 : gps'.line[Delay - k] = track'[k * Div]
      /\ gps'.est = Solve(track'[Delay * Div]) /\ gps'.past = Solve(track'[(Delay + 1) * Div])
      /\ gps'.vel = Between(Solve(track'[(Delay + 1) * Div]), Solve(track'[Delay * Div]))
  <2>1. /\ gps' = ResetGps(SetStateGps(x, [i \in 1 .. 3 |-> Div * v[i]]))
        /\ track' = [k \in Window |-> Along(x, v, -k)]
    BY DEF Placed
  <2>2. QED
    BY <2>1, PlacedReceiver DEF Line
<1>2. x \in Position
  BY Constants DEF Position
<1>3. Basics'
  BY <1>1, <1>2 DEF Basics, Placed
<1>4. SpinLimited'
  BY DEF SpinLimited
<1>5. aligned' => phase' = 0
  BY DEF Placed
<1>6. \A k \in Nat : k <= Delay + 1 => 0 + k * Div = k * Div
  BY Products, Constants
<1>7. LineIsTrack'
  <2> SUFFICES ASSUME aligned', NEW k \in 0 .. Delay - 1
               PROVE  gps'.line[Delay - k] = track'[phase' + k * Div]
    BY DEF LineIsTrack
  <2>1. phase' + k * Div = k * Div
    BY <1>5, <1>6, Constants
  <2>2. QED
    BY <1>1, <2>1
<1>8. ReadsDelayed'
  <2> SUFFICES ASSUME aligned'
               PROVE  /\ gps'.est = Solve(track'[phase' + Delay * Div])
                      /\ gps'.past = Solve(track'[phase' + (Delay + 1) * Div])
                      /\ gps'.vel = Between(Solve(track'[phase' + (Delay + 1) * Div]),
                                            Solve(track'[phase' + Delay * Div]))
    BY DEF ReadsDelayed
  <2>1. /\ Delay \in Nat /\ Delay <= Delay + 1
        /\ Delay + 1 \in Nat /\ Delay + 1 <= Delay + 1
    BY Constants
  <2>2. phase' + Delay * Div = Delay * Div /\ phase' + (Delay + 1) * Div = (Delay + 1) * Div
    BY <1>5, <1>6, <2>1
  <2>3. QED
    BY <1>1, <2>2
<1>9. QED
  BY <1>1, <1>3, <1>4, <1>7, <1>8 DEF IInv

LEMMA VelsPositions == /\ Vels \subseteq Position /\ Still \in Position
                       /\ Thrusts \cup {Weight} \subseteq Int /\ Spins \cup {0} \subseteq Int
  BY Constants DEF Position, Still

LEMMA SetXPreserves == IInv /\ SetX => IInv'
<1> SUFFICES ASSUME IInv, SetX PROVE IInv'
  OBVIOUS
<1>1. phase' \in 0 .. Div - 1 /\ command' \in Commands
  BY DEF IInv, Basics, SetX
<1>2. PICK x \in Within, v \in Position : Placed(x, v) /\ F' \in Int /\ p' \in Int
  <2>1. CASE \E x \in Within : Placed(x, Still) /\ F' = Weight /\ p' = 0
    BY <2>1, VelsPositions
  <2>2. CASE \E x \in Within, v \in Vels :
                Placed(x, v) /\ F' \in Thrusts \cup {Weight} /\ p' \in Spins
    BY <2>2, VelsPositions
  <2>3. QED
    BY <2>1, <2>2 DEF SetX
<1>3. spun' = p'
  BY DEF SetX
<1>4. QED
  BY <1>1, <1>2, <1>3, PlacedEstablishes

LEMMA InitEstablishes == Init => IInv
<1> SUFFICES ASSUME Init PROVE IInv
  OBVIOUS
<1>1. PICK x \in Within, v \in Vels, f \in Thrusts \cup {Weight}, r \in Spins :
            /\ X = x /\ F = f /\ p = r /\ spun = r
            /\ command \in Commands
            /\ valid = TRUE
            /\ gps = ResetGps(SetStateGps(x, [i \in 1 .. 3 |-> Div * v[i]]))
            /\ phase = 0
            /\ track = [k \in Window |-> Along(x, v, -k)]
            /\ aligned = TRUE
  BY DEF Init
<1>2. v \in Position /\ x \in Position /\ f \in Int /\ r \in Int
  BY VelsPositions, Constants DEF Position
<1>3. /\ track \in [Window -> Position] /\ track[0] = x
      /\ Line
      /\ \A k \in 0 .. Delay - 1 : gps.line[Delay - k] = track[k * Div]
      /\ gps.est = Solve(track[Delay * Div]) /\ gps.past = Solve(track[(Delay + 1) * Div])
      /\ gps.vel = Between(Solve(track[(Delay + 1) * Div]), Solve(track[Delay * Div]))
  BY <1>1, <1>2, PlacedReceiver DEF Line
<1>4. Basics /\ SpinLimited
  <2>1. Basics
    BY <1>1, <1>2, <1>3, Constants DEF Basics
  <2>2. SpinLimited
    BY <1>1, <1>2 DEF SpinLimited
  <2>3. QED
    BY <2>1, <2>2
<1>5. \A k \in Nat : k <= Delay + 1 => phase + k * Div = k * Div
  BY <1>1, Products, Constants
<1>6. LineIsTrack
  <2> SUFFICES ASSUME NEW k \in 0 .. Delay - 1
               PROVE  gps.line[Delay - k] = track[phase + k * Div]
    BY DEF LineIsTrack
  <2>1. k \in Nat /\ k <= Delay + 1
    BY Constants
  <2>2. phase + k * Div = k * Div
    BY <1>5, <2>1
  <2>3. QED
    BY <1>3, <2>2
<1>7. ReadsDelayed
  <2>1. /\ Delay \in Nat /\ Delay <= Delay + 1
        /\ Delay + 1 \in Nat /\ Delay + 1 <= Delay + 1
    BY Constants
  <2>2. phase + Delay * Div = Delay * Div /\ phase + (Delay + 1) * Div = (Delay + 1) * Div
    BY <1>5, <2>1
  <2>3. QED
    BY <1>3, <2>2 DEF ReadsDelayed
<1>8. QED
  BY <1>3, <1>4, <1>6, <1>7 DEF IInv
\* An update moves the track by one step; the receiver, when it is due, takes its
\* newest position, and the oldest one leaves the line.
LEMMA UpdatePreserves == IInv /\ Update => IInv'
<1> SUFFICES ASSUME IInv, Update PROVE IInv'
  OBVIOUS
<1>1. /\ Div \in Nat \ {0} /\ Delay \in Nat /\ phase \in 0 .. Div - 1 /\ valid
      /\ track \in [Window -> Position] /\ X \in Position
      /\ gps.line \in [1 .. Delay -> Position]
  BY Constants DEF IInv, Basics, Line, Update
<1>2. /\ phase' \in 0 .. Div - 1
      /\ phase' = IF phase = Div - 1 THEN 0 ELSE phase + 1
  BY <1>1, PhaseStep DEF Update, Passes
<1>3. X' \in Position
  <2>1. PICK v \in Vels : X' = Along(X, v, 1)
    BY DEF Update
  <2>2. QED
    BY <1>1, <2>1, VelsPositions, AlongPosition
<1>4. PICK c \in Commands : command' = c /\ F' = NextThrust(F, c)
  BY DEF Update
<1>5. F' \in Int
  BY <1>4, StepTowardsGoal, Constants DEF IInv, Basics
<1>6. PICK acc1, acc2 \in Accs : p' = NextSpin(p, acc1, acc2)
  BY DEF Update
<1>7. /\ p' \in Int /\ spun' = spun /\ spun \in Int /\ p \in Int
      /\ \A b \in Int : b >= MaxSpin + MaxAcc => /\ p <= b => p' <= b
                                                 /\ p >= -b => p' >= -b
  <2>1. p \in Int /\ spun \in Int /\ spun' = spun
    BY DEF IInv, Basics, Update
  <2>2. acc1 \in -MaxAcc .. MaxAcc /\ acc2 \in -MaxAcc .. MaxAcc
    BY Constants
  <2>3. p' \in Int
    <3> DEFINE b == MaxSpin + MaxAcc
    <3>1. b \in Int /\ b >= MaxSpin + MaxAcc
      BY Constants
    <3> HIDE DEF b
    <3>2. NextSpin(p, acc1, acc2) \in Int
      BY <2>1, <2>2, <3>1, SpinStep
    <3>3. QED
      BY <1>6, <3>2
  <2>4. QED
    BY <1>6, <2>1, <2>2, <2>3, SpinStep
<1>8. SpinLimited'
  <2> DEFINE m == MaxSpin + MaxAcc
  <2>1. m \in Nat
    BY Constants
  <2>2. /\ p <= m \/ p <= spun
        /\ p >= -m \/ p >= spun
    BY DEF IInv, SpinLimited
  <2>3. \A b \in Int : b >= m => (p <= b => p' <= b) /\ (p >= -b => p' >= -b)
    BY <1>7
  <2> HIDE DEF m
  <2>4. p' <= m \/ p' <= spun
    <3>1. CASE p <= m
      BY <2>1, <2>3, <3>1
    <3>2. CASE p > m /\ p <= spun
      BY <1>7, <2>1, <2>3, <3>2
    <3>3. QED
      BY <1>7, <2>1, <2>2, <3>1, <3>2
  <2>5. p' >= -m \/ p' >= spun
    <3>1. CASE p >= -m
      BY <2>1, <2>3, <3>1
    <3>2. CASE p < -m /\ p >= spun
      <4>1. -spun \in Int /\ -spun >= m /\ p >= -(-spun) /\ -(-spun) = spun
        BY <1>7, <2>1, <3>2
      <4>2. QED
        BY <2>3, <4>1
    <3>3. QED
      BY <1>7, <2>1, <2>2, <3>1, <3>2
  <2>6. QED
    BY <1>7, <2>4, <2>5 DEF SpinLimited, m
<1>9. track' = [k \in Window |-> IF k = 0 THEN X' ELSE track[k - 1]]
  BY DEF Update
<1>10. /\ track' \in [Window -> Position] /\ track'[0] = X'
       /\ \A k \in Window : k + 1 \in Window => track'[k + 1] = track[k]
  <2>1. 0 \in Window
    <3>1. 0 \in 0 .. Div - 1 /\ 0 \in Nat /\ 0 <= Delay + 1
      BY <1>1
    <3>2. 0 + 0 * Div \in Window
      BY <3>1, Products
    <3>3. QED
      BY <1>1, <3>2
  <2>2. \A k \in Window : k # 0 => k - 1 \in Window
    BY <1>1 DEF Window
  <2>3. \A k \in Window : k + 1 # 0 /\ (k + 1) - 1 = k
    BY DEF Window
  <2>4. QED
    BY <1>1, <1>3, <1>9, <2>1, <2>2, <2>3
<1>11. Basics'
  <2>1. valid' \in BOOLEAN /\ aligned' \in BOOLEAN /\ p' \in Int /\ spun' \in Int
    BY <1>7, Constants DEF Update, IInv, Basics
  <2>2. QED
    BY <1>2, <1>3, <1>4, <1>5, <1>10, <2>1 DEF Basics
<1>12. CASE ~(valid' /\ phase' = 0)
  <2>1. gps' = gps
    BY <1>12 DEF Update
  <2>2. Line'
    BY <2>1 DEF Line, IInv
  <2>3. ASSUME valid', aligned'
        PROVE  /\ valid /\ aligned
               /\ \A k \in Nat : k <= Delay + 1 =>
                     track'[phase' + k * Div] = track[phase + k * Div]
    <3>1. phase' = phase + 1 /\ aligned
      BY <1>2, <1>12, <2>3 DEF Update
    <3>2. ASSUME NEW k \in Nat, k <= Delay + 1
          PROVE  track'[phase' + k * Div] = track[phase + k * Div]
      <4>1. phase + k * Div \in Window /\ phase' + k * Div \in Window /\ k * Div \in Nat
        BY <1>1, <1>2, <3>2, Products
      <4>2. phase' + k * Div = (phase + k * Div) + 1
        BY <1>1, <3>1, <4>1
      <4>3. QED
        BY <1>10, <4>1, <4>2
    <3>3. QED
      BY <1>1, <3>1, <3>2
  <2>4. LineIsTrack'
    <3>1. \A k \in 0 .. Delay - 1 : k \in Nat /\ k <= Delay + 1
      BY <1>1
    <3>2. QED
      BY <2>1, <2>3, <3>1 DEF LineIsTrack, IInv
  <2>5. ReadsDelayed'
    <3>1. /\ Delay \in Nat /\ Delay <= Delay + 1
          /\ Delay + 1 \in Nat /\ Delay + 1 <= Delay + 1
      BY <1>1
    <3>2. QED
      BY <2>1, <2>3, <3>1 DEF ReadsDelayed, IInv
  <2>6. QED
    BY <1>8, <1>11, <2>2, <2>4, <2>5 DEF IInv
<1>13. CASE valid' /\ phase' = 0
  <2> DEFINE chain == Append(gps.line, X')
  <2>1. phase = Div - 1
    BY <1>1, <1>2, <1>13
  <2>2. gps' = [line |-> Tail(chain), est |-> Solve(chain[1]), past |-> gps.est,
                vel |-> Between(gps.est, Solve(chain[1]))]
    BY <1>13 DEF Update, UpdateGps
  <2>3. /\ chain[1] = (IF Delay = 0 THEN X' ELSE gps.line[1]) /\ chain[1] \in Position
        /\ Tail(chain) \in [1 .. Delay -> Position]
        /\ \A i \in 1 .. Delay : Tail(chain)[i] = IF i = Delay THEN X' ELSE gps.line[i + 1]
    BY <1>1, <1>3, Shifted
  <2> HIDE DEF chain
  <2>4. gps.est \in Solved
    BY DEF IInv, Line
  <2>5. Line'
    <3>1. Solve(chain[1]) \in Solved /\ Between(gps.est, Solve(chain[1])) \in Velocity
      <4>1. Solve(chain[1]) \in Solved
        BY <2>3 DEF Solved
      <4>2. QED
        BY <2>4, <4>1 DEF Velocity
    <3>2. QED
      BY <2>2, <2>3, <2>4, <3>1 DEF Line
  <2>6. ASSUME NEW k \in Nat, k <= Delay
        PROVE  track'[phase' + (k + 1) * Div] = track[phase + k * Div]
    <3>1. k \in Nat /\ k <= Delay + 1 /\ k + 1 \in Nat /\ k + 1 <= Delay + 1
      BY <1>1, <2>6
    <3>2. phase + k * Div \in Window /\ phase' + (k + 1) * Div \in Window
          /\ k * Div \in Nat /\ (k + 1) * Div = k * Div + Div
      BY <1>1, <1>2, <3>1, Products
    <3>3. phase' + (k + 1) * Div = (phase + k * Div) + 1
      BY <1>1, <1>13, <2>1, <3>2
    <3>4. QED
      BY <1>10, <3>2, <3>3
  <2>7. ASSUME aligned' PROVE aligned
    BY <2>7 DEF Update
  <2>8. phase' + 0 * Div = 0
    BY <1>1, <1>13
  <2>9. LineIsTrack'
    <3> SUFFICES ASSUME aligned', NEW k \in 0 .. Delay - 1
                 PROVE  gps'.line[Delay - k] = track'[phase' + k * Div]
      BY DEF LineIsTrack
    <3>1. CASE k = 0
      BY <1>1, <1>10, <2>2, <2>3, <2>8, <3>1
    <3>2. CASE k # 0
      <4>1. /\ k - 1 \in 0 .. Delay - 1 /\ k - 1 \in Nat /\ k - 1 <= Delay /\ (k - 1) + 1 = k
            /\ Delay - k \in 1 .. Delay /\ Delay - k # Delay
            /\ (Delay - k) + 1 = Delay - (k - 1)
        BY <1>1, <3>2
      <4>2. gps'.line[Delay - k] = gps.line[Delay - (k - 1)]
        BY <2>2, <2>3, <4>1
      <4>3. gps.line[Delay - (k - 1)] = track[phase + (k - 1) * Div]
        BY <1>1, <2>7, <4>1 DEF LineIsTrack, IInv
      <4>4. track'[phase' + ((k - 1) + 1) * Div] = track[phase + (k - 1) * Div]
        BY <2>6, <4>1
      <4>5. QED
        BY <4>1, <4>2, <4>3, <4>4
    <3>3. QED
      BY <3>1, <3>2
  <2>10. ReadsDelayed'
    <3> SUFFICES ASSUME aligned'
                 PROVE  /\ gps'.est = Solve(track'[phase' + Delay * Div])
                        /\ gps'.past = Solve(track'[phase' + (Delay + 1) * Div])
                        /\ gps'.vel = Between(Solve(track'[phase' + (Delay + 1) * Div]),
                                              Solve(track'[phase' + Delay * Div]))
      BY DEF ReadsDelayed
    <3>1. chain[1] = track'[phase' + Delay * Div]
      <4>1. CASE Delay = 0
        BY <1>10, <2>3, <2>8, <4>1
      <4>2. CASE Delay # 0
        <5>1. /\ Delay - 1 \in 0 .. Delay - 1 /\ Delay - 1 \in Nat /\ Delay - 1 <= Delay
              /\ Delay - (Delay - 1) = 1 /\ (Delay - 1) + 1 = Delay
          BY <1>1, <4>2
        <5>2. gps.line[Delay - (Delay - 1)] = track[phase + (Delay - 1) * Div]
          BY <1>1, <2>7, <5>1 DEF LineIsTrack, IInv
        <5>3. track'[phase' + ((Delay - 1) + 1) * Div] = track[phase + (Delay - 1) * Div]
          BY <2>6, <5>1
        <5>4. QED
          BY <2>3, <4>2, <5>1, <5>2, <5>3
      <4>3. QED
        BY <4>1, <4>2
    <3>2. gps.est = Solve(track[phase + Delay * Div])
      BY <1>1, <2>7 DEF ReadsDelayed, IInv
    <3>3. track'[phase' + (Delay + 1) * Div] = track[phase + Delay * Div]
      BY <1>1, <2>6
    <3>4. QED
      BY <2>2, <3>1, <3>2, <3>3
  <2>11. QED
    BY <1>8, <1>11, <2>5, <2>9, <2>10 DEF IInv
<1>14. QED
  BY <1>12, <1>13

LEMMA IdlePreserves == IInv /\ (Idle \/ UNCHANGED vars) => IInv'
<1> SUFFICES ASSUME IInv, Idle \/ UNCHANGED vars PROVE IInv'
  OBVIOUS
<1>1. CASE UNCHANGED vars
  BY <1>1 DEF vars, IInv, Basics, Line, LineIsTrack, SpinLimited, ReadsDelayed
<1>2. CASE Idle
  <2>1. phase' \in 0 .. Div - 1
    BY <1>2, PhaseStep DEF Idle, Passes, IInv, Basics
  <2>2. ~valid' /\ UNCHANGED <<X, F, p, spun, command, valid, gps, track, aligned>>
    BY <1>2 DEF Idle
  <2>3. QED
    BY <2>1, <2>2 DEF IInv, Basics, Line, LineIsTrack, SpinLimited, ReadsDelayed
<1>3. QED
  BY <1>1, <1>2

\* A step that throws changes nothing of the platform, and what the receiver
\* missed is no longer spoken of.
LEMMA ThrowPreserves == IInv /\ StepThrows => IInv'
<1> SUFFICES ASSUME IInv, StepThrows PROVE IInv'
  OBVIOUS
<1>1. phase' \in 0 .. Div - 1
  BY PhaseStep DEF StepThrows, Passes, IInv, Basics
<1>2. aligned' = FALSE /\ UNCHANGED <<X, F, p, spun, command, valid, gps, track>>
  BY DEF StepThrows
<1>3. QED
  BY <1>1, <1>2 DEF IInv, Basics, Line, LineIsTrack, SpinLimited, ReadsDelayed

-----------------------------------------------------------------------------
LEMMA Inductive == Spec => []IInv
<1>1. IInv /\ [Next]_vars => IInv'
  BY SetXPreserves, UpdatePreserves, IdlePreserves, ThrowPreserves DEF Next
<1>2. QED
  BY InitEstablishes, <1>1, PTL DEF Spec

\* Types; between updates the delay line has room for Delay positions: update
\* (GPSReceiverG.m) takes one out for each it puts in.
THEOREM TypeCorrect == Spec => []TypeOK
<1>1. IInv => TypeOK
  <2> SUFFICES ASSUME IInv PROVE TypeOK
    OBVIOUS
  <2>1. gps.line \in [1 .. Delay -> Position] /\ Delay \in Nat
    BY Constants DEF IInv, Line
  <2>2. Len(gps.line) = Delay
    BY <2>1
  <2>3. QED
    BY <2>2 DEF TypeOK, IInv, Basics
<1>2. QED
  BY Inductive, <1>1, PTL

\* On either side the angular rates stay within the limit of pelicanODE.c and what
\* one step adds - the cut-off holds at the start of both stages of ruku2, and only
\* there - or within what setX gave them, whatever it gave.
THEOREM SpinStaysLimited == Spec => []SpinLimited
<1>1. IInv => SpinLimited
  BY DEF IInv
<1>2. QED
  BY Inductive, <1>1, PTL

\* The receiver reports where the platform was Delay receiver steps before it was
\* last due, whatever the line was filled with by setState, if the platform was
\* placed at a time the receiver is due and no step threw since.
THEOREM ReportsAreDelayed == Spec => []ReadsDelayed
<1>1. IInv => ReadsDelayed
  BY DEF IInv
<1>2. QED
  BY Inductive, <1>1, PTL

-----------------------------------------------------------------------------
(* What the receiver reports is where it was.                              *)

LEMMA MapConstants ==
    /\ MaxLam \in 3 .. 89 /\ FE \in Int /\ FN \in Int /\ FN > 90
    /\ Origin \in [E : Int, N : Int, zone : (0 .. 6) \X (0 .. 9), band : 0 .. 19, h : Int]
  BY KruegerAssumption, ReceiverAssumption

LEMMA Turn ==
    ASSUME NEW n \in Int
    PROVE  /\ n % 360 \in 0 .. 359
           /\ \E k \in Int : n = 360 * k + (n % 360)
  BY Z3

\* A longitude is within three degrees of the meridian of its zone.
LEMMA OwnZone ==
    ASSUME NEW lon \in -180 .. 180
    PROVE  LET m == CentralMeridian(Zone(lon)) IN
           /\ m \in -177 .. 183 /\ lon - m \in -3 .. 3 /\ FromMeridian(lon, m) = lon - m
<1>1. /\ Zone(lon) \in 1 .. 61
      /\ 6 * Zone(lon) <= lon + 186 /\ lon + 186 < 6 * Zone(lon) + 6
  BY Z3 DEF Zone
<1>2. QED
  BY <1>1 DEF CentralMeridian, FromMeridian

\* Off the meridian m by l, there and back around the Earth: the wraps agree, if
\* the zone of the place is that of m.
LEMMA BackInZone ==
    ASSUME NEW l \in -89 .. 89, NEW lon, NEW e,
           e.turn = WithMeridian(l, CentralMeridian(Zone(lon))) % 360, lon = Longitude(e),
           CentralMeridian(Zone(lon)) \in Int
    PROVE  FromMeridian(lon, CentralMeridian(Zone(lon))) = l /\ l \in -3 .. 3
<1> DEFINE m == CentralMeridian(Zone(lon))
           w == WithMeridian(l, m)
<1>1. m \in Int /\ w \in {l + m, l + m - 360, l + m + 360}
  BY DEF WithMeridian
<1> HIDE DEF w
<1>2. w \in Int /\ e.turn = w % 360
  BY <1>1 DEF w
<1>3. PICK t \in 0 .. 359, k \in Int : t = e.turn /\ w = 360 * k + t
  BY <1>2, Turn
<1>4. lon \in -180 .. 180 /\ (lon = t \/ lon = t - 360)
  <2>1. lon = IF t > 180 THEN t - 360 ELSE t
    BY <1>3 DEF Longitude
  <2>2. QED
    BY <2>1
<1>5. lon - m \in -3 .. 3 /\ FromMeridian(lon, m) = lon - m
  BY <1>4, OwnZone, ZenonT(30)
<1> HIDE DEF m
<1>6. \E j \in {k - 1, k, k + 1, k + 2} : l + m = 360 * j + lon
  <2>1. \/ l + m = 360 * k + t
        \/ l + m = 360 * (k + 1) + t
        \/ l + m = 360 * (k - 1) + t
    BY <1>1, <1>3
  <2>2. CASE lon = t
    BY <2>1, <2>2
  <2>3. CASE lon = t - 360
    <3>1. \/ l + m = 360 * (k + 1) + lon
          \/ l + m = 360 * (k + 2) + lon
          \/ l + m = 360 * k + lon
      BY <1>3, <2>1, <2>3
    <3>2. QED
      BY <3>1
  <2>4. QED
    BY <1>4, <2>2, <2>3
<1>7. PICK j \in Int : l + m = 360 * j + lon
  BY <1>3, <1>6
<1>8. l = (lon - m) + 360 * j
  BY <1>1, <1>4, <1>7
<1>9. j = 0
  BY <1>5, <1>8
<1>10. QED
  BY <1>4, <1>5, <1>8, <1>9 DEF m

\* d, with the sign of y, and i, which is nothing where y is.
SignsAgree(y, i, d) ==
    AbsOf(d) = i /\ SignOf(d) * AbsOf(y) = y /\ (d > 0 <=> y > 0)

LEMMA SignedBack ==
    ASSUME NEW y \in Int, NEW i \in Nat, NEW d \in Int,
           i = 0 <=> y = 0, d = SignOf(y) * i
    PROVE  SignsAgree(y, i, d)
  BY DEF SignsAgree, AbsOf, SignOf

\* The way to Earth-centred coordinates and back, on the near side of the map.
LEMMA SolvedInZone ==
    ASSUME NEW x \in Position, InZone(x)
    PROVE  Solve(x) = x
<1> DEFINE o   == [Origin EXCEPT !.N = @ + x[1], !.E = @ + x[2], !.h = @ - x[3]]
           off == IF Northern(Origin) THEN 0 ELSE FN
           y1  == Origin.N + x[1] - off
           y2  == Origin.E + x[2] - FE
           ll  == Unproject(<<y1, y2>>)
           u   == UtmToLla(o)
           e   == NedToEcef(x, Origin)
           lon == Longitude(e)
           m   == CentralMeridian(Zone(lon))
           g   == Grid(e.lat, FromMeridian(lon, m))
           z   == ZoneNumber(Origin.zone)
<1>1. /\ x[1] \in Int /\ x[2] \in Int /\ x[3] \in Int /\ x = <<x[1], x[2], x[3]>>
      /\ Origin.N \in Int /\ Origin.E \in Int /\ Origin.h \in Int /\ off \in Int
      /\ z \in Int
  <2>1. x[1] \in Int /\ x[2] \in Int /\ x[3] \in Int /\ x = <<x[1], x[2], x[3]>>
    BY DEF Position
  <2>2. z \in Int
    BY MapConstants DEF ZoneNumber
  <2>3. QED
    BY <2>1, <2>2, MapConstants
<1>2. y1 \in Int /\ y2 \in Int
  BY <1>1, MapConstants
<1>3. PICK q \in Quadrant : Krueger[q] = <<AbsOf(y1), AbsOf(y2)>>
  BY DEF InZone
<1>4. Zone(lon) = z /\ (e.lat > 0 <=> Northern(Origin))
  BY DEF InZone
<1>5. PICK a \in 0 .. 90, b \in 0 .. MaxLam : q = <<a, b>>
  BY DEF Quadrant
<1>6. u = [lat |-> ll[1], lon |-> WithMeridian(ll[2], CentralMeridian(z)), h |-> Origin.h - x[3]]
  <2>1. /\ o.N = Origin.N + x[1] /\ o.E = Origin.E + x[2] /\ o.h = Origin.h - x[3]
        /\ o.zone = Origin.zone /\ o.band = Origin.band
    BY MapConstants
  <2> HIDE DEF o
  <2>2. (IF Northern(o) THEN o.N ELSE o.N - FN) = y1 /\ o.E - FE = y2
    BY <1>1, <2>1, MapConstants DEF Northern
  <2> HIDE DEF y1, y2
  <2>3. QED
    BY <2>1, <2>2 DEF UtmToLla
<1>7. e = PlaceOf(u.lat, u.lon, u.h)
  BY DEF NedToEcef, LlaToEcef
<1>8. Solve(x) = <<g.N - Origin.N, g.E - Origin.E, Origin.h - e.h>>
  BY DEF Solve, EcefToNed
<1>9. e.h = Origin.h - x[3]
  BY <1>6, <1>7 DEF PlaceOf
<1> DEFINE k == Krueger[q]
<1>10. /\ k[1] = AbsOf(y1) /\ k[2] = AbsOf(y2) /\ k = <<AbsOf(y1), AbsOf(y2)>>
  BY <1>3
<1>11. /\ k[1] \in 0 .. 90
       /\ a = 90 => k = <<90, 0>>
       /\ a # 90 => k[1] < 90 /\ k \in DOMAIN Inverse /\ Inverse[k] = <<a, b>>
       /\ k[1] = 0 <=> a = 0
       /\ k[2] = 0 <=> b = 0 \/ a = 90
  <2>1. k \in (0 .. 90) \X Nat
    BY KruegerAssumption
  <2>2. /\ q[1] = 90 => Krueger[q] = <<90, 0>>
        /\ q[1] # 90 => Krueger[q][1] < 90
        /\ Krueger[q][1] = 0 <=> q[1] = 0
        /\ Krueger[q][2] = 0 <=> q[2] = 0 \/ q[1] = 90
        /\ q[1] # 90 => Krueger[q] \in DOMAIN Inverse /\ Inverse[Krueger[q]] = q
    BY KruegerAssumption
  <2>3. q[1] = a /\ q[2] = b
    BY <1>5
  <2>4. QED
    BY <1>5, <2>1, <2>2, <2>3
<1> HIDE DEF k, y1, y2, off, u, e, lon, m, g, ll, o, z
\* The grid the way back makes of what it finds.
<1>12. ASSUME Project(e.lat, FromMeridian(lon, m)) = <<y1, y2>>, y1 > 0 <=> e.lat > 0
       PROVE  Solve(x) = x
  <2>1. g = [N |-> IF y1 > 0 THEN y1 ELSE y1 + FN, E |-> y2 + FE]
    BY <1>12 DEF Grid, g
  <2>2. g.E - Origin.E = x[2]
    BY <1>1, <2>1, MapConstants DEF y2
  <2>3. g.N - Origin.N = x[1]
    <3>1. g.N = y1 + off
      BY <1>2, <1>4, <1>12, <2>1 DEF off
    <3>2. QED
      BY <1>1, <3>1 DEF y1
  <2>4. Origin.h - e.h = x[3]
    BY <1>1, <1>9
  <2>5. QED
    BY <1>1, <1>8, <2>2, <2>3, <2>4
<1>13. CASE a = 90
  <2>1. AbsOf(y1) = 90 /\ AbsOf(y2) = 0
    BY <1>10, <1>11, <1>13
  <2>2. y1 \in {-90, 90} /\ y2 = 0
    BY <1>2, <2>1 DEF AbsOf
  <2>3. ll = <<y1, 0>>
    BY <2>2 DEF ll, Unproject, AbsOf, SignOf
  <2>4. e.lat = y1 /\ e.turn = 0
    BY <1>6, <1>7, <2>2, <2>3 DEF PlaceOf, AbsOf
  <2>5. lon = 0
    BY <2>4 DEF lon, Longitude
  <2>6. FromMeridian(lon, m) \in -3 .. 3
    <3>1. lon \in -180 .. 180
      BY <2>5
    <3>2. lon - m \in -3 .. 3 /\ FromMeridian(lon, m) = lon - m
      BY <3>1, OwnZone DEF m
    <3>3. QED
      BY <3>2
  <2>7. Project(e.lat, FromMeridian(lon, m)) = <<y1, y2>>
    <3> DEFINE l == FromMeridian(lon, m)
    <3>1. AbsOf(e.lat) = 90 /\ AbsOf(l) \in 0 .. 3 /\ SignOf(l) \in {-1, 1}
      BY <2>2, <2>4, <2>6 DEF AbsOf, SignOf
    <3> HIDE DEF l
    <3>2. <<90, AbsOf(l)>> \in Quadrant /\ <<90, AbsOf(l)>>[1] = 90
      BY <3>1, MapConstants DEF Quadrant
    <3>3. Krueger[<<90, AbsOf(l)>>] = <<90, 0>>
      BY <3>2, KruegerAssumption
    <3>4. Project(e.lat, l) = <<SignOf(e.lat) * 90, SignOf(l) * 0>>
      BY <3>1, <3>3 DEF Project
    <3>5. SignOf(e.lat) * 90 = y1
      BY <2>2, <2>4 DEF SignOf
    <3>6. SignOf(l) * 0 = 0
      BY <3>1
    <3>7. QED
      BY <2>2, <3>4, <3>5, <3>6 DEF l
  <2>8. QED
    BY <1>12, <2>4, <2>7
<1>14. CASE a # 90
  <2>1. /\ AbsOf(y1) \in 0 .. 89 /\ AbsOf(y2) \in Nat
        /\ AbsOf(y1) = 0 <=> a = 0
        /\ AbsOf(y2) = 0 <=> b = 0
        /\ k \in DOMAIN Inverse /\ Inverse[k] = <<a, b>> /\ k # <<90, 0>>
    BY <1>2, <1>10, <1>11, <1>14 DEF AbsOf
  <2>2. ll = <<SignOf(y1) * a, SignOf(y2) * b>>
    BY <1>10, <2>1 DEF ll, Unproject
  <2>3. /\ AbsOf(ll[1]) = a /\ SignOf(ll[1]) * AbsOf(y1) = y1 /\ (ll[1] > 0 <=> y1 > 0)
        /\ ll[1] \in -89 .. 89
    <3>1. a = 0 <=> y1 = 0
      BY <1>2, <2>1 DEF AbsOf
    <3>2. ll[1] = SignOf(y1) * a /\ ll[1] \in -89 .. 89
      BY <1>14, <2>2 DEF SignOf
    <3>3. SignsAgree(y1, a, ll[1])
      <4>1. y1 \in Int /\ a \in Nat /\ ll[1] \in Int
        BY <1>2, <2>1, <3>2, MapConstants
      <4>2. QED
        BY <3>1, <3>2, <4>1, SignedBack
    <3>4. QED
      BY <3>2, <3>3 DEF SignsAgree
  <2>4. /\ AbsOf(ll[2]) = b /\ SignOf(ll[2]) * AbsOf(y2) = y2
        /\ ll[2] \in -89 .. 89
    <3>1. b = 0 <=> y2 = 0
      BY <1>2, <2>1 DEF AbsOf
    <3>2. ll[2] = SignOf(y2) * b /\ ll[2] \in -89 .. 89
      BY <2>2, MapConstants DEF SignOf
    <3>3. SignsAgree(y2, b, ll[2])
      <4>1. y2 \in Int /\ b \in Nat /\ ll[2] \in Int
        BY <1>2, <2>1, <3>2, MapConstants
      <4>2. QED
        BY <3>1, <3>2, <4>1, SignedBack
    <3>4. QED
      BY <3>2, <3>3 DEF SignsAgree
  <2>5. e.lat = ll[1] /\ e.turn = WithMeridian(ll[2], CentralMeridian(z)) % 360
    BY <1>6, <1>7, <2>3 DEF PlaceOf, AbsOf
  <2>6. FromMeridian(lon, m) = ll[2] /\ ll[2] \in -3 .. 3
    <3>1. CentralMeridian(z) = m /\ m \in Int
      BY <1>1, <1>4 DEF CentralMeridian, m
    <3>2. QED
      BY <2>4, <2>5, <3>1, BackInZone DEF lon, m
  <2>7. Project(e.lat, FromMeridian(lon, m)) = <<y1, y2>>
    <3>1. ~(AbsOf(ll[2]) > 90)
      BY <2>6 DEF AbsOf
    <3>2. Project(ll[1], ll[2]) = <<SignOf(ll[1]) * k[1], SignOf(ll[2]) * k[2]>>
      BY <1>5, <2>3, <2>4, <3>1 DEF Project, k
    <3>3. QED
      BY <1>10, <2>3, <2>4, <2>5, <2>6, <3>2
  <2>8. QED
    BY <1>12, <2>3, <2>5, <2>7
<1>15. QED
  BY <1>13, <1>14

\* In the zone and the hemisphere of the origin the receiver reports the true
\* position of Delay receiver steps ago: ecefToNed takes back what nedToEcef did.
THEOREM ReportsAreTrue == Spec => []TrueInZone
<1>1. IInv => TrueInZone
  <2> SUFFICES ASSUME IInv, valid, aligned, \A k \in Window : InZone(track[k])
               PROVE  gps.est = track[phase + Delay * Div]
    BY DEF TrueInZone
  <2>1. gps.est = Solve(track[phase + Delay * Div])
    BY DEF IInv, ReadsDelayed
  <2>2. phase + Delay * Div \in Window
    <3>1. Delay \in Nat /\ Delay <= Delay + 1 /\ phase \in 0 .. Div - 1
      BY Constants DEF IInv, Basics
    <3>2. QED
      BY <3>1, Products
  <2>3. track[phase + Delay * Div] \in Position
    BY <2>2 DEF IInv, Basics
  <2>4. QED
    BY <2>1, <2>2, <2>3, SolvedInZone
<1>2. QED
  BY Inductive, <1>1, PTL


-----------------------------------------------------------------------------
\* No step crosses the goal of its command: not in the first stage of the
\* integrator, the one whose step is compared in whole newtons, nor in the second.
THEOREM ThrustNeverOvershoots == Spec => NeverPastGoal
<1>1. IInv /\ [Next]_vars => [\/ F <= F' /\ F' <= Goal(command')
                              \/ Goal(command') <= F' /\ F' <= F
                              \/ ~Update]_vars
  <2>1. ASSUME IInv, Update
        PROVE  \/ F <= F' /\ F' <= Goal(command')
               \/ Goal(command') <= F' /\ F' <= F
    <3>1. PICK c \in Commands : command' = c /\ F' = NextThrust(F, c)
      BY <2>1 DEF Update
    <3>2. F \in Int /\ c \in Command
      BY <2>1, Constants DEF IInv, Basics
    <3>3. QED
      BY <3>1, <3>2, StepTowardsGoal DEF Between2
  <2>2. QED
    BY <2>1
<1>2. QED
  BY Inductive, <1>1, PTL DEF Spec, NeverPastGoal

\* Below the ceiling of the battery a step changes the thrust by no more than
\* Rate and half a newton, though abs compares whole newtons in both stages: if
\* the first stage lets a difference through, nothing is left for the second.
THEOREM ThrustRateBounded == Spec => RateLimited
<1>1. IInv /\ [Next]_vars =>
        [(~command'.low /\ F <= command'.cap /\ Update)
            => 2 * Absolute(F' - F) <= Rate + Newton + (IF Rate <= Newton THEN 0 ELSE Rate)]_vars
  <2> SUFFICES ASSUME IInv, Update, ~command'.low, F <= command'.cap
               PROVE  2 * Absolute(F' - F)
                         <= Rate + Newton + (IF Rate <= Newton THEN 0 ELSE Rate)
    OBVIOUS
  <2>1. PICK c \in Commands : command' = c /\ F' = NextThrust(F, c)
    BY DEF Update
  <2>2. F \in Int /\ c \in Command
    BY Constants DEF IInv, Basics
  <2>3. QED
    BY <2>1, <2>2, StepLength
<1>2. QED
  BY Inductive, <1>1, PTL DEF Spec, RateLimited
=============================================================================
