-------------------------- MODULE Stepping_proofs --------------------------
(***************************************************************************)
(* Theorems about Stepping, for any number of platforms, sensors and       *)
(* environment objects and any dt's the constructors accept: types, no     *)
(* valid pair in collision after a tick, and the nested clocks on time.    *)
(***************************************************************************)
EXTENDS Stepping, WellFoundedInduction, TLAPS

-----------------------------------------------------------------------------
(* Arithmetic: multiples of a tick, and the latest multiple of a dt.       *)

LEMMA DivMod ==
    ASSUME NEW d \in Nat \ {0}, NEW a \in Nat
    PROVE  a \div d \in Nat /\ a % d \in 0 .. d - 1 /\ a = d * (a \div d) + (a % d)
  OBVIOUS

LEMMA ModUnique ==
    ASSUME NEW d \in Nat \ {0}, NEW a \in Nat, NEW q \in Nat, NEW r \in 0 .. d - 1,
           a = d * q + r
    PROVE  a % d = r
  OBVIOUS

LEMMA Multiple ==
    ASSUME NEW d \in Nat \ {0}, NEW a \in Nat
    PROVE  a % d = 0 <=> \E p \in Nat : a = d * p
<1>1. ASSUME a % d = 0 PROVE \E p \in Nat : a = d * p
  <2>1. a \div d \in Nat /\ a = d * (a \div d) + 0
    BY <1>1, DivMod
  <2>2. QED
    BY <2>1
<1>2. ASSUME NEW p \in Nat, a = d * p PROVE a % d = 0
  <2>1. a = d * p + 0 /\ 0 \in 0 .. d - 1
    BY <1>2
  <2>2. QED
    BY <2>1, ModUnique
<1>3. QED
  BY <1>1, <1>2

LEMMA MulGap ==
    ASSUME NEW d \in Nat \ {0}, NEW q \in Nat, NEW p \in Nat, p >= q + 1
    PROVE  d * p >= d * q + d
  BY Z3

\* One tick more or less is a multiple of the tick again.
LEMMA TickMore ==
    ASSUME NEW D \in Nat \ {0}, NEW a \in Nat, a % D = 0
    PROVE  /\ (a + D) % D = 0
           /\ a # 0 => a >= D /\ (a - D) % D = 0
<1>1. PICK p \in Nat : a = D * p
  BY Multiple
<1>2. (a + D) % D = 0
  <2>1. a + D = D * (p + 1) /\ p + 1 \in Nat /\ a + D \in Nat
    BY <1>1, Z3
  <2>2. QED
    BY <2>1, Multiple
<1>3. ASSUME a # 0 PROVE a >= D /\ (a - D) % D = 0
  <2>1. p >= 1
    BY <1>1, <1>3
  <2>2. a >= D
    BY <1>1, <2>1, Z3
  <2>3. a - D = D * (p - 1) /\ p - 1 \in Nat /\ a - D \in Nat
    BY <1>1, <2>1, <2>2, Z3
  <2>4. QED
    BY <2>2, <2>3, Multiple
<1>4. QED
  BY <1>2, <1>3

\* A multiple of a multiple.
LEMMA MultipleOfMultiple ==
    ASSUME NEW d \in Nat \ {0}, NEW e \in Nat \ {0}, NEW a \in Nat,
           e % d = 0, a % e = 0
    PROVE  a % d = 0
<1>1. PICK p \in Nat : e = d * p
  BY Multiple
<1>2. PICK k \in Nat : a = e * k
  BY Multiple
<1>3. a = d * (p * k) /\ p * k \in Nat
  BY <1>1, <1>2, Z3
<1>4. QED
  BY <1>3, Multiple

\* A tick reaches the next multiple of d or stays below it: none is jumped.
LEMMA NextMultiple ==
    ASSUME NEW D \in Nat \ {0}, NEW d \in Nat \ {0}, NEW a \in Nat,
           a % D = 0, d % D = 0
    PROVE  (a + D) % d = 0 \/ (a + D) % d = (a % d) + D
<1> DEFINE q == a \div d
           r == a % d
<1>1. q \in Nat /\ r \in 0 .. d - 1 /\ a = d * q + r
  BY DivMod
<1>2. PICK p \in Nat : a = D * p
  BY Multiple
<1>3. PICK k \in Nat : d = D * k
  BY Multiple
<1> HIDE DEF q, r
<1>4. r = D * (p - k * q)
  BY <1>1, <1>2, <1>3, Z3
<1>5. k * q <= p
  BY <1>1, <1>2, <1>3, <1>4, Z3
<1>6. r + D <= d
  <2> DEFINE m == p - k * q
  <2>1. m \in Nat /\ k \in Nat /\ r = D * m /\ D * m < D * k
    BY <1>1, <1>3, <1>4, <1>5, Z3
  <2> HIDE DEF m
  <2>2. m < k
    BY <2>1, MulGap
  <2>3. D * k >= D * m + D
    BY <2>1, <2>2, MulGap
  <2>4. QED
    BY <1>3, <2>1, <2>3
<1>7. CASE r + D = d
  <2>1. a + D = d * (q + 1) /\ q + 1 \in Nat /\ a + D \in Nat
    BY <1>1, <1>7, Z3
  <2>2. QED
    BY <2>1, Multiple
<1>8. CASE r + D < d
  <2>1. a + D = d * q + (r + D) /\ r + D \in 0 .. d - 1 /\ a + D \in Nat
    BY <1>1, <1>8
  <2>2. (a + D) % d = r + D
    BY <1>1, <2>1, ModUnique
  <2>3. QED
    BY <2>2 DEF r
<1>9. QED
  BY <1>1, <1>6, <1>7, <1>8

\* What was on time a tick ago is still, if no multiple of d has come.
LEMMA StillOnTime ==
    ASSUME NEW D \in Nat \ {0}, NEW d \in Nat \ {0}, NEW a \in Nat, NEW s \in Nat,
           a >= D, a % D = 0, d % D = 0, a % d # 0, s >= (a - D) - ((a - D) % d)
    PROVE  s >= a - (a % d)
<1> DEFINE b == a - D
<1>1. b \in Nat /\ b + D = a /\ b % D = 0
  <2>1. a # 0 /\ b \in Nat /\ b + D = a
    OBVIOUS
  <2>2. (a - D) % D = 0
    BY <2>1, TickMore
  <2>3. QED
    BY <2>1, <2>2
<1>2. s >= b - (b % d)
  OBVIOUS
<1>3. b % d \in Nat
  BY <1>1, DivMod
<1> HIDE DEF b
<1>4. (b + D) % d = (b % d) + D
  BY <1>1, NextMultiple
<1>5. QED
  BY <1>1, <1>2, <1>3, <1>4

\* A set of naturals has a least member.
LEMMA LeastNatural ==
    ASSUME NEW S \in SUBSET Nat, S # {}
    PROVE  Min(S) \in S
<1> DEFINE R == {ss \in Nat \X Nat : ss[1] < ss[2]}
<1>1. IsWellFoundedOn(R, Nat)
  BY NatLessThanWellFounded DEF OpToRel
<1> HIDE DEF R
<1>2. PICK x \in S : \A y \in S : <<y, x>> \notin R
  BY <1>1, WFMin
<1>3. ASSUME NEW y \in S PROVE x <= y
  <2>1. <<y, x>> \in Nat \X Nat /\ <<y, x>>[1] = y /\ <<y, x>>[2] = x
    OBVIOUS
  <2>2. ~(y < x)
    BY <1>2, <2>1 DEF R
  <2>3. QED
    BY <2>2
<1>4. \E z \in S : \A y \in S : z <= y
  BY <1>3
<1>5. QED
  BY <1>4 DEF Min

-----------------------------------------------------------------------------
(* Types.                                                                  *)

LEMMA Constants ==
    /\ N \in Nat \ {0} /\ DT \in Nat \ {0} /\ Cells \in Nat \ {0}
    /\ TaskDt \in Nat \ {0} /\ MaxT \in Nat /\ Dts \subseteq Nat
    /\ TaskDt % DT = 0
    /\ TaskDt \div DT \in Nat \ {0} /\ (TaskDt \div DT) * DT = TaskDt
<1>1. /\ N \in Nat \ {0} /\ DT \in Nat \ {0} /\ Cells \in Nat \ {0}
      /\ TaskDt \in Nat \ {0} /\ MaxT \in Nat /\ Dts \subseteq Nat /\ TaskDt % DT = 0
  BY SteppingAssumption
<1>2. TaskDt \div DT \in Nat /\ TaskDt = DT * (TaskDt \div DT) + 0
  BY <1>1, DivMod
<1>3. (TaskDt \div DT) * DT = TaskDt
  BY <1>1, <1>2, Z3
<1>4. TaskDt \div DT # 0
  BY <1>1, <1>3, Z3
<1>5. QED
  BY <1>1, <1>2, <1>3, <1>4

(* The step that is running ends by MaxT, and a tick that has begun has    *)
(* moved the time.                                                         *)
InTime ==
    /\ phase = "tick" => t + ticks * DT <= MaxT
    /\ phase \in {"environment", "platforms", "tickDone"} =>
           t >= DT /\ t + (ticks - 1) * DT <= MaxT

LEMMA TypeOKInit == Init => TypeOK /\ InTime
<1> SUFFICES ASSUME Init PROVE TypeOK /\ InTime
  OBVIOUS
<1>1. dt \in [Configured -> Dts] /\ X \in [Platforms -> 1 .. Cells + 1]
  BY Constants DEF Init, Placements
<1>2. t = 0 /\ t % DT = 0
  BY Constants, ModUnique DEF Init
<1>3. /\ lastEnv \in [EnvObjs -> 0 .. t] /\ last \in [Platforms -> [Parts -> 0 .. t]]
      /\ valid \in [Platforms -> BOOLEAN]
  BY DEF Init
<1>4. next \in Platforms /\ ticks \in 0 .. TaskDt \div DT
  BY Constants DEF Init, Platforms
<1>5. phase = "idle" /\ t \in 0 .. MaxT
  BY Constants DEF Init
<1>6. thrown \in BOOLEAN
  BY DEF Init
<1>7. TypeOK
  BY <1>1, <1>2, <1>3, <1>4, <1>5, <1>6 DEF TypeOK
<1>8. InTime
  BY <1>5 DEF InTime
<1>9. QED
  BY <1>7, <1>8

\* A platform's step leaves the times of updates in their range.
LEMMA LastType ==
    ASSUME TypeOK, NEW x, NEW ok, MovesTo(next, x, ok)
    PROVE  last' \in [Platforms -> [Parts -> 0 .. t]]
<1>1. t \in 0 .. t /\ next \in Platforms
  BY DEF TypeOK
<1>2. last[next] \in [Parts -> 0 .. t]
  BY <1>1 DEF TypeOK
<1> DEFINE f == [q \in Parts |-> IF q \in Reached(ok) /\ IsDue(DtOf(q)) THEN t
                                 ELSE last[next][q]]
<1>3. f \in [Parts -> 0 .. t]
  BY <1>1, <1>2
<1>4. last' = [last EXCEPT ![next] = f]
  BY DEF MovesTo
<1> HIDE DEF f
<1>5. QED
  BY <1>1, <1>3, <1>4 DEF TypeOK

LEMMA PlatformType ==
    ASSUME TypeOK, InTime, StepPlatform \/ StepPlatformThrows
    PROVE  /\ last' \in [Platforms -> [Parts -> 0 .. t]]
           /\ X' \in [Platforms -> 1 .. Cells + 1]
           /\ valid' \in [Platforms -> BOOLEAN]
<1>1. ASSUME NEW x \in Moves(X[next]), NEW ok \in BOOLEAN, MovesTo(next, x, ok)
      PROVE  /\ last' \in [Platforms -> [Parts -> 0 .. t]]
             /\ X' \in [Platforms -> 1 .. Cells + 1]
             /\ valid' \in [Platforms -> BOOLEAN]
  <2>1. x \in 1 .. Cells + 1
    BY DEF Moves
  <2>2. X' \in [Platforms -> 1 .. Cells + 1]
    BY <1>1, <2>1 DEF MovesTo, TypeOK
  <2>3. valid' \in [Platforms -> BOOLEAN]
    BY <1>1 DEF MovesTo, TypeOK
  <2>4. QED
    BY <1>1, <2>2, <2>3, LastType
<1>2. CASE UNCHANGED <<X, valid>> /\ (last' = last \/ last' = [last EXCEPT ![next]["platform"] = t])
  <2>1. last \in [Platforms -> [Parts -> 0 .. t]] /\ t \in 0 .. t
    BY DEF TypeOK
  <2>2. last' \in [Platforms -> [Parts -> 0 .. t]]
    BY <1>2, <2>1
  <2>3. QED
    BY <1>2, <2>2 DEF TypeOK
<1>3. CASE StepPlatformThrows
  <2>1. PICK x \in Moves(X[next]) : MovesTo(next, x, FALSE)
    BY <1>3 DEF StepPlatformThrows
  <2>2. QED
    BY <1>1, <2>1
<1>4. CASE StepPlatform
  <2>1. CASE \E x \in Moves(X[next]) : MovesTo(next, x, InLimits(x) /\ ~InCollision(next, x))
    <3>1. PICK x \in Moves(X[next]) : MovesTo(next, x, InLimits(x) /\ ~InCollision(next, x))
      BY <2>1
    <3>2. (InLimits(x) /\ ~InCollision(next, x)) \in BOOLEAN
      OBVIOUS
    <3>3. QED
      BY <1>1, <3>1, <3>2
  <2>2. QED
    BY <1>2, <1>4, <2>1 DEF StepPlatform
<1>5. QED
  BY <1>3, <1>4

LEMMA TypeOKNext == TypeOK /\ InTime /\ [Next]_vars => (TypeOK /\ InTime)'
<1> SUFFICES ASSUME TypeOK, InTime, [Next]_vars PROVE (TypeOK /\ InTime)'
  OBVIOUS
<1>1. /\ N \in Nat \ {0} /\ DT \in Nat \ {0} /\ Cells \in Nat \ {0} /\ MaxT \in Nat
      /\ t \in Nat /\ t % DT = 0 /\ ticks \in 0 .. TaskDt \div DT
      /\ TaskDt \div DT \in Nat \ {0} /\ TaskDt \in Nat \ {0}
  BY Constants DEF TypeOK
<1>2. CASE Reset
  <2>1. /\ t' = 0 /\ t' % DT = 0 /\ t' \in 0 .. MaxT
        /\ UNCHANGED <<dt, phase, next, ticks>> /\ phase = "idle"
    BY <1>1, <1>2, ModUnique DEF Reset
  <2>2. valid' \in [Platforms -> BOOLEAN] /\ thrown' \in BOOLEAN
    BY <1>2 DEF Reset
  <2>3. lastEnv' \in [EnvObjs -> 0 .. t'] /\ last' \in [Platforms -> [Parts -> 0 .. t']]
    <3>1. 0 \in 0 .. t'
      BY <2>1
    <3>2. QED
      BY <1>2, <3>1 DEF Reset
  <2>4. X' \in [Platforms -> 1 .. Cells + 1]
    BY <1>1, <1>2 DEF Reset, Placements
  <2>5. TypeOK'
    BY <2>1, <2>2, <2>3, <2>4 DEF TypeOK
  <2>6. QED
    BY <2>1, <2>5 DEF InTime
<1>3. ASSUME NEW i \in Platforms, NEW x \in 1 .. Cells, SetX(i, x)
      PROVE  (TypeOK /\ InTime)'
  <2>1. UNCHANGED <<dt, t, phase, next, ticks, lastEnv, thrown>> /\ phase = "idle"
    BY <1>3 DEF SetX
  <2>2. X' \in [Platforms -> 1 .. Cells + 1] /\ valid' \in [Platforms -> BOOLEAN]
    BY <1>1, <1>3 DEF SetX, TypeOK
  <2>3. last' \in [Platforms -> [Parts -> 0 .. t]]
    <3> DEFINE f == [q \in Parts |-> IF q = "platform" THEN last[i][q] ELSE t]
    <3>1. f \in [Parts -> 0 .. t]
      BY <1>1 DEF TypeOK
    <3>2. last' = [last EXCEPT ![i] = f]
      BY <1>3 DEF SetX
    <3> HIDE DEF f
    <3>3. QED
      BY <3>1, <3>2 DEF TypeOK
  <2>4. TypeOK'
    BY <2>1, <2>2, <2>3 DEF TypeOK
  <2>5. QED
    BY <2>1, <2>4 DEF InTime
<1>4. CASE BeginStep
  <2>1. /\ UNCHANGED <<dt, t, next, lastEnv, last, X, valid, thrown>>
        /\ phase' = "tick" /\ ticks' = TaskDt \div DT /\ t + TaskDt <= MaxT
    BY <1>4 DEF BeginStep
  <2>2. ticks' * DT = TaskDt
    BY <2>1, Constants
  <2>3. TypeOK'
    BY <1>1, <2>1 DEF TypeOK
  <2>4. QED
    BY <2>1, <2>2, <2>3 DEF InTime
<1>5. CASE Tick
  <2>1. /\ UNCHANGED <<dt, next, ticks, lastEnv, last, X, valid, thrown>>
        /\ phase = "tick" /\ phase' = "environment" /\ t' = t + DT
    BY <1>5 DEF Tick
  <2>2. ticks > 0 /\ t + ticks * DT <= MaxT
    BY <2>1 DEF TypeOK, InTime
  <2>3. t' + (ticks - 1) * DT <= MaxT /\ t' <= MaxT
    BY <1>1, <2>1, <2>2, Z3
  <2>4. t' % DT = 0
    BY <1>1, <2>1, TickMore
  <2>5. lastEnv \in [EnvObjs -> 0 .. t'] /\ last \in [Platforms -> [Parts -> 0 .. t']]
    <3>1. 0 .. t \subseteq 0 .. t'
      BY <1>1, <2>1
    <3>2. QED
      BY <3>1 DEF TypeOK
  <2>6. t' \in 0 .. MaxT /\ t' >= DT
    BY <1>1, <2>1, <2>3
  <2>7. TypeOK'
    BY <2>1, <2>2, <2>4, <2>5, <2>6 DEF TypeOK
  <2>8. QED
    BY <2>1, <2>3, <2>6, <2>7 DEF InTime
<1>6. CASE StepEnvironment
  <2>1. /\ UNCHANGED <<dt, t, ticks, last, X, valid, thrown>>
        /\ phase = "environment" /\ phase' = "platforms" /\ next' = 1
    BY <1>6 DEF StepEnvironment
  <2>2. lastEnv' \in [EnvObjs -> 0 .. t]
    BY <1>1, <1>6 DEF StepEnvironment, TypeOK
  <2>3. next' \in Platforms
    BY <1>1, <2>1 DEF Platforms
  <2>4. TypeOK'
    BY <2>1, <2>2, <2>3 DEF TypeOK
  <2>5. QED
    BY <2>1, <2>4 DEF InTime
<1>7. CASE StepPlatform
  <2>1. /\ UNCHANGED <<dt, t, ticks, lastEnv, thrown>> /\ phase = "platforms"
        /\ AfterPlatform
    BY <1>7 DEF StepPlatform
  <2>2. phase' \in {"platforms", "tickDone"} /\ next' \in Platforms
    BY <1>1, <2>1 DEF AfterPlatform, Platforms, TypeOK
  <2>3. TypeOK'
    BY <1>7, <2>1, <2>2, PlatformType DEF TypeOK
  <2>4. QED
    BY <2>1, <2>2, <2>3 DEF InTime
<1>8. CASE StepPlatformThrows
  <2>1. /\ UNCHANGED <<dt, t, lastEnv>>
        /\ phase' = "idle" /\ next' = 1 /\ ticks' = 0 /\ thrown' = TRUE
    BY <1>8 DEF StepPlatformThrows
  <2>2. next' \in Platforms /\ ticks' \in 0 .. TaskDt \div DT
    BY <1>1, <2>1 DEF Platforms
  <2>3. TypeOK'
    BY <1>8, <2>1, <2>2, PlatformType DEF TypeOK
  <2>4. QED
    BY <2>1, <2>3 DEF InTime
<1>9. CASE TickDone
  <2>1. /\ UNCHANGED <<dt, t, next, lastEnv, last, X, valid, thrown>>
        /\ phase = "tickDone" /\ ticks' = ticks - 1
        /\ phase' = IF ticks' = 0 THEN "idle" ELSE "tick"
    BY <1>9 DEF TickDone
  <2>2. ticks > 0 /\ t + (ticks - 1) * DT <= MaxT
    BY <2>1 DEF TypeOK, InTime
  <2>3. ticks' \in 0 .. TaskDt \div DT
    BY <1>1, <2>1, <2>2
  <2>4. phase' \in {"idle", "tick"} /\ (phase' = "tick" => ticks' > 0)
    BY <1>1, <2>1, <2>2
  <2>5. TypeOK'
    BY <2>1, <2>3, <2>4 DEF TypeOK
  <2>6. QED
    BY <2>1, <2>2, <2>4, <2>5 DEF InTime
<1>10. CASE UNCHANGED vars
  BY <1>10 DEF vars, TypeOK, InTime
<1>11. QED
  BY <1>2, <1>3, <1>4, <1>5, <1>6, <1>7, <1>8, <1>9, <1>10 DEF Next

(* The clocks, positions and flags of a running simulation keep their      *)
(* types; in particular time is always a multiple of DT and no update is    *)
(* in the future.                                                          *)
THEOREM TypeCorrect == Spec => []TypeOK
<1>1. TypeOK /\ InTime /\ [Next]_vars => (TypeOK /\ InTime)'
  BY TypeOKNext
<1>2. QED
  BY <1>1, TypeOKInit, PTL DEF Spec

-----------------------------------------------------------------------------
(* Collisions.                                                             *)

\* The platforms that have been stepped in the tick that is running.
Moved == IF phase = "tickDone" THEN Platforms ELSE {i \in Platforms : i < next}

(* No two of those are valid and in the same cell: the latest to move has  *)
(* looked at all others.                                                   *)
MovedApart ==
    phase \in {"platforms", "tickDone"} /\ IsDue(dt["platform"]) =>
        \A i, j \in Moved : i # j /\ valid[i] /\ valid[j] => X[i] # X[j]

LEMMA ApartInit == Init => MovedApart
  BY DEF Init, MovedApart

LEMMA ApartAfterStep == TypeOK /\ MovedApart /\ StepPlatform => MovedApart'
<1> SUFFICES ASSUME TypeOK, MovedApart, StepPlatform, IsDue(dt["platform"])'
             PROVE  \A i, j \in Moved' : i # j /\ valid'[i] /\ valid'[j] => X'[i] # X'[j]
  BY DEF MovedApart
<1>1. /\ phase = "platforms" /\ UNCHANGED <<dt, t>> /\ next \in Platforms
      /\ X \in [Platforms -> 1 .. Cells + 1] /\ valid \in [Platforms -> BOOLEAN]
  BY DEF StepPlatform, TypeOK
<1>2. IsDue(dt["platform"])
  BY <1>1 DEF IsDue
<1>3. Moved' \subseteq Moved \cup {next}
  <2>1. AfterPlatform /\ N \in Nat
    BY Constants DEF StepPlatform
  <2>2. CASE next < N
    <3>1. next' = next + 1 /\ phase' = "platforms"
      BY <1>1, <2>1, <2>2 DEF AfterPlatform
    <3>2. \A i \in Platforms : i < next + 1 => i < next \/ i = next
      BY <1>1 DEF Platforms
    <3>3. QED
      BY <1>1, <3>1, <3>2 DEF Moved
  <2>3. CASE ~(next < N)
    <3>1. \A i \in Platforms : i < next \/ i = next
      BY <1>1, <2>1, <2>3 DEF Platforms
    <3>2. QED
      BY <1>1, <3>1 DEF Moved
  <2>4. QED
    BY <2>2, <2>3
<1>4. \A i, j \in Moved : i # j /\ valid[i] /\ valid[j] => X[i] # X[j]
  BY <1>1, <1>2 DEF MovedApart
<1>5. next \notin Moved /\ Moved \subseteq Platforms
  BY <1>1 DEF Moved, Platforms
<1>6. CASE UNCHANGED <<X, valid>> /\ ~valid[next]
  BY <1>3, <1>4, <1>6
<1>7. CASE \E x \in Moves(X[next]) : MovesTo(next, x, InLimits(x) /\ ~InCollision(next, x))
  <2>1. PICK x \in Moves(X[next]) : MovesTo(next, x, InLimits(x) /\ ~InCollision(next, x))
    BY <1>7
  <2>2. \A i \in Platforms \ {next} : X'[i] = X[i] /\ valid'[i] = valid[i]
    BY <1>1, <2>1 DEF MovesTo
  <2>3. X'[next] = x /\ (valid'[next] => \A j \in Platforms \ {next} : X[j] # x)
    BY <1>1, <2>1 DEF MovesTo, InCollision
  <2>4. QED
    BY <1>3, <1>4, <1>5, <2>2, <2>3
<1>8. QED
  BY <1>2, <1>6, <1>7 DEF StepPlatform

LEMMA ApartNext == TypeOK /\ MovedApart /\ [Next]_vars => MovedApart'
<1> SUFFICES ASSUME TypeOK, MovedApart, [Next]_vars PROVE MovedApart'
  OBVIOUS
<1>1. CASE StepEnvironment
  <2>1. phase' = "platforms" /\ next' = 1
    BY <1>1 DEF StepEnvironment
  <2>2. Moved' = {}
    BY <2>1 DEF Moved, Platforms
  <2>3. QED
    BY <2>2 DEF MovedApart
<1>2. CASE StepPlatform
  BY <1>2, ApartAfterStep
<1>3. CASE Reset \/ BeginStep \/ Tick \/ StepPlatformThrows \/ TickDone
           \/ \E i \in Platforms, x \in 1 .. Cells : SetX(i, x)
  <2>1. phase' \in {"idle", "tick", "environment"}
    BY <1>3 DEF Reset, BeginStep, Tick, StepPlatformThrows, TickDone, SetX
  <2>2. QED
    BY <2>1 DEF MovedApart
<1>4. CASE UNCHANGED vars
  BY <1>4 DEF vars, MovedApart, Moved, IsDue
<1>5. QED
  BY <1>1, <1>2, <1>3, <1>4 DEF Next

(* After every tick in which they moved, no two valid platforms of any     *)
(* number are in collision, in whatever order they are stepped.            *)
THEOREM ValidPairsApart == Spec => []NoValidPairCollides
<1>1. Init => TypeOK /\ InTime /\ MovedApart
  BY TypeOKInit, ApartInit
<1>2. TypeOK /\ InTime /\ MovedApart /\ [Next]_vars => (TypeOK /\ InTime /\ MovedApart)'
  BY TypeOKNext, ApartNext
<1>3. MovedApart => NoValidPairCollides
  BY DEF MovedApart, Moved, NoValidPairCollides
<1>4. QED
  BY <1>1, <1>2, <1>3, PTL DEF Spec

-----------------------------------------------------------------------------
(* Updates in time.                                                        *)

Current(s, a, d) == s >= a - (a % d)

(* What environment objects and a platform have had the chance to see of   *)
(* the tick that is running: nothing before it is their turn.              *)
EnvSeen == IF phase = "environment" THEN t - DT ELSE t
Seen(i) == IF phase = "environment" \/ (phase = "platforms" /\ i >= next)
           THEN t - DT ELSE t

NoZeroDt == \A q \in Configured : dt[q] # 0

EnvClocks == \A o \in EnvObjs :
                 Divides(DT, dt[o]) => Current(lastEnv[o], EnvSeen, dt[o])

(* A platform that dropped out goes on looking at the clock, so that its   *)
(* parts are on time again once setX has made it valid.                    *)
ClocksOf(i) == /\ Nested("platform") => Current(last[i]["platform"], Seen(i), dt["platform"])
               /\ valid[i] => \A q \in Parts :
                      Nested(q) => Current(last[i][q], Seen(i), DtOf(q))

PlatformClocks == ~thrown => \A i \in Platforms : ClocksOf(i)

Clocks == NoZeroDt /\ EnvClocks /\ PlatformClocks

\* What was updated at the very time is current.
LEMMA UpdatedNow ==
    ASSUME NEW a \in Nat, NEW d \in Nat \ {0}
    PROVE  Current(a, a, d)
<1>1. a % d \in Nat
  BY DivMod
<1>2. QED
  BY <1>1 DEF Current

\* Every part of a platform has a positive dt.
LEMMA PositiveDt ==
    ASSUME TypeOK, NoZeroDt
    PROVE  /\ \A o \in EnvObjs : dt[o] \in Nat \ {0}
           /\ dt["platform"] \in Nat \ {0}
           /\ \A q \in Parts : DtOf(q) \in Nat \ {0}
<1>1. \A q \in Configured : dt[q] \in Nat \ {0}
  BY Constants DEF TypeOK, NoZeroDt
<1>2. Min({dt[s] : s \in Sensors}) \in Nat \ {0}
  <2> DEFINE S == {dt[s] : s \in Sensors}
  <2>1. S # {} /\ S \in SUBSET Nat /\ 0 \notin S
    BY <1>1, SteppingAssumption DEF Configured
  <2> HIDE DEF S
  <2>2. Min(S) \in S
    BY <2>1, LeastNatural
  <2>3. Min(S) \in Nat \ {0}
    BY <2>1, <2>2
  <2>4. QED
    BY <2>3 DEF S
<1>3. ASSUME NEW q \in Parts PROVE DtOf(q) \in Nat \ {0}
  <2>1. CASE q = "turbulence"
    BY <1>1, <2>1 DEF DtOf, Configured
  <2>2. CASE q = "ahars"
    BY <1>2, <2>2 DEF DtOf
  <2>3. CASE q # "turbulence" /\ q # "ahars"
    BY <1>1, <2>3 DEF DtOf, Configured, Parts
  <2>4. QED
    BY <2>1, <2>2, <2>3
<1>4. QED
  BY <1>1, <1>3 DEF Configured

LEMMA ClocksInit == Init => Clocks
<1> SUFFICES ASSUME Init PROVE Clocks
  OBVIOUS
<1>1. TypeOK
  BY TypeOKInit
<1>2. NoZeroDt
  BY DEF Init, Accepted, NoZeroDt
<1>3. t = 0 /\ EnvSeen = 0 /\ \A i \in Platforms : Seen(i) = 0
  BY DEF Init, EnvSeen, Seen
<1>4. EnvClocks
  BY <1>1, <1>2, <1>3, PositiveDt, UpdatedNow DEF Init, EnvClocks
<1>5. ASSUME NEW i \in Platforms PROVE ClocksOf(i)
  <2>1. \A q \in Parts : last[i][q] = 0
    BY DEF Init
  <2>2. QED
    BY <1>1, <1>2, <1>3, <2>1, PositiveDt, UpdatedNow DEF ClocksOf, Parts
<1>6. QED
  BY <1>2, <1>4, <1>5 DEF Clocks, PlatformClocks

\* An object that is not due misses nothing.
LEMMA NotDueStillCurrent ==
    ASSUME TypeOK, t >= DT, NEW d \in Nat \ {0}, NEW s \in Nat,
           Divides(DT, d), ~IsDue(d), Current(s, t - DT, d)
    PROVE  Current(s, t, d)
<1>1. t \in Nat /\ DT \in Nat \ {0} /\ t % DT = 0 /\ d % DT = 0 /\ t % d # 0
  BY Constants DEF TypeOK, Divides, IsDue
<1>2. s >= (t - DT) - ((t - DT) % d)
  BY DEF Current
<1>3. s >= t - (t % d)
  BY <1>1, <1>2, StillOnTime
<1>4. QED
  BY <1>3 DEF Current

LEMMA EnvClocksNext ==
    TypeOK /\ InTime /\ NoZeroDt /\ EnvClocks /\ [Next]_vars => EnvClocks'
<1> SUFFICES ASSUME TypeOK, InTime, NoZeroDt, EnvClocks, [Next]_vars PROVE EnvClocks'
  OBVIOUS
<1>1. /\ t \in Nat /\ DT \in Nat \ {0}
      /\ \A o \in EnvObjs : dt[o] \in Nat \ {0} /\ lastEnv[o] \in Nat
  BY Constants, PositiveDt DEF TypeOK
<1>2. CASE Reset
  <2>1. EnvSeen' = 0 /\ dt' = dt /\ \A o \in EnvObjs : lastEnv'[o] = 0
    BY <1>2 DEF Reset, EnvSeen
  <2>2. \A o \in EnvObjs : Current(0, 0, dt[o])
    BY <1>1, UpdatedNow
  <2>3. QED
    BY <2>1, <2>2 DEF EnvClocks
<1>3. CASE Tick
  <2>1. EnvSeen = t /\ EnvSeen' = t /\ dt' = dt /\ lastEnv' = lastEnv
    BY <1>1, <1>3 DEF Tick, EnvSeen
  <2>2. QED
    BY <2>1 DEF EnvClocks
<1>4. CASE StepEnvironment
  <2>1. EnvSeen = t - DT /\ EnvSeen' = t /\ dt' = dt /\ t >= DT
    BY <1>4 DEF StepEnvironment, EnvSeen, InTime
  <2>2. ASSUME NEW o \in EnvObjs, Divides(DT, dt[o])
        PROVE  Current(lastEnv'[o], t, dt[o])
    <3>1. lastEnv'[o] = IF IsDue(dt[o]) THEN t ELSE lastEnv[o]
      BY <1>4 DEF StepEnvironment
    <3>2. Current(lastEnv[o], t - DT, dt[o])
      BY <2>1, <2>2 DEF EnvClocks
    <3>3. CASE IsDue(dt[o])
      BY <1>1, <3>1, <3>3, UpdatedNow
    <3>4. CASE ~IsDue(dt[o])
      <4>1. Current(lastEnv[o], t, dt[o])
        BY <1>1, <2>1, <2>2, <3>2, <3>4, NotDueStillCurrent
      <4>2. QED
        BY <3>1, <3>4, <4>1
    <3>5. QED
      BY <3>3, <3>4
  <2>3. QED
    BY <2>1, <2>2 DEF EnvClocks
<1>5. CASE BeginStep \/ StepPlatform \/ StepPlatformThrows \/ TickDone
           \/ \E i \in Platforms, x \in 1 .. Cells : SetX(i, x)
  <2>1. phase # "environment" /\ phase' # "environment" /\ UNCHANGED <<dt, t, lastEnv>>
    BY <1>5 DEF BeginStep, StepPlatform, AfterPlatform, StepPlatformThrows, TickDone, SetX
  <2>2. QED
    BY <2>1 DEF EnvClocks, EnvSeen
<1>6. CASE UNCHANGED vars
  BY <1>6 DEF vars, EnvClocks, EnvSeen
<1>7. QED
  BY <1>2, <1>3, <1>4, <1>5, <1>6 DEF Next

\* A part that is due is due in all it is nested in.
LEMMA DueTogether ==
    ASSUME TypeOK, NoZeroDt, NEW q \in Parts, Nested(q)
    PROVE  /\ Divides(DT, DtOf(q))
           /\ IsDue(DtOf(q)) => IsDue(dt["platform"])
           /\ IsDue(DtOf(q)) /\ q \in Sensors => IsDue(DtOf("ahars"))
<1>1. /\ t \in Nat /\ DT \in Nat \ {0} /\ dt["platform"] \in Nat \ {0}
      /\ DtOf(q) \in Nat \ {0} /\ DtOf("ahars") \in Nat \ {0}
      /\ DtOf("platform") = dt["platform"]
  <2>1. "ahars" \in Parts
    BY DEF Parts
  <2>2. DtOf("platform") = dt["platform"]
    BY DEF DtOf
  <2>3. QED
    BY <2>1, <2>2, Constants, PositiveDt DEF TypeOK
<1>2. dt["platform"] % DT = 0 /\ DtOf(q) % dt["platform"] = 0
  BY <1>1 DEF Nested, Divides
<1>3. DtOf(q) % DT = 0
  BY <1>1, <1>2, MultipleOfMultiple
<1>4. t % DtOf(q) = 0 => t % dt["platform"] = 0
  BY <1>1, <1>2, MultipleOfMultiple
<1>5. t % DtOf(q) = 0 /\ q \in Sensors => t % DtOf("ahars") = 0
  <2>1. q \in Sensors => DtOf(q) % DtOf("ahars") = 0
    BY DEF Nested, Divides
  <2>2. QED
    BY <1>1, <2>1, MultipleOfMultiple
<1>6. QED
  BY <1>3, <1>4, <1>5 DEF Divides, IsDue

\* The platform that is stepped has now seen the time, the others saw no more.
LEMMA SeenAfterStep ==
    ASSUME TypeOK, StepPlatform, NEW i \in Platforms
    PROVE  /\ i = next => Seen(i) = t - DT /\ Seen(i)' = t
           /\ i # next => Seen(i)' = Seen(i)
<1>1. /\ N \in Nat /\ next \in 1 .. N /\ i \in 1 .. N
      /\ phase = "platforms" /\ t' = t /\ AfterPlatform
  BY Constants DEF StepPlatform, TypeOK, Platforms
<1>2. CASE next < N
  <2>1. next' = next + 1 /\ phase' = "platforms"
    BY <1>1, <1>2 DEF AfterPlatform
  <2>2. i >= next' <=> (i >= next /\ i # next)
    BY <1>1, <2>1
  <2>3. i = next => i >= next
    BY <1>1
  <2>4. QED
    BY <1>1, <2>1, <2>2, <2>3 DEF Seen
<1>3. CASE ~(next < N)
  <2>1. phase' = "tickDone"
    BY <1>1, <1>3 DEF AfterPlatform
  <2>2. i >= next <=> i = next
    BY <1>1, <1>3
  <2>3. QED
    BY <1>1, <2>1, <2>2 DEF Seen
<1>4. QED
  BY <1>2, <1>3

\* The platform that is stepped: it and its parts are current afterwards.
LEMMA SteppedOnTime ==
    ASSUME TypeOK, t >= DT, NoZeroDt, StepPlatform, NEW i \in Platforms, i = next,
           ClocksOf(i)
    PROVE  ClocksOf(i)'
<1>1. /\ t \in Nat /\ dt["platform"] \in Nat \ {0}
      /\ \A q \in Parts : DtOf(q) \in Nat \ {0} /\ last[i][q] \in Nat
      /\ last \in [Platforms -> [Parts -> 0 .. t]]
      /\ valid \in [Platforms -> BOOLEAN]
      /\ "platform" \in Parts /\ DtOf("platform") = dt["platform"]
  <2>1. last[i] \in [Parts -> 0 .. t] /\ t \in Nat
    BY DEF TypeOK
  <2>2. \A q \in Parts : last[i][q] \in Nat
    BY <2>1
  <2>3. "platform" \in Parts /\ DtOf("platform") = dt["platform"]
    BY DEF Parts, DtOf
  <2>4. QED
    BY <2>1, <2>2, <2>3, PositiveDt DEF TypeOK
<1>2. Seen(i) = t - DT /\ Seen(i)' = t /\ UNCHANGED <<dt, t>>
  BY SeenAfterStep DEF StepPlatform
<1>3. \A q \in Parts : DtOf(q)' = DtOf(q) /\ Nested(q)' = Nested(q)
  BY <1>2 DEF DtOf, Nested
<1>4. Nested("platform") => Current(last[i]["platform"], t - DT, dt["platform"])
  BY <1>2 DEF ClocksOf
<1>5. valid[i] => \A q \in Parts : Nested(q) => Current(last[i][q], t - DT, DtOf(q))
  BY <1>2 DEF ClocksOf
<1>6. SUFFICES
        /\ Nested("platform") => Current(last'[i]["platform"], t, dt["platform"])
        /\ valid'[i] => \A q \in Parts : Nested(q) => Current(last'[i][q], t, DtOf(q))
  <2>1. ClocksOf(i)' <=>
          /\ Nested("platform")' => Current(last'[i]["platform"], Seen(i)', dt'["platform"])
          /\ valid'[i] => \A q \in Parts :
                Nested(q)' => Current(last'[i][q], Seen(i)', DtOf(q)')
    BY DEF ClocksOf
  <2>2. QED
    BY <1>1, <1>2, <1>3, <2>1
<1>7. ASSUME NEW q \in Parts, Nested(q), ~IsDue(DtOf(q)),
             Current(last[i][q], t - DT, DtOf(q))
      PROVE  Current(last[i][q], t, DtOf(q))
  <2>1. Divides(DT, DtOf(q))
    BY <1>7, DueTogether
  <2>2. QED
    BY <1>1, <1>7, <2>1, NotDueStillCurrent
<1>8. CASE ~IsDue(dt["platform"]) /\ UNCHANGED <<last, X, valid>>
  <2>1. \A q \in Parts : Nested(q) => ~IsDue(DtOf(q))
    BY <1>8, DueTogether
  <2>2. Nested("platform") => Current(last[i]["platform"], t, dt["platform"])
    BY <1>1, <1>4, <1>7, <2>1
  <2>3. valid[i] => \A q \in Parts : Nested(q) => Current(last[i][q], t, DtOf(q))
    BY <1>5, <1>7, <2>1
  <2>4. QED
    BY <1>8, <2>2, <2>3
<1>9. CASE /\ ~valid[i] /\ UNCHANGED valid
           /\ last' = [last EXCEPT ![i]["platform"] = t]
  <2>1. last'[i]["platform"] = t
    BY <1>1, <1>9
  <2>2. QED
    BY <1>1, <1>9, <2>1, UpdatedNow
<1>10. ASSUME NEW x, NEW ok \in BOOLEAN, valid[i], IsDue(dt["platform"]), MovesTo(i, x, ok)
       PROVE  /\ Nested("platform") => Current(last'[i]["platform"], t, dt["platform"])
              /\ valid'[i] => \A q \in Parts : Nested(q) => Current(last'[i][q], t, DtOf(q))
  <2>1. /\ valid'[i] = ok
        /\ \A q \in Parts : last'[i][q] = IF q \in Reached(ok) /\ IsDue(DtOf(q)) THEN t
                                          ELSE last[i][q]
    BY <1>1, <1>10 DEF MovesTo
  <2>2. Nested("platform") => Current(last'[i]["platform"], t, dt["platform"])
    <3>1. "platform" \in Reached(ok)
      BY DEF Reached
    <3>2. last'[i]["platform"] = t
      BY <1>1, <1>10, <2>1, <3>1
    <3>3. QED
      BY <1>1, <3>2, UpdatedNow
  <2>3. ASSUME ok, NEW q \in Parts, Nested(q) PROVE Current(last'[i][q], t, DtOf(q))
    <3>1. CASE IsDue(DtOf(q))
      <4>1. q \in Sensors => IsDue(DtOf("ahars"))
        BY <2>3, <3>1, DueTogether
      <4>2. q \in Reached(ok)
        BY <2>3, <4>1 DEF Reached, Parts
      <4>3. last'[i][q] = t
        BY <2>1, <3>1, <4>2
      <4>4. QED
        BY <1>1, <4>3, UpdatedNow
    <3>2. CASE ~IsDue(DtOf(q))
      <4>1. last'[i][q] = last[i][q]
        BY <2>1, <3>2
      <4>2. Current(last[i][q], t - DT, DtOf(q))
        BY <1>5, <1>10, <2>3
      <4>3. QED
        BY <1>7, <2>3, <3>2, <4>1, <4>2
    <3>3. QED
      BY <3>1, <3>2
  <2>4. QED
    BY <2>1, <2>2, <2>3
<1>11. QED
  <2>1. CASE /\ IsDue(dt["platform"]) /\ valid[i]
             /\ \E x \in Moves(X[i]) : MovesTo(i, x, InLimits(x) /\ ~InCollision(i, x))
    <3>1. PICK x \in Moves(X[i]) : MovesTo(i, x, InLimits(x) /\ ~InCollision(i, x))
      BY <2>1
    <3>2. (InLimits(x) /\ ~InCollision(i, x)) \in BOOLEAN
      OBVIOUS
    <3>3. QED
      BY <1>10, <2>1, <3>1, <3>2
  <2>2. QED
    BY <1>8, <1>9, <2>1 DEF StepPlatform

LEMMA PlatformClocksNext ==
    TypeOK /\ InTime /\ NoZeroDt /\ PlatformClocks /\ [Next]_vars => PlatformClocks'
<1> SUFFICES ASSUME TypeOK, InTime, NoZeroDt, PlatformClocks, [Next]_vars,
                    ~thrown', NEW i \in Platforms
             PROVE  ClocksOf(i)'
  BY DEF PlatformClocks
<1>1. /\ t \in Nat /\ DT \in Nat \ {0} /\ dt["platform"] \in Nat \ {0}
      /\ \A q \in Parts : DtOf(q) \in Nat \ {0}
      /\ "platform" \in Parts
  <2>1. t \in Nat /\ DT \in Nat \ {0}
    BY Constants DEF TypeOK
  <2>2. "platform" \in Parts
    BY DEF Parts
  <2>3. QED
    BY <2>1, <2>2, PositiveDt
\* Steps that leave the platform and what it has seen as they are.
<1>2. ASSUME UNCHANGED <<dt, thrown>>, last'[i] = last[i], valid'[i] = valid[i],
             Seen(i)' = Seen(i)
      PROVE  ClocksOf(i)'
  <2>1. ClocksOf(i)
    BY <1>2 DEF PlatformClocks
  <2>2. QED
    BY <1>2, <2>1 DEF ClocksOf, Nested, DtOf
<1>3. CASE Reset
  <2>1. /\ Seen(i)' = 0 /\ dt' = dt
        /\ \A q \in Parts : last'[i][q] = 0 /\ DtOf(q)' = DtOf(q)
    BY <1>3 DEF Reset, Seen, DtOf
  <2>2. \A q \in Parts : Current(0, 0, DtOf(q))
    BY <1>1, UpdatedNow
  <2>3. Current(0, 0, dt["platform"])
    BY <1>1, UpdatedNow
  <2>4. QED
    BY <1>1, <2>1, <2>2, <2>3 DEF ClocksOf
<1>4. ASSUME NEW j \in Platforms, NEW x \in 1 .. Cells, SetX(j, x)
      PROVE  ClocksOf(i)'
  <2>1. /\ UNCHANGED <<dt, t, phase, next, thrown>> /\ phase = "idle"
        /\ last \in [Platforms -> [Parts -> 0 .. t]]
        /\ valid \in [Platforms -> BOOLEAN]
    BY <1>4 DEF SetX, TypeOK
  <2>2. Seen(i)' = t /\ Seen(i) = t
    BY <2>1 DEF Seen
  <2>3. CASE i = j
    <3>1. \A q \in Parts : last'[i][q] = IF q = "platform" THEN last[i][q] ELSE t
      BY <1>4, <2>1, <2>3 DEF SetX
    <3>2. Nested("platform") => Current(last[i]["platform"], t, dt["platform"])
      BY <2>1, <2>2 DEF PlatformClocks, ClocksOf
    <3>3. \A q \in Parts : DtOf(q)' = DtOf(q) /\ Nested(q)' = Nested(q)
      BY <2>1 DEF DtOf, Nested
    <3>4. DtOf("platform") = dt["platform"]
      BY DEF DtOf
    <3>5. \A q \in Parts : Nested(q) => Current(last'[i][q], t, DtOf(q))
      BY <1>1, <3>1, <3>2, <3>4, UpdatedNow
    <3>6. QED
      BY <1>1, <2>1, <2>2, <3>3, <3>4, <3>5 DEF ClocksOf
  <2>4. CASE i # j
    <3>1. last'[i] = last[i] /\ valid'[i] = valid[i]
      BY <1>4, <2>1, <2>4 DEF SetX
    <3>2. QED
      BY <1>2, <2>1, <2>2, <3>1
  <2>5. QED
    BY <2>3, <2>4
<1>5. CASE BeginStep
  BY <1>2, <1>5 DEF BeginStep, Seen
<1>6. CASE Tick
  <2>1. Seen(i) = t /\ Seen(i)' = t
    BY <1>1, <1>6 DEF Tick, Seen
  <2>2. QED
    BY <1>2, <1>6, <2>1 DEF Tick
<1>7. CASE StepEnvironment
  <2>1. i >= 1
    BY DEF Platforms
  <2>2. Seen(i) = t - DT /\ Seen(i)' = t - DT
    BY <1>7, <2>1 DEF StepEnvironment, Seen
  <2>3. QED
    BY <1>2, <1>7, <2>2 DEF StepEnvironment
<1>8. CASE StepPlatform
  <2>1. t >= DT /\ thrown' = thrown /\ dt' = dt
    BY <1>8 DEF StepPlatform, InTime
  <2>2. CASE i = next
    BY <1>8, <2>1, <2>2, SteppedOnTime DEF PlatformClocks
  <2>3. CASE i # next
    <3>1. last'[i] = last[i] /\ valid'[i] = valid[i]
      BY <1>8, <2>3 DEF StepPlatform, MovesTo, TypeOK
    <3>2. QED
      BY <1>2, <1>8, <2>1, <2>3, <3>1, SeenAfterStep
  <2>4. QED
    BY <2>2, <2>3
<1>9. CASE StepPlatformThrows
  BY <1>9 DEF StepPlatformThrows
<1>10. CASE TickDone
  BY <1>2, <1>10 DEF TickDone, Seen
<1>11. CASE UNCHANGED vars
  BY <1>2, <1>11 DEF vars, Seen
<1>12. QED
  BY <1>3, <1>4, <1>5, <1>6, <1>7, <1>8, <1>9, <1>10, <1>11 DEF Next

LEMMA NoZeroDtNext == NoZeroDt /\ [Next]_vars => NoZeroDt'
<1> SUFFICES ASSUME NoZeroDt, [Next]_vars PROVE NoZeroDt'
  OBVIOUS
<1>1. dt' = dt
  BY DEF Next, Reset, SetX, BeginStep, Tick, StepEnvironment, StepPlatform,
         StepPlatformThrows, TickDone, vars
<1>2. QED
  BY <1>1 DEF NoZeroDt

\* What the constructors let through.
AllAccepted == \A q \in Configured : Accepted(dt[q])

\* The second disjunct of the test is true of the dt's below DT: these are all
\* that it accepts besides the multiples of DT.
LEMMA AcceptedIs ==
    ASSUME NEW d \in Nat
    PROVE  Accepted(d) <=> d # 0 /\ (Divides(DT, d) \/ d < DT)
<1>1. DT \in Nat \ {0} /\ d % DT \in 0 .. DT - 1
  BY Constants, DivMod
<1>2. ASSUME d < DT PROVE d % DT = d
  <2>1. d = DT * 0 + d /\ d \in 0 .. DT - 1
    BY <1>1, <1>2
  <2>2. QED
    BY <1>1, <2>1, ModUnique
<1>3. d - (d % DT) = 0 => d < DT
  BY <1>1
<1>4. d < DT => d - (d % DT) = 0
  BY <1>2
<1>5. QED
  BY <1>3, <1>4 DEF Accepted, Divides

LEMMA AllAcceptedNext == AllAccepted /\ [Next]_vars => AllAccepted'
<1> SUFFICES ASSUME AllAccepted, [Next]_vars PROVE AllAccepted'
  OBVIOUS
<1>1. dt' = dt
  BY DEF Next, Reset, SetX, BeginStep, Tick, StepEnvironment, StepPlatform,
         StepPlatformThrows, TickDone, vars
<1>2. QED
  BY <1>1 DEF AllAccepted

(* Environment objects whose dt is not below DT, and parts of platforms    *)
(* whose dt's nest, are updated as often as their dt's promise, for any    *)
(* dt's the constructors accept, any interleaving of resets, calls of setX *)
(* and steps, and whoever dropped out.                                     *)
THEOREM ClocksOnTime == Spec => []UpdatedOnTime
<1> DEFINE Inv == TypeOK /\ InTime /\ Clocks /\ AllAccepted
<1>1. Init => Inv
  BY TypeOKInit, ClocksInit DEF Init, AllAccepted
<1>2. Inv /\ [Next]_vars => Inv'
  BY TypeOKNext, EnvClocksNext, PlatformClocksNext, NoZeroDtNext, AllAcceptedNext
     DEF Clocks
<1>3. Inv => UpdatedOnTime
  <2> SUFFICES ASSUME Inv PROVE UpdatedOnTime
    OBVIOUS
  <2>1. phase \in {"platforms", "tickDone"} => EnvSeen = t
    BY DEF EnvSeen
  <2>2. phase = "tickDone" => \A i \in Platforms : Seen(i) = t
    BY DEF Seen
  <2>3. ASSUME NEW o \in EnvObjs, dt[o] >= DT
        PROVE  Divides(DT, dt[o])
    <3>1. dt[o] \in Nat /\ Accepted(dt[o])
      BY Constants DEF TypeOK, Configured, AllAccepted
    <3>2. DT \in Nat
      BY Constants
    <3>3. QED
      BY <2>3, <3>1, <3>2, AcceptedIs
  <2>4. QED
    BY <2>1, <2>2, <2>3 DEF Clocks, EnvClocks, PlatformClocks, ClocksOf, Current,
                            UpdatedOnTime, OnTime
<1> HIDE DEF Inv
<1>4. QED
  BY <1>1, <1>2, <1>3, PTL DEF Spec
=============================================================================
