------------------------------ MODULE Stepping ------------------------------
(***************************************************************************)
(* One QRSim.step seen from the inside: the ticks of the loop, the order   *)
(* in which environment objects and platforms are stepped, who is updated  *)
(* at which tick (sim/core/Steppable.m), the nested clocks of a platform's *)
(* parts, and how platforms get out of the limits or collide               *)
(* (sim/platforms/Pelican.m).                                              *)
(*                                                                         *)
(* Time is counted in grains, DT of them to a tick: time steps that are no *)
(* multiple of DT can then be written down, as a configuration can.        *)
(***************************************************************************)
EXTENDS Naturals, FiniteSetsExt

CONSTANTS
    EnvObjs,   \* the environment objects
    Sensors,   \* the sensors of the AHARS
    N,         \* number of platforms
    DT,        \* the simulation timestep, in grains
    TaskDt,    \* dt of the task, in grains
    Dts,       \* the dt's a configuration may give to an object
    Cells,     \* positions 1..Cells are within the limits, Cells + 1 is not
    MaxT       \* bound: the time TLC explores, in grains

ASSUME SteppingAssumption ==
    /\ {N, DT, Cells} \subseteq Nat \ {0}
    /\ TaskDt \in Nat \ {0} /\ TaskDt % DT = 0
    /\ Dts \subseteq Nat
    /\ MaxT \in Nat
    /\ Sensors # {}

VARIABLES
    dt,      \* the dt the configuration gives to each object
    t,       \* simState.t
    phase,   \* where QRSim.step is
    next,    \* the platform to be stepped next
    ticks,   \* ticks of the loop still to do
    lastEnv, \* history: when each environment object was last updated or reset
    last,    \* history: the same for each platform and its parts
    X,       \* position of each platform
    valid,   \* Pelican.valid of each platform
    thrown   \* history: has a step thrown since the latest reset?

vars == <<dt, t, phase, next, ticks, lastEnv, last, X, valid, thrown>>

Platforms == 1 .. N
Parts     == {"platform", "turbulence", "ahars", "gpsreceiver"} \cup Sensors
\* What a configuration gives a dt to: the turbulence takes that of the
\* platform, the AHARS the least of its sensors'.
Configured == EnvObjs \cup {"platform", "gpsreceiver"} \cup Sensors

-----------------------------------------------------------------------------
\* The constructor's test.  The second disjunct, there to tolerate rounding,
\* subtracts the remainder from dt where DT is meant.
Accepted(d) == /\ d # 0
               /\ d % DT = 0 \/ d - (d % DT) = 0

DtOf(q) == CASE q = "turbulence" -> dt["platform"]
             [] q = "ahars"      -> Min({dt[s] : s \in Sensors})
             [] OTHER            -> dt[q]

\* A plausible slip: the time the tick began with is looked at.
IsDueBefore(d) == t > 0 /\ (t - DT) % d = 0

\* Steppable.step updates if t is a multiple of the object's dt.
IsDue(d) == t % d = 0

\* A plausible slip: a pair is only looked at once.
InCollisionLater(i, x) == \E j \in Platforms : j > i /\ X[j] = x

\* Platforms closer than the collision distance are in the same cell.  The
\* validity of the others is not looked at.
InCollision(i, x) == \E j \in Platforms \ {i} : X[j] = x
InLimits(x) == x \in 1 .. Cells

\* The ODE moves a platform to a cell near by.
Moves(x) == {y \in 1 .. Cells + 1 : y <= x + 1 /\ x <= y + 1}

-----------------------------------------------------------------------------
(* After init or reset: t is 0, everything has just been reset and the     *)
(* task has placed the platforms.                                          *)
Placements == [Platforms -> 1 .. Cells]

Init == /\ dt \in [Configured -> Dts]
        /\ \A q \in Configured : Accepted(dt[q])
        /\ t = 0 /\ phase = "idle" /\ next = 1 /\ ticks = 0
        /\ lastEnv = [o \in EnvObjs |-> 0]
        /\ last = [i \in Platforms |-> [q \in Parts |-> 0]]
        /\ X \in Placements
        /\ valid = [i \in Platforms |-> TRUE]
        /\ thrown = FALSE

Reset == /\ phase = "idle"
         /\ t' = 0
         /\ lastEnv' = [o \in EnvObjs |-> 0]
         /\ last' = [i \in Platforms |-> [q \in Parts |-> 0]]
         /\ X' \in Placements
         /\ valid' = [i \in Platforms |-> TRUE]
         /\ thrown' = FALSE
         /\ UNCHANGED <<dt, phase, next, ticks>>

(* A caller's setX: any place within the limits, collisions unchecked; all *)
(* parts are reset and the platform is valid again.                        *)
SetX(i, x) ==
    /\ phase = "idle"
    /\ InLimits(x)
    /\ X' = [X EXCEPT ![i] = x]
    /\ valid' = [valid EXCEPT ![i] = TRUE]
    /\ last' = [last EXCEPT ![i] = [q \in Parts |-> IF q = "platform" THEN @[q] ELSE t]]
    /\ UNCHANGED <<dt, t, phase, next, ticks, lastEnv, thrown>>

(* QRSim.step: TaskDt / DT ticks.                                          *)
BeginStep ==
    /\ phase = "idle"
    /\ t + TaskDt <= MaxT
    /\ ticks' = TaskDt \div DT
    /\ phase' = "tick"
    /\ UNCHANGED <<dt, t, next, lastEnv, last, X, valid, thrown>>

Tick ==
    /\ phase = "tick"
    /\ t' = t + DT
    /\ phase' = "environment"
    /\ UNCHANGED <<dt, next, ticks, lastEnv, last, X, valid, thrown>>

(* All environment objects are stepped, then the task.                     *)
StepEnvironment ==
    /\ phase = "environment"
    /\ lastEnv' = [o \in EnvObjs |-> IF IsDue(dt[o]) THEN t ELSE lastEnv[o]]
    /\ phase' = "platforms"
    /\ next' = 1
    /\ UNCHANGED <<dt, t, ticks, last, X, valid, thrown>>

\* The parts Pelican.update reaches: the turbulence before the dynamics, the
\* others only if the new state is valid, a sensor only through the AHARS.
Reached(ok) == {"platform", "turbulence"}
                   \cup (IF ok THEN {"gpsreceiver", "ahars"} ELSE {})
                   \cup (IF ok /\ IsDue(DtOf("ahars")) THEN Sensors ELSE {})

\* A platform that moves to x.
MovesTo(i, x, ok) ==
    /\ X' = [X EXCEPT ![i] = x]
    /\ valid' = [valid EXCEPT ![i] = ok]
    /\ last' = [last EXCEPT ![i] =
                  [q \in Parts |-> IF q \in Reached(ok) /\ IsDue(DtOf(q)) THEN t ELSE @[q]]]

\* A plausible slip: one platform too many.
AfterPlatformLate ==
    IF next <= N THEN next' = next + 1 /\ UNCHANGED phase
                 ELSE next' = 1 /\ phase' = "tickDone"

AfterPlatform ==
    IF next < N THEN next' = next + 1 /\ UNCHANGED phase
                ELSE next' = 1 /\ phase' = "tickDone"

(* Steppable.step of a platform, and Pelican.update if it is due.          *)
StepPlatform ==
    /\ phase = "platforms"
    /\ \/ /\ ~IsDue(dt["platform"])
          /\ UNCHANGED <<last, X, valid>>
       \/ /\ IsDue(dt["platform"])
          /\ ~valid[next]
          /\ last' = [last EXCEPT ![next]["platform"] = t]
          /\ UNCHANGED <<X, valid>>
       \/ /\ IsDue(dt["platform"])
          /\ valid[next]
          /\ \E x \in Moves(X[next]) :
                 MovesTo(next, x, InLimits(x) /\ ~InCollision(next, x))
    /\ AfterPlatform
    /\ UNCHANGED <<dt, t, ticks, lastEnv, thrown>>

(* A platform told to treat an invalid state as an error throws: the       *)
(* platforms after it, and the ticks to come, are left out.                *)
StepPlatformThrows ==
    /\ phase = "platforms"
    /\ IsDue(dt["platform"])
    /\ valid[next]
    /\ \E x \in Moves(X[next]) :
           /\ ~InLimits(x) \/ InCollision(next, x)
           /\ MovesTo(next, x, FALSE)
    /\ phase' = "idle" /\ next' = 1 /\ ticks' = 0 /\ thrown' = TRUE
    /\ UNCHANGED <<dt, t, lastEnv>>

(* The loop goes on or ends (and the task's reward is updated).            *)
TickDone ==
    /\ phase = "tickDone"
    /\ ticks' = ticks - 1
    /\ phase' = IF ticks' = 0 THEN "idle" ELSE "tick"
    /\ UNCHANGED <<dt, t, next, lastEnv, last, X, valid, thrown>>

Next == \/ Reset
        \/ \E i \in Platforms, x \in 1 .. Cells : SetX(i, x)
        \/ BeginStep \/ Tick \/ StepEnvironment
        \/ StepPlatform \/ StepPlatformThrows \/ TickDone

Spec == Init /\ [][Next]_vars

-----------------------------------------------------------------------------
(* Type invariant: the clocks, positions and flags of a running simulation. *)
TypeOK ==
    /\ dt \in [Configured -> Dts]
    /\ t \in 0 .. MaxT /\ t % DT = 0
    /\ phase \in {"idle", "tick", "environment", "platforms", "tickDone"}
    /\ next \in Platforms
    /\ ticks \in 0 .. TaskDt \div DT /\ (phase # "idle" => ticks > 0)
    /\ lastEnv \in [EnvObjs -> 0 .. t]
    /\ last \in [Platforms -> [Parts -> 0 .. t]]
    /\ X \in [Platforms -> 1 .. Cells + 1]
    /\ valid \in [Platforms -> BOOLEAN]
    /\ thrown \in BOOLEAN

Divides(a, b) == b % a = 0

\* The dt of part q is a multiple of that of everything it is stepped by.
Nested(q) == /\ Divides(DT, DtOf("platform"))
             /\ Divides(DtOf("platform"), DtOf(q))
             /\ q \in Sensors => Divides(DtOf("platform"), DtOf("ahars"))
                                     /\ Divides(DtOf("ahars"), DtOf(q))

\* No multiple of d has gone by since time s.
OnTime(s, d) == s >= t - (t % d)

(* An environment object is as recent as its dt promises by the time the   *)
(* platforms of the same tick read it, unless its dt is below DT: those    *)
(* are all that the constructor's test lets through against Steppable.m:31 *)
(* ("must be a multiple of the simulation timestep"), and are missed.  The *)
(* parts of a valid platform are as recent when the tick is over, if their *)
(* dt's are multiples of those they are nested in, resets, setX and other  *)
(* platforms that dropped out notwithstanding.  (A step that throws does   *)
(* make the platforms after the one that threw miss an update.)            *)
UpdatedOnTime ==
    /\ phase \in {"platforms", "tickDone"} =>
           \A o \in EnvObjs : dt[o] >= DT => OnTime(lastEnv[o], dt[o])
    /\ phase = "tickDone" /\ ~thrown =>
           \A i \in Platforms : valid[i] =>
               \A q \in Parts : Nested(q) => OnTime(last[i][q], DtOf(q))

(* When the platforms have moved in a tick, no two that are still valid    *)
(* are in collision, in whatever order they moved and whoever else had     *)
(* already dropped out or was put there by setX.                           *)
NoValidPairCollides ==
    phase = "tickDone" /\ IsDue(dt["platform"]) =>
        \A i, j \in Platforms : i # j /\ valid[i] /\ valid[j] => X[i] # X[j]
=============================================================================
