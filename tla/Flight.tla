------------------------------- MODULE Flight -------------------------------
(***************************************************************************)
(* A platform in the air (sim/platforms/Pelican.m): the equations of       *)
(* motion move it, it may leave its limits, and its GPS receiver, which    *)
(* runs Div times slower, reports where it was Delay receiver steps ago.   *)
(* Dynamics and Receiver are its parts; this module is setX and update.    *)
(***************************************************************************)
EXTENDS Dynamics, Receiver

CONSTANTS
    Div,      \* time steps of the platform to one of the receiver
    Within,   \* positions within stateLimits and off every obstacle
    Vels,     \* velocities, per time step of the platform
    Commands, \* throttle commands
    Accs,     \* angular accelerations, per time step
    MaxAcc,   \* the largest of them
    SpinRange,\* angular rates up to this are within stateLimits
    Spins,    \* angular rates a caller of setX may give
    Weight,   \* MASS*G
    Thrusts   \* thrusts a caller of setX may give

ASSUME FlightAssumption ==
    /\ Div \in Nat \ {0}
    /\ Within \subseteq [1 .. 3 -> Int] /\ Vels \subseteq [1 .. 3 -> Int]
    /\ Commands \subseteq Command
    /\ MaxAcc \in Nat /\ Accs \subseteq -MaxAcc .. MaxAcc
    /\ SpinRange \in Nat /\ Spins \subseteq -SpinRange .. SpinRange
    /\ Weight \in Int /\ Thrusts \subseteq Int

VARIABLES
    X,       \* position
    F,       \* thrust
    p,       \* one of the two limited angular rates
    spun,    \* history: the rate the latest setX left it with
    command, \* history: the command of the latest step
    valid,   \* Pelican.valid
    gps,     \* the receiver
    phase,   \* time since the receiver was last due
    track,   \* history: position k steps ago, made up before the latest setX
    aligned  \* history: was the latest setX at a time the receiver is due, and
             \* has no step thrown since?

vars == <<X, F, p, spun, command, valid, gps, phase, track, aligned>>

Window == 0 .. (Delay + 2) * Div - 1

-----------------------------------------------------------------------------
\* setX moves the platform to x and makes up a past in which it came with v.
Placed(x, v) ==
    /\ X' = x
    /\ gps' = ResetGps(SetStateGps(x, [i \in 1 .. 3 |-> Div * v[i]]))
    /\ valid' = TRUE
    /\ track' = [k \in Window |-> Along(x, v, -k)]
    /\ aligned' = (phase' = 0)

Still == [i \in 1 .. 3 |-> 0]

\* setX with 6 numbers, which leaves velocities and rates zero; or with 12 or 13,
\* the angular rates among them and the last of them the thrust.
SetX == /\ UNCHANGED <<phase, command>>
        /\ \E x \in Within :
              \/ Placed(x, Still) /\ F' = Weight /\ p' = 0
              \/ \E v \in Vels : /\ Placed(x, v)
                                /\ F' \in Thrusts \cup {Weight} /\ p' \in Spins
        /\ spun' = p'

\* The platform may come to be in any state a first setX leaves.
Init == \E x \in Within, v \in Vels, f \in Thrusts \cup {Weight}, r \in Spins :
            /\ X = x /\ F = f /\ p = r /\ spun = r
            /\ command \in Commands
            /\ valid = TRUE
            /\ gps = ResetGps(SetStateGps(x, [i \in 1 .. 3 |-> Div * v[i]]))
            /\ phase = 0
            /\ track = [k \in Window |-> Along(x, v, -k)]
            /\ aligned = TRUE

Passes == phase' = (phase + 1) % Div

\* update: dynamics, then the check, then the sensors that are due.
Update ==
    /\ valid
    /\ Passes
    /\ \E v \in Vels : X' = Along(X, v, 1)
    /\ p' \in {NextSpin(p, acc1, acc2) : acc1, acc2 \in Accs}
    /\ valid' = (X' \in Within /\ Absolute(p') <= SpinRange)
    /\ gps' = IF valid' /\ phase' = 0 THEN UpdateGps(gps, X') ELSE gps
    /\ track' = [k \in Window |-> IF k = 0 THEN X' ELSE track[k - 1]]
    /\ \E c \in Commands : command' = c /\ F' = NextThrust(F, c)
    /\ UNCHANGED <<spun, aligned>>

\* An invalid platform is stepped and does nothing.
Idle == /\ ~valid
        /\ Passes
        /\ UNCHANGED <<X, F, p, spun, command, valid, gps, track, aligned>>

\* A control out of its limits, of this platform or of one before it: time has
\* passed already, and a receiver that was due is not updated.
StepThrows == /\ Passes
              /\ aligned' = FALSE
              /\ UNCHANGED <<X, F, p, spun, command, valid, gps, track>>

Next == SetX \/ Update \/ Idle \/ StepThrows

Spec == Init /\ [][Next]_vars

-----------------------------------------------------------------------------
Position == [1 .. 3 -> Int]

\* Types of the state; the line has room for Delay positions between updates.
TypeOK == /\ X \in Position /\ F \in Int /\ {p, spun} \subseteq Int
          /\ command \in Commands
          /\ {valid, aligned} \subseteq BOOLEAN
          /\ phase \in 0 .. Div - 1
          /\ track \in [Window -> Position]
          /\ Len(gps.line) = Delay

\* While the commands let it, the thrust nears the goal of its command and
\* never crosses it: not by the step that is cut to whole newtons, not by the
\* ceiling of the battery, not by the second stage of the integrator.
NeverPastGoal ==
    [][\/ F <= F' /\ F' <= Goal(command')
       \/ Goal(command') <= F' /\ F' <= F
       \/ ~Update]_vars

\* Off the ground and below the battery's ceiling a step changes the thrust by
\* at most Rate, but for half of what the integer abs lets through: the stage it
\* does so in is the last of the two.
RateLimited ==
    [][(~command'.low /\ F <= command'.cap /\ Update)
          => 2 * Absolute(F' - F) <= Rate + Newton + (IF Rate <= Newton THEN 0 ELSE Rate)]_vars

\* On either side the angular rate exceeds its limit by at most what one step
\* adds, the cut-off being at the start of each stage only, or by what setX gave
\* it: outward of the limit nothing takes it any further, from wherever it comes.
SpinLimited == /\ p <= MaxSpin + MaxAcc \/ p <= spun
               /\ p >= -(MaxSpin + MaxAcc) \/ p >= spun

\* The receiver reports, with its velocity, where the platform was Delay
\* receiver steps before it was last due - also while the positions are still
\* those setX made up - if setX fell on such a time and every step since went
\* through.  (A step that throws passes a time the receiver is due without it.)
ReadsDelayed ==
    (valid /\ aligned) =>
        LET was == Solve(track[phase + Delay * Div])
            had == Solve(track[phase + (Delay + 1) * Div])
        IN gps.est = was /\ gps.past = had /\ gps.vel = Between(had, was)

\* Position x is on the near side of the map of the origin's zone, and the place
\* it denotes is in that zone and hemisphere.
InZone(x) ==
    LET e  == NedToEcef(x, Origin)
        yx == <<Origin.N + x[1] - (IF Northern(Origin) THEN 0 ELSE FN), Origin.E + x[2] - FE>>
    IN /\ \E q \in Quadrant : Krueger[q] = <<AbsOf(yx[1]), AbsOf(yx[2])>>
       /\ Zone(Longitude(e)) = ZoneNumber(Origin.zone)
       /\ e.lat > 0 <=> Northern(Origin)

\* What it reports is true as long as the flight stays in the UTM zone and the
\* hemisphere of the origin.  (Elsewhere ecefToNed answers in another grid.)
TrueInZone ==
    (valid /\ aligned /\ \A k \in Window : InZone(track[k])) =>
        gps.est = track[phase + Delay * Div]
=============================================================================
