------------------------------ MODULE Receiver ------------------------------
(***************************************************************************)
(* The GPS receiver of sim/platforms/sensors/gps/GPSReceiverG.m: a delay   *)
(* line of true positions, and a solution of the observations that goes to *)
(* Earth-centred coordinates and back.  Receiver and satellite noise are   *)
(* left out: the least squares solution is the position it is solved for.  *)
(***************************************************************************)
EXTENDS Geodesy

CONSTANTS
    Origin,  \* originUTMcoords of the area
    Delay    \* delay, in time steps of the receiver

ASSUME ReceiverAssumption ==
    /\ Delay \in Nat
    /\ Origin \in [E : Int, N : Int, zone : (0 .. 6) \X (0 .. 9), band : 0 .. 19, h : Int]

Along(x, v, k)  == [i \in 1 .. 3 |-> x[i] + k * v[i]]
Between(x, y)   == [i \in 1 .. 3 |-> y[i] - x[i]]

\* solveFromObservations
Solve(x) == EcefToNed(NedToEcef(x, Origin), Origin)

\* A plausible slip: the history is one step older than it should be.
SetStateGpsShifted(x, v) ==
    [line |-> [i \in 1 .. Delay |-> Along(x, v, i - Delay - 1)],
     est  |-> Along(x, v, -Delay),
     past |-> Along(x, v, -(Delay + 1)),
     vel  |-> v]

\* setState: a history is made up from the velocity v (per receiver step).
SetStateGps(x, v) ==
    [line |-> [i \in 1 .. Delay |-> Along(x, v, i - Delay)],
     est  |-> Along(x, v, -Delay),
     past |-> Along(x, v, -(Delay + 1)),
     vel  |-> v]

\* reset solves both made-up positions.
ResetGps(g) ==
    LET past == Solve(g.past)
        est  == Solve(g.est)
    IN [line |-> g.line, est |-> est, past |-> past, vel |-> Between(past, est)]

\* A plausible slip: the line only grows.
UpdateGpsUndrained(g, x) ==
    LET chain == Append(g.line, x)
        est   == Solve(chain[1])
    IN [line |-> chain, est |-> est, past |-> g.est, vel |-> Between(g.est, est)]

\* update: the newest position enters the line, the oldest one is solved.
UpdateGps(g, x) ==
    LET chain == Append(g.line, x)
        est   == Solve(chain[1])
    IN [line |-> Tail(chain), est |-> est, past |-> g.est, vel |-> Between(g.est, est)]
=============================================================================
