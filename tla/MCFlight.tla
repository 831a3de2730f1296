------------------------------ MODULE MCFlight ------------------------------
(***************************************************************************)
(* An instance of Flight for TLC: a track from west to east across the     *)
(* edge of the origin's zone, one degree of longitude to a step.           *)
(***************************************************************************)
EXTENDS Flight

MCKrueger == [q \in Quadrant |-> IF q[1] = 90 THEN <<90, 0>> ELSE <<q[1], 10 * q[2]>>]
MCInverse == [g \in (0 .. 89) \X {10 * l : l \in 0 .. MaxLam} |-> <<g[1], g[2] \div 10>>]

MCOrigin == LlaToUtm([lat |-> 51, lon |-> -1, h |-> 2])

MCWithin == {<<0, east, -1>> : east \in {-10, 0, 10}}
MCVels   == {<<0, 10, 0>>, <<0, -10, 0>>}

MCCommands == {[low |-> TRUE,  target |-> 4, cap |-> 7],
               [low |-> FALSE, target |-> 4, cap |-> 12],
               [low |-> FALSE, target |-> 10, cap |-> 7]}

MCAccs == {-1, 1}
=============================================================================
