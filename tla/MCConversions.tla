--------------------------- MODULE MCConversions ---------------------------
(***************************************************************************)
(* An instance of Conversions for TLC: a projection that stretches degrees *)
(* of longitude and nothing else, origins in both hemispheres, on the      *)
(* equator, near a zone edge, on both sides of the date line and near a    *)
(* pole; inputs on every boundary the code tests.                          *)
(***************************************************************************)
EXTENDS Conversions

MCKrueger == [q \in Quadrant |-> IF q[1] = 90 THEN <<90, 0>> ELSE <<q[1], 10 * q[2]>>]
MCInverse == [g \in (0 .. 89) \X {10 * l : l \in 0 .. MaxLam} |-> <<g[1], g[2] \div 10>>]

At(lat, lon) == [lat |-> lat, lon |-> lon, h |-> 2]

MCSites == {At(51, -1), At(-34, 5), At(0, 10), At(10, 180), At(-1, -179), At(89, 20)}

MCInputs == {At(51, -1), At(51, 0), At(-72, 6), At(-73, 179), At(0, 3), At(0, -7), At(1, 180),
             At(-1, -180), At(90, 40), At(-90, -3), At(5, 190), At(71, -177), At(95, 10)}

MCCoefs == {1, -3}

MCFlights == {PlaceOf(c.lat, c.lon, 1) : c \in MCInputs}
             \cup {PlaceOf(s.lat, s.lon + d, 3) : s \in MCSites, d \in {-6, 3, 9}}
             \cup {PlaceOf(88, 203, 3), PlaceOf(-33, 5, 3), PlaceOf(1, 11, 3), PlaceOf(-1, 178, 3)}
=============================================================================
