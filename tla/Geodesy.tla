------------------------------ MODULE Geodesy ------------------------------
(***************************************************************************)
(* The coordinate conversions of sim/core/functions: geodetic (lla), UTM,  *)
(* Earth-centred (ecef) and the north-east-down coordinates of a task's    *)
(* origin (ned).  What they decide is kept: zones, letters, hemispheres,   *)
(* wraps, the far side of the Earth, the poles.  What they compute is one  *)
(* function, Krueger, from degrees of latitude and of longitude off the    *)
(* central meridian to northing and easting; its series are in Series.     *)
(*                                                                         *)
(* Angles are whole degrees.  Northing counts the degrees of the quarter   *)
(* meridian, 90 at a pole.                                                 *)
(***************************************************************************)
EXTENDS Integers, Sequences

CONSTANTS
    MaxLam,  \* Krueger is used up to this many degrees off the meridian
    Krueger, \* <<degrees north, degrees off>> |-> <<northing, easting>>
    Inverse, \* <<northing, easting>> |-> <<degrees north, degrees off>>
    FE,      \* the false easting
    FN       \* the false northing of the southern hemisphere

Quadrant == (0 .. 90) \X (0 .. MaxLam)

ASSUME KruegerAssumption ==
    /\ MaxLam \in 3 .. 89
    /\ FE \in Int
    /\ FN \in Int /\ FN > 90   \* 10000 km, and the quarter meridian is less
    /\ Krueger \in [Quadrant -> (0 .. 90) \X Nat]
    /\ \A q \in Quadrant : /\ q[1] = 90 => Krueger[q] = <<90, 0>>
                           /\ q[1] # 90 => Krueger[q][1] < 90
                           /\ Krueger[q][1] = 0 <=> q[1] = 0
                           /\ Krueger[q][2] = 0 <=> q[2] = 0 \/ q[1] = 90
    \* The two series, of one another's coefficients, invert each other.
    /\ \A q \in Quadrant : q[1] # 90 => /\ Krueger[q] \in DOMAIN Inverse
                                       /\ Inverse[Krueger[q]] = q
    /\ \A g \in DOMAIN Inverse : Inverse[g] \in Quadrant

AbsOf(n)  == IF n < 0 THEN -n ELSE n
SignOf(n) == IF n < 0 THEN -1 ELSE 1

-----------------------------------------------------------------------------
\* A place: what all four systems denote.  Longitude is a turn, 0 at a pole;
\* a latitude beyond a pole is one on the far side.
PlaceOf(lat, lon, h) ==
    LET over == AbsOf(lat) > 90
    IN [lat  |-> IF over THEN SignOf(lat) * 180 - lat ELSE lat,
        turn |-> IF AbsOf(lat) = 90 THEN 0 ELSE IF over THEN (lon + 180) % 360 ELSE lon % 360,
        h    |-> h]

IsPlace(p) == /\ p \in [lat : -90 .. 90, turn : 0 .. 359, h : Int]
              /\ AbsOf(p.lat) = 90 => p.turn = 0

\* atan2 of an Earth-centred position.  On the date line its sign is that of
\* a rounding error; both signs are the same place and give the same zone edge.
Longitude(p) == IF p.turn > 180 THEN p.turn - 360 ELSE p.turn

-----------------------------------------------------------------------------
\* (int)((lon/6)+31): a truncation, so the date line, seen from the east, is
\* in a zone 61.
Zone(lon) == (lon + 186) \div 6

CentralMeridian(z) == 6 * z - 183

\* A plausible slip: the last southern letter is taken for a northern one.
NorthernFromM(u) == u.band >= 9

\* getLetter, counted from 'C' without 'I' and 'O': 10 is the 'N', the first
\* letter that the way back takes for the northern hemisphere.
Band(lat)     == LET b == (lat + 80) \div 8 IN IF b < 0 THEN 0 ELSE IF b > 19 THEN 19 ELSE b
Northern(u)   == u.band > 9
Digits(z)     == <<z \div 10, z % 10>>
ZoneNumber(d) == 10 * d[1] + d[2]

\* lon - lon0 in (-180, 180].
FromMeridian(lon, m) == IF lon - m > 180 THEN lon - m - 360
                        ELSE IF lon - m <= -180 THEN lon - m + 360
                        ELSE lon - m

\* A plausible slip: no wrap, the date line is far from every test.
WithMeridianUnwrapped(lon, m) == lon + m

\* lon + lon0 in [-180, 180).
WithMeridian(lon, m) == IF lon + m >= 180 THEN lon + m - 360
                        ELSE IF lon + m < -180 THEN lon + m + 360
                        ELSE lon + m

-----------------------------------------------------------------------------
\* Forward: northing from the equator and easting from the central meridian.
Project(lat, lon) ==
    LET backside == AbsOf(lon) > 90
        k        == Krueger[<<AbsOf(lat), IF backside THEN 180 - AbsOf(lon) ELSE AbsOf(lon)>>]
        latsign  == IF backside /\ lat = 0 THEN -1 ELSE SignOf(lat)
    IN <<latsign * (IF backside THEN 180 - k[1] ELSE k[1]), SignOf(lon) * k[2]>>

\* False northing and easting; (y>0) ? y : y+FN sends the equator to FN.
Grid(lat, lon) ==
    LET yx == Project(lat, lon)
    IN [N |-> IF yx[1] > 0 THEN yx[1] ELSE yx[1] + FN, E |-> yx[2] + FE]

\* Backward: the pole first, where r = 0.
Unproject(yx) ==
    LET backside == AbsOf(yx[1]) > 90
        g        == <<IF backside THEN 180 - AbsOf(yx[1]) ELSE AbsOf(yx[1]), AbsOf(yx[2])>>
        p        == IF g # <<90, 0>> /\ g \in DOMAIN Inverse THEN Inverse[g] ELSE <<90, 0>>
    IN <<SignOf(yx[1]) * p[1],
         SignOf(yx[2]) * (IF backside THEN 180 - p[2] ELSE p[2])>>

-----------------------------------------------------------------------------
\* llaToUtm, one column.
Acceptable(lla) == lla.lat \in -90 .. 90 /\ lla.lon \in -180 .. 180

LlaToUtm(lla) ==
    LET z == Zone(lla.lon)
        g == Grid(lla.lat, FromMeridian(lla.lon, CentralMeridian(z)))
    IN [E |-> g.E, N |-> g.N, zone |-> Digits(z), band |-> Band(lla.lat), h |-> lla.h]

\* utmToLla, one column.
UtmToLla(u) ==
    LET ll == Unproject(<<IF Northern(u) THEN u.N ELSE u.N - FN, u.E - FE>>)
    IN [lat |-> ll[1],
        lon |-> WithMeridian(ll[2], CentralMeridian(ZoneNumber(u.zone))), h |-> u.h]

\* llaToEcef and ecefToLla: neither looks at the range of its input.
LlaToEcef(lla) == PlaceOf(lla.lat, lla.lon, lla.h)
EcefToLla(p)   == [lat |-> p.lat, lon |-> Longitude(p), h |-> p.h]

\* nedToEcef: the grid of the origin, carried on in its zone and hemisphere.
NedToEcef(ned, o) ==
    LlaToEcef(UtmToLla([o EXCEPT !.N = @ + ned[1], !.E = @ + ned[2], !.h = @ - ned[3]]))

\* A plausible slip: up for down.
EcefToNedUp(p, o) ==
    LET lon == Longitude(p)
        g   == Grid(p.lat, FromMeridian(lon, CentralMeridian(Zone(lon))))
    IN <<g.N - o.N, g.E - o.E, p.h - o.h>>

\* ecefToNed: the grid of the zone and hemisphere the point itself is in,
\* minus the origin's numbers, whatever grid those are of.
EcefToNed(p, o) ==
    LET lon == Longitude(p)
        g   == Grid(p.lat, FromMeridian(lon, CentralMeridian(Zone(lon))))
    IN <<g.N - o.N, g.E - o.E, o.h - p.h>>
=============================================================================
