---------------------------- MODULE Conversions ----------------------------
(***************************************************************************)
(* A session with the coordinate conversions: an origin is fixed as the    *)
(* tasks fix theirs, columns of coordinates are given as geodetic or as    *)
(* ned coordinates, and passed from one conversion to the next.  Each call *)
(* converts all columns or, when it refuses one, none.                     *)
(***************************************************************************)
EXTENDS Geodesy, Series

CONSTANTS
    Sites,    \* geodetic coordinates an origin may have
    Inputs,   \* geodetic coordinates a caller may give
    Flights,  \* places a platform may be at, relative to an origin
    MaxCols,  \* bound: columns to a call
    Coefs,    \* coefficients of a series or polynomial
    MaxPow    \* bound: how many of them

ASSUME ConversionsAssumption ==
    /\ Sites \subseteq [lat : -90 .. 90, lon : -180 .. 180, h : Int]
    /\ Inputs \subseteq [lat : -179 .. 179, lon : Int, h : Int]
    /\ \A p \in Flights : IsPlace(p)
    /\ Coefs \subseteq Int
    /\ {MaxCols, MaxPow} \subseteq Nat

VARIABLES
    site,    \* geodetic coordinates of the origin
    origin,  \* environment.area.originutmcoords
    place,   \* history: the places given, one per column
    coords,  \* what the latest conversion returned, and in which system
    astray,  \* history: has a call been made outside what it can do?
    refused, \* did the latest call throw?
    sum      \* the latest evaluation of a series

vars == <<site, origin, place, coords, astray, refused, sum>>

Columns(S) == UNION {[1 .. n -> S] : n \in 1 .. MaxCols}
Each(Op(_), s) == [i \in DOMAIN s |-> Op(s[i])]
NoSum == [of |-> "none"]
Rows  == {<<s, 0>> : s \in {1, 2}} \cup {<<1, 1>>}

-----------------------------------------------------------------------------
\* Reference: northing and easting of a place on the sheet of a meridian.
Centred(n) == LET r == n % 360 IN IF r > 180 THEN r - 360 ELSE r

Sheet(p, m) == IF AbsOf(p.lat) = 90 THEN <<p.lat, 0>>
               ELSE Project(p.lat, Centred(p.turn - m))

Meridian == CentralMeridian(ZoneNumber(origin.zone))
SitePlace == PlaceOf(site.lat, site.lon, site.h)

OnMap(p) == LET d == AbsOf(Centred(p.turn - Meridian))
            IN AbsOf(p.lat) = 90 \/ d <= MaxLam \/ d >= 180 - MaxLam

TrueNed(p) == LET a == Sheet(p, Meridian) b == Sheet(SitePlace, Meridian)
              IN <<a[1] - b[1], a[2] - b[2], site.h - p.h>>

\* c denotes p in the coordinate system sys.
Denotes(sys, c, p) ==
    CASE sys = "lla"  -> PlaceOf(c.lat, c.lon, c.h) = p
      [] sys = "ecef" -> c = p
      [] sys = "ned"  -> c = TrueNed(p)
      [] sys = "utm"  -> /\ <<c.N - (IF c.band \in 10 .. 19 THEN 0 ELSE FN), c.E - FE>>
                             = Sheet(p, CentralMeridian(ZoneNumber(c.zone)))
                         /\ c.h = p.h

-----------------------------------------------------------------------------
Idle == coords.sys = "none" /\ sum = NoSum

Init == /\ site \in Sites
        /\ origin = LlaToUtm(site)
        /\ place = <<>> /\ coords = [sys |-> "none", val |-> <<>>]
        /\ astray = FALSE /\ refused = FALSE
        /\ sum = NoSum

\* A caller has geodetic coordinates, within the range of llaToUtm or not...
GiveLla ==
    /\ Idle
    /\ \E s \in Columns(Inputs) :
          /\ place' = Each(LAMBDA c : PlaceOf(c.lat, c.lon, c.h), s)
          /\ coords' = [sys |-> "lla", val |-> s]
    /\ UNCHANGED <<site, origin, astray, refused, sum>>

\* ... or the position of a platform, on the sheet of the origin.
GiveNed ==
    /\ Idle
    /\ \E s \in Columns({p \in Flights : OnMap(p)}) :
          /\ place' = s
          /\ coords' = [sys |-> "ned", val |-> Each(TrueNed, s)]
    /\ UNCHANGED <<site, origin, astray, refused, sum>>

\* The columns, or the sum, are done with.
Discard == /\ ~Idle
           /\ place' = <<>> /\ coords' = [sys |-> "none", val |-> <<>>]
           /\ astray' = FALSE /\ refused' = FALSE
           /\ sum' = NoSum
           /\ UNCHANGED <<site, origin>>

\* A plausible slip: all columns are counted, one is converted.
ConvertedFirst(from, to, val) ==
    /\ coords.sys = from
    /\ coords' = [sys |-> to, val |-> <<val[1]>>]
    /\ refused' = FALSE
    /\ UNCHANGED <<site, origin, place, sum>>

Converted(from, to, val) ==
    /\ coords.sys = from
    /\ coords' = [sys |-> to, val |-> val]
    /\ refused' = FALSE
    /\ UNCHANGED <<site, origin, place, sum>>

\* The letter of the equator is a northern one, its northing a southern one.
CallLlaToUtm ==
    /\ coords.sys = "lla"
    /\ \/ /\ \A i \in DOMAIN coords.val : Acceptable(coords.val[i])
          /\ Converted("lla", "utm", Each(LlaToUtm, coords.val))
          /\ astray' = (astray \/ \E i \in DOMAIN coords.val : coords.val[i].lat = 0)
       \/ /\ \E i \in DOMAIN coords.val : ~Acceptable(coords.val[i])
          /\ refused' = TRUE
          /\ UNCHANGED <<site, origin, place, coords, astray, sum>>

CallUtmToLla == /\ Converted("utm", "lla", Each(UtmToLla, coords.val))
                /\ UNCHANGED astray

CallLlaToEcef == /\ Converted("lla", "ecef", Each(LlaToEcef, coords.val))
                 /\ UNCHANGED astray

CallEcefToLla == /\ Converted("ecef", "lla", Each(EcefToLla, coords.val))
                 /\ UNCHANGED astray

\* Right for an origin off the equator, wherever the point is.
CallNedToEcef == /\ Converted("ned", "ecef", Each(LAMBDA c : NedToEcef(c, origin), coords.val))
                 /\ astray' = (astray \/ site.lat = 0)

\* Right for a point whose own zone and hemisphere are the origin's.
SameSheet(p) ==
    /\ p.lat > 0 <=> site.lat > 0
    /\ AbsOf(p.lat) = 90 \/ (CentralMeridian(Zone(Longitude(p))) - Meridian) % 360 = 0

CallEcefToNed ==
    /\ Converted("ecef", "ned", Each(LAMBDA c : EcefToNed(c, origin), coords.val))
    /\ astray' = (astray \/ \E i \in DOMAIN coords.val : ~SameSheet(coords.val[i]))

\* The series behind Krueger, and the polynomials of the orbits.
SumSeries ==
    /\ Idle
    /\ \E c \in UNION {[1 .. n -> Coefs] : n \in 1 .. MaxPow}, x \in -2 .. 2, y \in -1 .. 1 :
          \/ \E s \in Rows :
                sum' = [of |-> "series", coef |-> c, s |-> s, x |-> <<x, y>>,
                        out |-> Clenshaw(c, s, <<x, y>>)]
          \/ \E m \in {1, 2} :
                sum' = [of |-> "polynomial", coef |-> c, x |-> x,
                        out |-> Horner(c, m * x + y, <<y, m>>)]
    /\ UNCHANGED <<site, origin, place, coords, astray, refused>>

Next == \/ GiveLla \/ GiveNed \/ Discard
        \/ CallLlaToUtm \/ CallUtmToLla \/ CallLlaToEcef \/ CallEcefToLla
        \/ CallNedToEcef \/ CallEcefToNed
        \/ SumSeries

Spec == Init /\ [][Next]_vars

-----------------------------------------------------------------------------
Systems == {"none", "lla", "utm", "ecef", "ned"}

\* Types of the session; a column more or less would be one lost by a call.
TypeOK == /\ site \in Sites /\ origin = LlaToUtm(site)
          /\ coords.sys \in Systems
          /\ DOMAIN coords.val = DOMAIN place
          /\ {astray, refused} \subseteq BOOLEAN

\* Whatever chain of conversions the coordinates have been through, across
\* zone edges, the date line, a pole or the far side of the Earth, they denote
\* the places the caller gave; unless a call was made where it cannot work:
\* llaToUtm on the equator, ned with an origin there, ecefToNed off the sheet.
SamePlace == ~astray => \A i \in DOMAIN place : Denotes(coords.sys, coords.val[i], place[i])

\* What a conversion returns, right or wrong, no other conversion refuses: a
\* longitude just across the date line is wrapped back.  Only the caller's own
\* input is refused.
Chainable == refused => \A i \in DOMAIN place : coords.val[i] \in Inputs

\* The unrolled recurrences add up what the series says, for an even and an
\* odd number of terms and with an imaginary part; polyval is the polynomial.
SeriesSummed ==
    /\ sum.of = "series" => sum.out = TrigonometricSum(sum.coef, sum.s, sum.x)
    /\ sum.of = "polynomial" => sum.out = PolynomialSum(sum.coef, sum.x)
=============================================================================
