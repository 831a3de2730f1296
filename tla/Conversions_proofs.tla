------------------------- MODULE Conversions_proofs -------------------------
(***************************************************************************)
(* Theorems about Conversions, for any projection that satisfies           *)
(* KruegerAssumption, any origin, and any coordinates a caller gives.      *)
(***************************************************************************)
EXTENDS Conversions, WellFoundedInduction, TLAPS

LEMMA Constants ==
    /\ MaxLam \in 3 .. 89 /\ FE \in Int /\ FN \in Int /\ FN > 90
    /\ Sites \subseteq [lat : -90 .. 90, lon : -180 .. 180, h : Int]
    /\ Inputs \subseteq [lat : -179 .. 179, lon : Int, h : Int]
    /\ \A p \in Flights : IsPlace(p)
  BY KruegerAssumption, ConversionsAssumption

-----------------------------------------------------------------------------
(* Arithmetic: turns.                                                      *)

LEMMA Turn ==
    ASSUME NEW n \in Int
    PROVE  /\ n % 360 \in 0 .. 359
           /\ \E k \in Int : n = 360 * k + (n % 360)
  BY Z3

LEMMA TurnUnique ==
    ASSUME NEW n \in Int, NEW k \in Int, NEW r \in 0 .. 359, n = 360 * k + r
    PROVE  n % 360 = r
  BY Z3

LEMMA TurnShift ==
    ASSUME NEW n \in Int, NEW m \in Int
    PROVE  ((n % 360) - m) % 360 = (n - m) % 360 /\ ((n % 360) + m) % 360 = (n + m) % 360
  BY Z3

\* A difference of turns, centred.
LEMMA CentredIs ==
    ASSUME NEW n \in Int
    PROVE  /\ Centred(n) \in -179 .. 180
           /\ Centred(n) % 360 = n % 360
           /\ n \in -179 .. 180 => Centred(n) = n
  BY Z3 DEF Centred

LEMMA CentredSame ==
    ASSUME NEW n \in Int, NEW m \in Int, (n - m) % 360 = 0
    PROVE  Centred(n) = Centred(m)
<1>1. n % 360 = m % 360
  BY Z3
<1>2. QED
  BY <1>1 DEF Centred

\* lon - lon0 and lon + lon0, wrapped, are the same turn.
LEMMA Wraps ==
    ASSUME NEW x \in Int, NEW y \in Int
    PROVE  /\ WithMeridian(x, y) \in Int /\ WithMeridian(x, y) % 360 = (x + y) % 360
           /\ FromMeridian(x, y) \in Int /\ FromMeridian(x, y) % 360 = (x - y) % 360
<1>1. ((x + y) - 360) % 360 = (x + y) % 360 /\ ((x + y) + 360) % 360 = (x + y) % 360
  BY Z3
<1>2. ((x - y) - 360) % 360 = (x - y) % 360 /\ ((x - y) + 360) % 360 = (x - y) % 360
  BY Z3
<1>3. QED
  BY <1>1, <1>2 DEF WithMeridian, FromMeridian

\* A longitude is within three degrees of the meridian of its zone, and the
\* digits of the zone say which one that is.
LEMMA OwnZone ==
    ASSUME NEW lon \in -180 .. 180
    PROVE  LET m == CentralMeridian(Zone(lon)) IN
           /\ m \in -177 .. 183 /\ lon - m \in -3 .. 3
           /\ FromMeridian(lon, m) = lon - m
           /\ ZoneNumber(Digits(Zone(lon))) = Zone(lon)
<1>1. /\ Zone(lon) \in 1 .. 61
      /\ 6 * Zone(lon) <= lon + 186 /\ lon + 186 < 6 * Zone(lon) + 6
  BY Z3 DEF Zone
<1>2. ZoneNumber(Digits(Zone(lon))) = Zone(lon)
  <2>1. ASSUME NEW z \in Nat PROVE 10 * (z \div 10) + (z % 10) = z
    BY Z3
  <2>2. QED
    BY <1>1, <2>1 DEF ZoneNumber, Digits
<1>3. QED
  BY <1>1, <1>2 DEF CentralMeridian, FromMeridian

LEMMA Letters ==
    ASSUME NEW lat \in -90 .. 90
    PROVE  Band(lat) \in 0 .. 19 /\ (Band(lat) > 9 <=> lat >= 0)
  BY Z3 DEF Band

-----------------------------------------------------------------------------
(* The projection and its inverse.                                         *)

LEMMA KruegerIs ==
    ASSUME NEW A \in 0 .. 90, NEW B \in 0 .. MaxLam
    PROVE  /\ Krueger[<<A, B>>][1] \in 0 .. 90 /\ Krueger[<<A, B>>][2] \in Nat
           /\ Krueger[<<A, B>>] = <<Krueger[<<A, B>>][1], Krueger[<<A, B>>][2]>>
           /\ A = 90 => Krueger[<<A, B>>] = <<90, 0>>
           /\ A # 90 => /\ Krueger[<<A, B>>][1] < 90
                        /\ Krueger[<<A, B>>] \in DOMAIN Inverse
                        /\ Inverse[Krueger[<<A, B>>]] = <<A, B>>
           /\ Krueger[<<A, B>>][1] = 0 <=> A = 0
           /\ Krueger[<<A, B>>][2] = 0 <=> B = 0 \/ A = 90
<1>1. <<A, B>> \in Quadrant /\ <<A, B>>[1] = A /\ <<A, B>>[2] = B
  BY Constants DEF Quadrant
<1>2. Krueger[<<A, B>>] \in (0 .. 90) \X Nat
  BY <1>1, KruegerAssumption
<1> DEFINE q == <<A, B>>
<1> HIDE DEF q
<1>3. q \in Quadrant /\ q[1] = A /\ q[2] = B
  BY <1>1 DEF q
<1>4. /\ q[1] = 90 => Krueger[q] = <<90, 0>>
      /\ q[1] # 90 => Krueger[q][1] < 90
      /\ Krueger[q][1] = 0 <=> q[1] = 0
      /\ Krueger[q][2] = 0 <=> q[2] = 0 \/ q[1] = 90
      /\ q[1] # 90 => Krueger[q] \in DOMAIN Inverse /\ Inverse[Krueger[q]] = q
  BY <1>3, KruegerAssumption
<1>5. QED
  BY <1>2, <1>3, <1>4 DEF q

LEMMA KruegerType ==
    ASSUME NEW A \in 0 .. 90, NEW B \in 0 .. MaxLam
    PROVE  /\ Krueger[<<A, B>>][1] \in 0 .. 90 /\ Krueger[<<A, B>>][2] \in Nat
           /\ A = 90 => Krueger[<<A, B>>] = <<90, 0>>
           /\ Krueger[<<A, B>>][1] = 0 <=> A = 0
  BY KruegerIs, ZenonT(30)

Near(lon) == AbsOf(lon) <= MaxLam \/ AbsOf(lon) >= 180 - MaxLam

\* Back from the sheet, on either side of the Earth.
LEMMA RoundTrip ==
    ASSUME NEW lat \in -89 .. 89, NEW lon \in -179 .. 180, Near(lon)
    PROVE  Unproject(Project(lat, lon)) = <<lat, lon>>
<1>1. MaxLam \in 3 .. 89
  BY Constants
<1> DEFINE a  == AbsOf(lat)
           far == AbsOf(lon) > 90
           b  == IF far THEN 180 - AbsOf(lon) ELSE AbsOf(lon)
           k  == Krueger[<<a, b>>]
           ls == IF far /\ lat = 0 THEN -1 ELSE SignOf(lat)
           yx == Project(lat, lon)
<1>2. a \in 0 .. 89 /\ AbsOf(lon) \in 0 .. 180
  BY DEF AbsOf
<1>3. b \in 0 .. MaxLam
  BY <1>1, <1>2 DEF Near
<1>4. /\ k[1] \in 0 .. 89 /\ k[2] \in Nat /\ k = <<k[1], k[2]>>
      /\ k \in DOMAIN Inverse /\ Inverse[k] = <<a, b>>
      /\ k[1] = 0 <=> a = 0
      /\ k[2] = 0 <=> b = 0
  <2> HIDE DEF a, b
  <2>1. a \in 0 .. 90 /\ a # 90
    BY <1>2
  <2>2. /\ k[1] \in 0 .. 90 /\ k[2] \in Nat
        /\ k = <<k[1], k[2]>>
        /\ k[1] < 90 /\ k \in DOMAIN Inverse /\ Inverse[k] = <<a, b>>
        /\ k[1] = 0 <=> a = 0
        /\ k[2] = 0 <=> b = 0 \/ a = 90
    BY <1>3, <2>1, KruegerIs, ZenonT(30)
  <2> HIDE DEF k
  <2>3. QED
    BY <2>1, <2>2
<1>5. yx = <<ls * (IF far THEN 180 - k[1] ELSE k[1]), SignOf(lon) * k[2]>>
  BY DEF Project
<1>6. k # <<90, 0>>
  BY <1>4
<1> HIDE DEF k, yx
<1>7. AbsOf(yx[2]) = k[2] /\ (SignOf(yx[2]) = SignOf(lon) \/ b = 0)
  BY <1>4, <1>5 DEF AbsOf, SignOf
<1>8. CASE ~far
  <2>1. b = AbsOf(lon) /\ ls = SignOf(lat) /\ yx[1] = SignOf(lat) * k[1]
    BY <1>5, <1>8
  <2>2. AbsOf(yx[1]) = k[1] /\ SignOf(yx[1]) = SignOf(lat)
    BY <1>2, <1>4, <2>1 DEF AbsOf, SignOf
  <2>3. Unproject(yx) = <<SignOf(yx[1]) * a, SignOf(yx[2]) * b>>
    <3>1. ~(AbsOf(yx[1]) > 90) /\ <<AbsOf(yx[1]), AbsOf(yx[2])>> = k
      BY <1>4, <1>7, <2>2
    <3>2. QED
      BY <1>4, <1>6, <3>1 DEF Unproject
  <2>4. SignOf(yx[1]) * a = lat
    BY <2>2 DEF AbsOf, SignOf
  <2>5. SignOf(yx[2]) * b = lon
    BY <1>7, <2>1 DEF AbsOf, SignOf
  <2>6. QED
    BY <2>3, <2>4, <2>5 DEF yx
<1>9. CASE far
  <2>1. b = 180 - AbsOf(lon) /\ yx[1] = ls * (180 - k[1]) /\ ls \in {-1, 1}
    BY <1>5, <1>9 DEF SignOf
  <2>2. AbsOf(yx[1]) = 180 - k[1] /\ SignOf(yx[1]) = ls
    BY <1>4, <2>1 DEF AbsOf, SignOf
  <2>3. Unproject(yx) = <<SignOf(yx[1]) * a, SignOf(yx[2]) * (180 - b)>>
    <3>1. AbsOf(yx[1]) > 90 /\ <<180 - AbsOf(yx[1]), AbsOf(yx[2])>> = k
      BY <1>4, <1>7, <2>2
    <3>2. QED
      BY <1>4, <1>6, <3>1 DEF Unproject
  <2>4. SignOf(yx[1]) * a = lat
    BY <2>1, <2>2 DEF AbsOf, SignOf
  <2>5. b = 0 => SignOf(yx[2]) = 1 /\ lon = 180
    BY <1>4, <1>5, <2>1 DEF AbsOf, SignOf
  <2>6. SignOf(yx[2]) * (180 - b) = lon
    BY <1>7, <2>1, <2>5 DEF AbsOf, SignOf
  <2>7. QED
    BY <2>3, <2>4, <2>6 DEF yx
<1>10. QED
  BY <1>8, <1>9
-----------------------------------------------------------------------------
(* One conversion of one column.                                           *)

Lla == [lat : Int, lon : Int, h : Int]

OnSheet(p, m) == AbsOf(p.lat) = 90 \/ Near(Centred(p.turn - m))

\* What c must be besides denoting p, so that it can be converted again.
Fit(sys, c, p) ==
    /\ IsPlace(p)
    /\ sys = "lla" => c \in Lla
    /\ sys = "utm" => /\ c.band \in 0 .. 19 /\ ZoneNumber(c.zone) \in Int /\ c.N \in Int
                      /\ OnSheet(p, CentralMeridian(ZoneNumber(c.zone)))
    /\ sys = "ned" => OnSheet(p, Meridian)

LEMMA PlacesAre ==
    ASSUME NEW lat \in -179 .. 179, NEW lon \in Int, NEW h \in Int
    PROVE  IsPlace(PlaceOf(lat, lon, h))
<1>1. lon % 360 \in 0 .. 359 /\ (lon + 180) % 360 \in 0 .. 359
  BY Z3
<1>2. QED
  BY <1>1 DEF IsPlace, PlaceOf, AbsOf, SignOf

LEMMA PlaceIs ==
    ASSUME NEW p, IsPlace(p)
    PROVE  /\ p = [lat |-> p.lat, turn |-> p.turn, h |-> p.h]
           /\ p.lat \in -90 .. 90 /\ p.turn \in 0 .. 359 /\ p.h \in Int
           /\ AbsOf(p.lat) = 90 => p.turn = 0
  BY DEF IsPlace

\* A turn is the place's own if it is the same modulo 360.
LEMMA SamePlaceOf ==
    ASSUME NEW p, IsPlace(p), NEW lon \in Int,
           AbsOf(p.lat) = 90 \/ lon % 360 = p.turn
    PROVE  PlaceOf(p.lat, lon, p.h) = p
<1>1. ~(AbsOf(p.lat) > 90)
  BY PlaceIs DEF AbsOf
<1>2. QED
  BY <1>1, PlaceIs DEF PlaceOf

\* The grid of a point's own zone.
OnOwnGrid(P, lat, lon) ==
    LET m == CentralMeridian(Zone(lon))
        g == Grid(lat, FromMeridian(lon, m))
    IN /\ g.N \in Int /\ g.E \in Int
       /\ <<g.N - (IF lat > 0 THEN 0 ELSE FN), g.E - FE>> = Sheet(P, m)
       /\ OnSheet(P, m)

LEMMA OwnGrid ==
    ASSUME NEW lat \in -90 .. 90, NEW lon \in -180 .. 180, NEW P,
           P.lat = lat, P.turn = (IF AbsOf(lat) = 90 THEN 0 ELSE lon % 360)
    PROVE  OnOwnGrid(P, lat, lon)
<1> DEFINE m == CentralMeridian(Zone(lon))
           l == FromMeridian(lon, m)
           a == AbsOf(lat)
           b == AbsOf(l)
           k == Krueger[<<a, b>>]
           yx == Project(lat, l)
           g  == Grid(lat, l)
<1>1. m \in -177 .. 183 /\ l = lon - m /\ l \in -3 .. 3
  BY OwnZone, ZenonT(30)
<1> HIDE DEF m, l
<1>2. /\ MaxLam \in 3 .. 89 /\ FE \in Int /\ FN \in Int /\ FN > 90
      /\ a \in 0 .. 90 /\ b \in 0 .. MaxLam /\ ~(b > 90)
  BY <1>1, Constants DEF AbsOf
<1>3. /\ k[1] \in 0 .. 90 /\ k[2] \in Nat
      /\ a = 90 => k = <<90, 0>>
      /\ k[1] = 0 <=> a = 0
  <2> HIDE DEF a, b
  <2>1. /\ Krueger[<<a, b>>][1] \in 0 .. 90 /\ Krueger[<<a, b>>][2] \in Nat
        /\ a = 90 => Krueger[<<a, b>>] = <<90, 0>>
        /\ Krueger[<<a, b>>][1] = 0 <=> a = 0
    <3>1. a \in 0 .. 90 /\ b \in 0 .. MaxLam
      BY <1>2
    <3>2. QED
      BY <3>1, KruegerType
  <2>2. QED
    BY <2>1
<1>4. yx = <<SignOf(lat) * k[1], SignOf(l) * k[2]>>
  BY <1>2 DEF Project
<1> HIDE DEF k, yx
<1>5. /\ yx[1] \in Int /\ yx[2] \in Int /\ yx = <<yx[1], yx[2]>>
      /\ yx[1] > 0 <=> lat > 0
  BY <1>3, <1>4 DEF SignOf, AbsOf
<1>6. g = [N |-> IF yx[1] > 0 THEN yx[1] ELSE yx[1] + FN, E |-> yx[2] + FE]
  BY DEF Grid, yx
<1> HIDE DEF g
<1>7. /\ g.N \in Int /\ g.E \in Int
      /\ g.N - (IF lat > 0 THEN 0 ELSE FN) = yx[1] /\ g.E - FE = yx[2]
  BY <1>2, <1>5, <1>6
<1>8. CASE a = 90
  <2>1. yx = <<lat, 0>>
    BY <1>3, <1>4, <1>8 DEF SignOf, AbsOf
  <2>2. QED
    BY <1>7, <1>8, <2>1 DEF Sheet, OnSheet, g, m, l, OnOwnGrid
<1>9. CASE a # 90
  <2>1. Centred(P.turn - m) = l
    <3>1. P.turn = lon % 360
      BY <1>9
    <3>2. (((lon % 360) - m) - (lon - m)) % 360 = 0
      BY <1>1, Z3
    <3>3. Centred((lon % 360) - m) = Centred(lon - m)
      BY <1>1, <3>2, CentredSame
    <3>4. Centred(lon - m) = lon - m
      BY <1>1, CentredIs
    <3>5. QED
      BY <1>1, <3>1, <3>3, <3>4
  <2>2. Sheet(P, m) = yx
    BY <1>9, <2>1 DEF Sheet, yx
  <2>3. OnSheet(P, m)
    BY <1>2, <2>1 DEF OnSheet, Near
  <2>4. QED
    BY <1>5, <1>7, <2>2, <2>3 DEF g, m, l, OnOwnGrid
<1>10. QED
  BY <1>8, <1>9

\* llaToUtm: the letter tells the false northing from the true one, but on the
\* equator.
LEMMA UtmDenotes ==
    ASSUME NEW c \in Lla, Acceptable(c)
    PROVE  LET u == LlaToUtm(c)
               p == PlaceOf(c.lat, c.lon, c.h)
               m == CentralMeridian(ZoneNumber(u.zone))
           IN /\ u.N \in Int /\ u.E \in Int /\ u.h = c.h
              /\ m \in Int
              /\ <<u.N - (IF c.lat > 0 THEN 0 ELSE FN), u.E - FE>> = Sheet(p, m)
              /\ u.band > 9 <=> c.lat >= 0
              /\ c.lat # 0 => Denotes("utm", u, p)
              /\ Fit("utm", u, p)
<1> DEFINE u == LlaToUtm(c)
           p == PlaceOf(c.lat, c.lon, c.h)
           z == Zone(c.lon)
           m == CentralMeridian(z)
           g == Grid(c.lat, FromMeridian(c.lon, m))
<1>1. c.lat \in -90 .. 90 /\ c.lon \in -180 .. 180 /\ c.h \in Int
  BY DEF Acceptable, Lla
<1>2. u = [E |-> g.E, N |-> g.N, zone |-> Digits(z), band |-> Band(c.lat), h |-> c.h]
  BY DEF LlaToUtm
<1>3. ZoneNumber(u.zone) = z /\ m \in -177 .. 183 /\ z \in Int
  <2>1. z \in Int
    BY <1>1, Z3 DEF Zone
  <2>2. ZoneNumber(Digits(z)) = z /\ m \in -177 .. 183
    BY <1>1, OwnZone
  <2>3. u.zone = Digits(z)
    BY <1>2
  <2>4. QED
    BY <2>1, <2>2, <2>3
<1>4. /\ p = [lat |-> c.lat, turn |-> IF AbsOf(c.lat) = 90 THEN 0 ELSE c.lon % 360,
              h |-> c.h]
      /\ p.lat = c.lat /\ p.turn = (IF AbsOf(c.lat) = 90 THEN 0 ELSE c.lon % 360)
      /\ p.h = c.h
  BY <1>1 DEF PlaceOf, AbsOf
<1>5. IsPlace(p)
  <2>1. c.lat \in -179 .. 179 /\ c.lon \in Int
    BY <1>1
  <2>2. QED
    BY <1>1, <2>1, PlacesAre
<1> HIDE DEF p
<1>6. /\ g.N \in Int /\ g.E \in Int
      /\ <<g.N - (IF c.lat > 0 THEN 0 ELSE FN), g.E - FE>> = Sheet(p, m)
      /\ OnSheet(p, m)
  <2>1. c.lat \in -90 .. 90 /\ c.lon \in -180 .. 180
    BY <1>1
  <2>2. p.lat = c.lat /\ p.turn = (IF AbsOf(c.lat) = 90 THEN 0 ELSE c.lon % 360)
    BY <1>4
  <2>3. OnOwnGrid(p, c.lat, c.lon)
    BY <2>1, <2>2, OwnGrid
  <2>4. QED
    BY <2>3 DEF OnOwnGrid
<1>7. Band(c.lat) \in 0 .. 19 /\ (Band(c.lat) > 9 <=> c.lat >= 0)
  BY <1>1, Letters
<1> HIDE DEF g, m, z, u
<1>8. /\ u.N = g.N /\ u.E = g.E /\ u.h = c.h /\ u.band = Band(c.lat)
      /\ CentralMeridian(ZoneNumber(u.zone)) = m /\ ZoneNumber(u.zone) \in Int
  BY <1>2, <1>3 DEF m
<1>9. Fit("utm", u, p)
  BY <1>5, <1>6, <1>7, <1>8 DEF Fit
<1>10. ASSUME c.lat # 0 PROVE Denotes("utm", u, p)
  <2>1. (u.band \in 10 .. 19) <=> c.lat > 0
    BY <1>1, <1>7, <1>8, <1>10
  <2>2. QED
    BY <1>4, <1>6, <1>8, <2>1 DEF Denotes
<1>11. QED
  BY <1>3, <1>6, <1>7, <1>8, <1>9, <1>10 DEF u, p
\* utmToLla: any grid coordinates of the right sheet and hemisphere, however far
\* from the strip of their zone - over a pole too.
LEMMA SheetBack ==
    ASSUME NEW p, IsPlace(p), NEW u, NEW m \in Int, OnSheet(p, m),
           <<IF Northern(u) THEN u.N ELSE u.N - FN, u.E - FE>> = Sheet(p, m),
           CentralMeridian(ZoneNumber(u.zone)) = m, u.h = p.h
    PROVE  UtmToLla(u) \in Lla /\ Denotes("lla", UtmToLla(u), p)
<1> DEFINE l  == Centred(p.turn - m)
           ll == Unproject(Sheet(p, m))
           c  == UtmToLla(u)
<1>1. /\ p.lat \in -90 .. 90 /\ p.turn \in 0 .. 359 /\ p.h \in Int
      /\ AbsOf(p.lat) = 90 => p.turn = 0
  BY PlaceIs
<1>2. c = [lat |-> ll[1], lon |-> WithMeridian(ll[2], m), h |-> p.h]
  BY DEF UtmToLla
<1>3. l \in -179 .. 180 /\ l % 360 = (p.turn - m) % 360
  <2>1. p.turn - m \in Int
    BY <1>1
  <2>2. QED
    BY <2>1, CentredIs
<1>4. CASE AbsOf(p.lat) = 90
  <2>1. Sheet(p, m) = <<p.lat, 0>>
    BY <1>4 DEF Sheet
  <2>2. ll = <<p.lat, 0>>
    BY <1>1, <1>4, <2>1 DEF Unproject, AbsOf, SignOf
  <2>3. WithMeridian(ll[2], m) \in Int
    BY <2>2, Wraps
  <2>4. c \in Lla /\ c.lat = p.lat /\ c.lon \in Int /\ c.h = p.h
    BY <1>1, <1>2, <2>2, <2>3 DEF Lla
  <2>5. PlaceOf(p.lat, c.lon, p.h) = p
    BY <1>4, <2>4, SamePlaceOf
  <2>6. QED
    BY <2>4, <2>5 DEF Denotes
<1>5. CASE AbsOf(p.lat) # 90
  <2>1. p.lat \in -89 .. 89 /\ Near(l)
    BY <1>1, <1>5 DEF AbsOf, OnSheet
  <2>2. ll = <<p.lat, l>>
    <3> HIDE DEF l
    <3>1. Sheet(p, m) = Project(p.lat, l)
      BY <1>5 DEF Sheet, l
    <3>2. QED
      BY <1>3, <2>1, <3>1, RoundTrip
  <2> HIDE DEF l, ll
  <2>3. WithMeridian(l, m) \in Int /\ WithMeridian(l, m) % 360 = (l + m) % 360
    <3>1. l \in Int
      BY <1>3
    <3>2. WithMeridian(l, m) = l + m \/ WithMeridian(l, m) = l + m - 360 \/ WithMeridian(l, m) = l + m + 360
      BY ONLY <3>1, m \in Int DEF WithMeridian
    <3>3. ASSUME NEW x \in Int PROVE (x - 360) % 360 = x % 360 /\ (x + 360) % 360 = x % 360
      BY ONLY x \in Int, Z3
    <3>4. l + m \in Int
      BY ONLY <3>1, m \in Int
    <3>5. QED
      BY ONLY <3>1, <3>2, <3>3, <3>4, m \in Int
  <2>4. (l + m) % 360 = p.turn
    <3>1. (l + m) % 360 = ((l % 360) + m) % 360
      BY <1>3, TurnShift
    <3>2. (((p.turn - m) % 360) + m) % 360 = ((p.turn - m) + m) % 360
      BY <1>1, TurnShift
    <3>3. ((p.turn - m) + m) % 360 = p.turn
      BY <1>1
    <3>4. QED
      BY <1>3, <3>1, <3>2, <3>3
  <2>5. c \in Lla /\ c.lat = p.lat /\ c.lon \in Int /\ c.lon % 360 = p.turn /\ c.h = p.h
    BY <1>1, <1>2, <2>2, <2>3, <2>4 DEF Lla
  <2>6. PlaceOf(p.lat, c.lon, p.h) = p
    BY <2>5, SamePlaceOf
  <2>7. QED
    BY <2>5, <2>6 DEF Denotes
<1>6. QED
  BY <1>4, <1>5

LEMMA UtmBack ==
    ASSUME NEW u, NEW p, Fit("utm", u, p), Denotes("utm", u, p)
    PROVE  Fit("lla", UtmToLla(u), p) /\ Denotes("lla", UtmToLla(u), p)
<1> DEFINE m == CentralMeridian(ZoneNumber(u.zone))
<1>1. IsPlace(p) /\ u.band \in 0 .. 19 /\ ZoneNumber(u.zone) \in Int /\ OnSheet(p, m)
  BY DEF Fit
<1>2. m \in Int
  BY <1>1 DEF CentralMeridian
<1>3. /\ <<u.N - (IF u.band \in 10 .. 19 THEN 0 ELSE FN), u.E - FE>> = Sheet(p, m)
      /\ u.h = p.h
  BY DEF Denotes
<1>4. Northern(u) <=> u.band \in 10 .. 19
  BY <1>1 DEF Northern
<1>5. <<IF Northern(u) THEN u.N ELSE u.N - FN, u.E - FE>> = Sheet(p, m)
  <2>1. CASE Northern(u)
    <3>1. <<u.N - 0, u.E - FE>> = Sheet(p, m)
      BY <1>3, <1>4, <2>1
    <3>2. u.N - 0 = u.N
      BY <2>1 DEF Fit
    <3>3. QED
      BY <3>1, <3>2, <2>1
  <2>2. CASE ~Northern(u)
    BY <1>3, <1>4, <2>2
  <2>3. QED
    BY <2>1, <2>2
<1>6. QED
  BY <1>1, <1>2, <1>3, <1>5, SheetBack DEF Fit

LEMMA EcefBack ==
    ASSUME NEW p, IsPlace(p)
    PROVE  /\ EcefToLla(p) \in Lla /\ Denotes("lla", EcefToLla(p), p)
           /\ Longitude(p) \in -180 .. 180
           /\ AbsOf(p.lat) = 90 \/ Longitude(p) % 360 = p.turn
<1>1. p.lat \in -90 .. 90 /\ p.turn \in 0 .. 359 /\ p.h \in Int
  BY PlaceIs
<1>2. Longitude(p) \in -180 .. 180 /\ Longitude(p) % 360 = p.turn
  BY <1>1, Z3 DEF Longitude
<1>3. EcefToLla(p) = [lat |-> p.lat, lon |-> Longitude(p), h |-> p.h]
  BY DEF EcefToLla
<1>4. PlaceOf(p.lat, Longitude(p), p.h) = p
  <2>1. Longitude(p) \in Int
    BY <1>2
  <2>2. QED
    BY <1>2, <2>1, SamePlaceOf
<1>5. QED
  BY <1>1, <1>2, <1>3, <1>4 DEF Denotes, Lla

\* The origin of the ned coordinates.
OriginGood == site \in Sites /\ origin = LlaToUtm(site)

LEMMA OriginIs ==
    ASSUME OriginGood
    PROVE  /\ origin.N \in Int /\ origin.E \in Int /\ origin.h = site.h
           /\ site.h \in Int /\ site.lat \in -90 .. 90
           /\ Meridian \in Int
           /\ <<origin.N - (IF site.lat > 0 THEN 0 ELSE FN), origin.E - FE>>
                 = Sheet(SitePlace, Meridian)
           /\ origin.band > 9 <=> site.lat >= 0
<1>1. site \in Lla /\ Acceptable(site) /\ site.lat \in -90 .. 90 /\ site.h \in Int
  <2>1. site \in [lat : -90 .. 90, lon : -180 .. 180, h : Int]
    BY Constants DEF OriginGood
  <2>2. QED
    BY <2>1 DEF Lla, Acceptable
<1>2. LET u == LlaToUtm(site)
          p == PlaceOf(site.lat, site.lon, site.h)
          m == CentralMeridian(ZoneNumber(u.zone))
      IN /\ u.N \in Int /\ u.E \in Int /\ u.h = site.h
         /\ m \in Int
         /\ <<u.N - (IF site.lat > 0 THEN 0 ELSE FN), u.E - FE>> = Sheet(p, m)
         /\ u.band > 9 <=> site.lat >= 0
  BY <1>1, UtmDenotes
<1>3. origin = LlaToUtm(site)
  BY DEF OriginGood
<1>4. QED
  BY <1>1, <1>2, <1>3 DEF Meridian, SitePlace

\* Two numbers in a pair.
LEMMA Pairs ==
    ASSUME NEW a, NEW b, NEW c, NEW d, <<a, b>> = <<c, d>>
    PROVE  a = c /\ b = d
  OBVIOUS

\* ecefToNed on the origin's sheet: both false northings are the same one.
LEMMA NedOnSheet ==
    ASSUME OriginGood, NEW p, IsPlace(p), SameSheet(p)
    PROVE  EcefToNed(p, origin) = TrueNed(p) /\ OnSheet(p, Meridian)
<1> DEFINE lon == Longitude(p)
           m == CentralMeridian(Zone(lon))
           g == Grid(p.lat, FromMeridian(lon, m))
           f == IF site.lat > 0 THEN 0 ELSE FN
           a == Sheet(p, Meridian)
           b == Sheet(SitePlace, Meridian)
<1>1. /\ p.lat \in -90 .. 90 /\ p.turn \in 0 .. 359 /\ p.h \in Int
      /\ AbsOf(p.lat) = 90 => p.turn = 0
  BY PlaceIs
<1>2. lon \in -180 .. 180 /\ (AbsOf(p.lat) = 90 \/ lon % 360 = p.turn)
  BY EcefBack
<1>3. /\ origin.N \in Int /\ origin.E \in Int /\ origin.h = site.h /\ site.h \in Int
      /\ site.lat \in -90 .. 90
      /\ Meridian \in Int /\ <<origin.N - f, origin.E - FE>> = b
  BY OriginIs
<1>4. FE \in Int /\ FN \in Int /\ f \in Int
  BY Constants
<1>5. p.lat > 0 <=> site.lat > 0
  BY DEF SameSheet
<1>6. /\ g.N \in Int /\ g.E \in Int
      /\ <<g.N - (IF p.lat > 0 THEN 0 ELSE FN), g.E - FE>> = Sheet(p, m)
      /\ OnSheet(p, m)
  <2>1. p.turn = (IF AbsOf(p.lat) = 90 THEN 0 ELSE lon % 360)
    BY <1>1, <1>2
  <2>2. p.lat \in -90 .. 90 /\ lon \in -180 .. 180
    BY <1>1, <1>2
  <2>3. OnOwnGrid(p, p.lat, lon)
    BY <2>1, <2>2, OwnGrid
  <2>4. QED
    BY <2>3 DEF OnOwnGrid
<1>7. m \in Int
  BY <1>2, Z3 DEF CentralMeridian, Zone
<1>8. Sheet(p, m) = a /\ OnSheet(p, Meridian)
  <2>1. CASE AbsOf(p.lat) = 90
    BY <2>1 DEF Sheet, OnSheet
  <2>2. CASE AbsOf(p.lat) # 90
    <3>1. (m - Meridian) % 360 = 0
      BY <2>2 DEF SameSheet
    <3>2. ((p.turn - Meridian) - (p.turn - m)) % 360 = 0
      BY <1>1, <1>3, <1>7, <3>1
    <3>3. p.turn - Meridian \in Int /\ p.turn - m \in Int
      BY <1>1, <1>3, <1>7, SMTT(30)
    <3>4. Centred(p.turn - Meridian) = Centred(p.turn - m)
      BY <3>2, <3>3, CentredSame
    <3> HIDE DEF m
    <3>5. QED
      BY <1>6, <2>2, <3>4 DEF Sheet, OnSheet
  <2>3. QED
    BY <2>1, <2>2
<1>9. <<g.N - f, g.E - FE>> = a
  <2>1. (IF p.lat > 0 THEN 0 ELSE FN) = f
    BY <1>5
  <2>2. QED
    BY <1>6, <1>8, <2>1
<1>10. EcefToNed(p, origin) = <<g.N - origin.N, g.E - origin.E, origin.h - p.h>>
  BY DEF EcefToNed
<1>11. TrueNed(p) = <<a[1] - b[1], a[2] - b[2], site.h - p.h>>
  BY DEF TrueNed
<1> HIDE DEF g, a, b, f
<1>12. /\ a[1] = g.N - f /\ a[2] = g.E - FE
       /\ b[1] = origin.N - f /\ b[2] = origin.E - FE
  BY <1>3, <1>9
<1>13. a[1] - b[1] = g.N - origin.N /\ a[2] - b[2] = g.E - origin.E
  BY <1>3, <1>4, <1>6, <1>12
<1>14. QED
  BY <1>3, <1>8, <1>10, <1>11, <1>13

LEMMA SheetPair ==
    ASSUME NEW p, IsPlace(p), NEW m \in Int, OnSheet(p, m)
    PROVE  /\ Sheet(p, m) = <<Sheet(p, m)[1], Sheet(p, m)[2]>>
           /\ Sheet(p, m)[1] \in Int /\ Sheet(p, m)[2] \in Int
<1>1. p.lat \in -90 .. 90 /\ p.turn \in 0 .. 359
  BY PlaceIs
<1>2. CASE AbsOf(p.lat) = 90
  BY <1>1, <1>2 DEF Sheet
<1>3. CASE AbsOf(p.lat) # 90
  <2> DEFINE l == Centred(p.turn - m)
             far == AbsOf(l) > 90
             a == AbsOf(p.lat)
             b == IF far THEN 180 - AbsOf(l) ELSE AbsOf(l)
             k == Krueger[<<a, b>>]
             ls == IF far /\ p.lat = 0 THEN -1 ELSE SignOf(p.lat)
  <2>1. l \in -179 .. 180 /\ Near(l) /\ MaxLam \in 3 .. 89
    <3>1. p.turn - m \in Int
      BY <1>1
    <3>2. l \in -179 .. 180
      BY <3>1, CentredIs
    <3>3. QED
      BY <1>3, <3>2, Constants DEF OnSheet
  <2>2. Sheet(p, m) = Project(p.lat, l)
    BY <1>3 DEF Sheet
  <2> HIDE DEF l
  <2>3. a \in 0 .. 90 /\ b \in 0 .. MaxLam
    BY <1>1, <2>1 DEF Near, AbsOf
  <2>4. k[1] \in Int /\ k[2] \in Int
    <3> HIDE DEF a, b
    <3>1. Krueger[<<a, b>>][1] \in 0 .. 90 /\ Krueger[<<a, b>>][2] \in Nat
      BY <2>3, KruegerType
    <3>2. QED
      BY <3>1
  <2>5. Project(p.lat, l) = <<ls * (IF far THEN 180 - k[1] ELSE k[1]), SignOf(l) * k[2]>>
    BY DEF Project
  <2>6. ls \in {-1, 1} /\ SignOf(l) \in {-1, 1}
    BY DEF SignOf
  <2> HIDE DEF k, ls
  <2>7. QED
    BY <2>2, <2>4, <2>5, <2>6
<1>4. QED
  BY <1>2, <1>3

\* nedToEcef: the origin's letter settles the hemisphere, unless it is that of
\* the equator.
LEMMA NedBack ==
    ASSUME OriginGood, site.lat # 0, NEW p, IsPlace(p), OnSheet(p, Meridian)
    PROVE  NedToEcef(TrueNed(p), origin) = p
<1> DEFINE f == IF site.lat > 0 THEN 0 ELSE FN
           a == Sheet(p, Meridian)
           b == Sheet(SitePlace, Meridian)
           c == TrueNed(p)
           u == [origin EXCEPT !.N = @ + c[1], !.E = @ + c[2], !.h = @ - c[3]]
<1>1. /\ origin.N \in Int /\ origin.E \in Int /\ origin.h = site.h /\ site.h \in Int
      /\ site.lat \in -90 .. 90
      /\ Meridian \in Int /\ <<origin.N - f, origin.E - FE>> = b
      /\ origin.band > 9 <=> site.lat >= 0
  BY OriginIs
<1>2. p.h \in Int /\ FE \in Int /\ FN \in Int /\ f \in Int
  BY PlaceIs, Constants
<1>3. a = <<a[1], a[2]>> /\ a[1] \in Int /\ a[2] \in Int
  BY <1>1, SheetPair
<1>4. c = <<a[1] - b[1], a[2] - b[2], site.h - p.h>>
  BY DEF TrueNed
<1>5. /\ u.N = origin.N + c[1] /\ u.E = origin.E + c[2] /\ u.h = origin.h - c[3]
      /\ u.band = origin.band /\ u.zone = origin.zone
  <2>1. origin = [E |-> origin.E, N |-> origin.N, zone |-> origin.zone,
                  band |-> origin.band, h |-> origin.h]
    BY DEF OriginGood, LlaToUtm
  <2> HIDE DEF c
  <2>2. QED
    BY <2>1
<1> HIDE DEF a, b, c, f, u
<1>6. b[1] = origin.N - f /\ b[2] = origin.E - FE
  BY <1>1
<1>7. c[1] = a[1] - b[1] /\ c[2] = a[2] - b[2] /\ c[3] = site.h - p.h
  BY <1>4
<1>8. u.N - f = a[1] /\ u.E - FE = a[2] /\ u.h = p.h /\ u.N \in Int
  BY <1>1, <1>2, <1>3, <1>5, <1>6, <1>7
<1>9. (IF Northern(u) THEN u.N ELSE u.N - FN) = a[1]
  <2>1. Northern(u) <=> site.lat > 0
    BY <1>1, <1>5 DEF Northern
  <2>2. CASE site.lat > 0
    BY <1>8, <2>1, <2>2 DEF f
  <2>3. CASE ~(site.lat > 0)
    BY <1>8, <2>1, <2>3 DEF f
  <2>4. QED
    BY <2>2, <2>3
<1>10. <<IF Northern(u) THEN u.N ELSE u.N - FN, u.E - FE>> = Sheet(p, Meridian)
  BY <1>3, <1>8, <1>9 DEF a
<1>11. CentralMeridian(ZoneNumber(u.zone)) = Meridian
  BY <1>5 DEF Meridian
<1>12. Denotes("lla", UtmToLla(u), p)
  BY <1>1, <1>8, <1>10, <1>11, SheetBack
<1>13. NedToEcef(c, origin) = LlaToEcef(UtmToLla(u))
  BY DEF NedToEcef, u
<1>14. QED
  BY <1>12, <1>13 DEF LlaToEcef, Denotes, c

-----------------------------------------------------------------------------
\* The inductive invariant: nothing is lost, and while no call has been made
\* where it cannot work, every column denotes its place and can be converted on.
Faithful == ~astray => \A i \in DOMAIN place : /\ Denotes(coords.sys, coords.val[i], place[i])
                                              /\ Fit(coords.sys, coords.val[i], place[i])

IInv == TypeOK /\ Faithful

\* A conversion that is right for each column is right for all.
LEMMA ColumnsConverted ==
    ASSUME NEW S \in Systems, IInv, UNCHANGED <<site, origin, place>>,
           coords'.sys = S, DOMAIN coords'.val = DOMAIN coords.val,
           astray' \in BOOLEAN, refused' \in BOOLEAN,
           ~astray' => ~astray /\ \A i \in DOMAIN place :
                          (Denotes(coords.sys, coords.val[i], place[i])
                              /\ Fit(coords.sys, coords.val[i], place[i]))
                          => /\ Denotes(S, coords'.val[i], place[i])
                             /\ Fit(S, coords'.val[i], place[i])
    PROVE  IInv'
<1>1. TypeOK'
  BY DEF IInv, TypeOK
<1>2. Faithful'
  <2>1. SUFFICES ASSUME ~astray', NEW i \in DOMAIN place
                 PROVE  /\ Denotes(coords.sys, coords.val[i], place[i])'
                        /\ Fit(coords.sys, coords.val[i], place[i])'
    BY DEF Faithful
  <2>2. Denotes(S, coords'.val[i], place[i]) /\ Fit(S, coords'.val[i], place[i])
    BY <2>1 DEF IInv, Faithful
  <2>3. Meridian' = Meridian /\ SitePlace' = SitePlace
    BY DEF Meridian, SitePlace
  <2>4. Denotes(coords.sys, coords.val[i], place[i])'
    BY <2>2, <2>3 DEF Denotes, TrueNed
  <2>5. Fit(coords.sys, coords.val[i], place[i])'
    BY <2>2, <2>3 DEF Fit
  <2>6. QED
    BY <2>4, <2>5
<1>3. QED
  BY <1>1, <1>2 DEF IInv

LEMMA GiveLlaPreserves == IInv /\ GiveLla => IInv'
<1> SUFFICES ASSUME IInv, GiveLla PROVE IInv'
  OBVIOUS
<1>1. PICK s \in Columns(Inputs) :
          /\ place' = [i \in DOMAIN s |-> PlaceOf(s[i].lat, s[i].lon, s[i].h)]
          /\ coords' = [sys |-> "lla", val |-> s]
  BY DEF GiveLla, Each
<1>2. \A i \in DOMAIN s : s[i] \in Inputs
  BY DEF Columns
<1>3. TypeOK'
  BY <1>1 DEF IInv, TypeOK, GiveLla, Systems
<1>4. ASSUME NEW i \in DOMAIN place'
      PROVE  /\ Denotes(coords.sys, coords.val[i], place[i])'
             /\ Fit(coords.sys, coords.val[i], place[i])'
  <2>1. s[i] \in [lat : -179 .. 179, lon : Int, h : Int]
    BY <1>1, <1>2, <1>4, Constants
  <2>2. /\ s[i].lat \in -179 .. 179 /\ s[i].lon \in Int /\ s[i].h \in Int
        /\ s[i] \in Lla
    BY <2>1 DEF Lla
  <2>3. IsPlace(PlaceOf(s[i].lat, s[i].lon, s[i].h))
    BY <2>2, PlacesAre
  <2>4. /\ coords'.sys = "lla" /\ coords'.val[i] = s[i]
        /\ place'[i] = PlaceOf(s[i].lat, s[i].lon, s[i].h)
    BY <1>1, <1>4
  <2>5. QED
    BY <2>2, <2>3, <2>4 DEF Denotes, Fit
<1>5. QED
  BY <1>3, <1>4 DEF IInv, Faithful

LEMMA GiveNedPreserves == IInv /\ GiveNed => IInv'
<1> SUFFICES ASSUME IInv, GiveNed PROVE IInv'
  OBVIOUS
<1>1. PICK s \in Columns({p \in Flights : OnMap(p)}) :
          /\ place' = s
          /\ coords' = [sys |-> "ned", val |-> [i \in DOMAIN s |-> TrueNed(s[i])]]
  BY DEF GiveNed, Each
<1>2. \A i \in DOMAIN s : s[i] \in Flights /\ OnMap(s[i])
  BY DEF Columns
<1>3. TypeOK'
  BY <1>1 DEF IInv, TypeOK, GiveNed, Systems
<1>4. Meridian' = Meridian /\ SitePlace' = SitePlace /\ site' = site
  BY DEF GiveNed, Meridian, SitePlace
<1>5. ASSUME NEW i \in DOMAIN place'
      PROVE  /\ Denotes(coords.sys, coords.val[i], place[i])'
             /\ Fit(coords.sys, coords.val[i], place[i])'
  <2>1. IsPlace(s[i]) /\ OnSheet(s[i], Meridian)
    BY <1>1, <1>2, <1>5, Constants DEF OnMap, OnSheet, Near
  <2>2. /\ coords'.sys = "ned" /\ coords'.val[i] = TrueNed(s[i])
        /\ place'[i] = s[i]
    BY <1>1, <1>5
  <2>3. Denotes(coords.sys, coords.val[i], place[i])'
    BY <1>4, <2>2 DEF Denotes, TrueNed
  <2>4. Fit(coords.sys, coords.val[i], place[i])'
    BY <1>4, <2>1, <2>2 DEF Fit
  <2>5. QED
    BY <2>3, <2>4
<1>6. QED
  BY <1>3, <1>5 DEF IInv, Faithful

LEMMA DiscardPreserves == IInv /\ Discard => IInv'
<1> SUFFICES ASSUME IInv, Discard PROVE IInv'
  OBVIOUS
<1>1. place' = <<>> /\ coords' = [sys |-> "none", val |-> <<>>] /\ DOMAIN <<>> = {}
  BY DEF Discard
<1>2. TypeOK'
  <2>1. site' \in Sites /\ origin' = LlaToUtm(site')
    BY DEF IInv, TypeOK, Discard
  <2>2. coords'.sys \in Systems /\ coords'.val = place'
    BY <1>1 DEF Systems
  <2>3. astray' = FALSE /\ refused' = FALSE
    BY DEF Discard
  <2>4. QED
    BY <2>1, <2>2, <2>3 DEF TypeOK
<1>3. Faithful'
  BY <1>1 DEF Faithful
<1>4. QED
  BY <1>2, <1>3 DEF IInv

LEMMA LlaToUtmPreserves == IInv /\ CallLlaToUtm => IInv'
<1> SUFFICES ASSUME IInv, CallLlaToUtm PROVE IInv'
  OBVIOUS
<1>1. CASE \A i \in DOMAIN coords.val : Acceptable(coords.val[i])
  <2>1. /\ coords.sys = "lla" /\ UNCHANGED <<site, origin, place>>
        /\ coords' = [sys |-> "utm", val |-> [i \in DOMAIN coords.val |-> LlaToUtm(coords.val[i])]]
        /\ refused' = FALSE
        /\ astray' = (astray \/ \E i \in DOMAIN coords.val : coords.val[i].lat = 0)
    BY <1>1 DEF CallLlaToUtm, Converted, Each
  <2>2. astray' \in BOOLEAN /\ DOMAIN place = DOMAIN coords.val
    BY <2>1 DEF IInv, TypeOK
  <2>3. ASSUME NEW i \in DOMAIN place, ~astray',
               Denotes("lla", coords.val[i], place[i]), Fit("lla", coords.val[i], place[i])
        PROVE  /\ Denotes("utm", coords'.val[i], place[i])
               /\ Fit("utm", coords'.val[i], place[i])
    <3>1. /\ coords.val[i] \in Lla /\ Acceptable(coords.val[i]) /\ coords.val[i].lat # 0
          /\ PlaceOf(coords.val[i].lat, coords.val[i].lon, coords.val[i].h) = place[i]
      BY <1>1, <2>1, <2>2, <2>3 DEF Denotes, Fit
    <3>2. coords'.val[i] = LlaToUtm(coords.val[i])
      BY <2>1, <2>2
    <3>3. QED
      BY <3>1, <3>2, UtmDenotes
  <2>4. "utm" \in Systems /\ coords'.sys = "utm" /\ DOMAIN coords'.val = DOMAIN coords.val
    BY <2>1 DEF Systems
  <2>5. ~astray' => ~astray
    BY <2>1
  <2>6. QED
    BY <2>1, <2>2, <2>3, <2>4, <2>5, ColumnsConverted
<1>2. CASE ~(\A i \in DOMAIN coords.val : Acceptable(coords.val[i]))
  <2>1. UNCHANGED <<site, origin, place, coords, astray, sum>> /\ refused' = TRUE
    BY <1>2 DEF CallLlaToUtm
  <2>2. Meridian' = Meridian /\ SitePlace' = SitePlace
    BY <2>1 DEF Meridian, SitePlace
  <2>3. TypeOK'
    BY <2>1 DEF IInv, TypeOK
  <2>4. Faithful'
    BY <2>1, <2>2 DEF IInv, Faithful, Denotes, Fit, TrueNed
  <2>5. QED
    BY <2>3, <2>4 DEF IInv
<1>3. QED
  BY <1>1, <1>2

LEMMA UtmToLlaPreserves == IInv /\ CallUtmToLla => IInv'
<1> SUFFICES ASSUME IInv, CallUtmToLla PROVE IInv'
  OBVIOUS
<1>1. /\ coords.sys = "utm" /\ UNCHANGED <<site, origin, place, astray>>
      /\ coords' = [sys |-> "lla", val |-> [i \in DOMAIN coords.val |-> UtmToLla(coords.val[i])]]
      /\ refused' = FALSE
  BY DEF CallUtmToLla, Converted, Each
<1>2. astray' \in BOOLEAN /\ DOMAIN place = DOMAIN coords.val
  BY <1>1 DEF IInv, TypeOK
<1>3. ASSUME NEW i \in DOMAIN place,
             Denotes("utm", coords.val[i], place[i]), Fit("utm", coords.val[i], place[i])
      PROVE  /\ Denotes("lla", coords'.val[i], place[i])
             /\ Fit("lla", coords'.val[i], place[i])
  <2>1. coords'.val[i] = UtmToLla(coords.val[i])
    BY <1>1, <1>2
  <2>2. QED
    BY <1>3, <2>1, UtmBack
<1>4. "lla" \in Systems /\ coords'.sys = "lla" /\ DOMAIN coords'.val = DOMAIN coords.val
  BY <1>1 DEF Systems
<1>5. QED
  BY <1>1, <1>2, <1>3, <1>4, ColumnsConverted

LEMMA LlaToEcefPreserves == IInv /\ CallLlaToEcef => IInv'
<1> SUFFICES ASSUME IInv, CallLlaToEcef PROVE IInv'
  OBVIOUS
<1>1. /\ coords.sys = "lla" /\ UNCHANGED <<site, origin, place, astray>>
      /\ coords' = [sys |-> "ecef", val |-> [i \in DOMAIN coords.val |-> LlaToEcef(coords.val[i])]]
      /\ refused' = FALSE
  BY DEF CallLlaToEcef, Converted, Each
<1>2. astray' \in BOOLEAN /\ DOMAIN place = DOMAIN coords.val
  BY <1>1 DEF IInv, TypeOK
<1>3. ASSUME NEW i \in DOMAIN place,
             Denotes("lla", coords.val[i], place[i]), Fit("lla", coords.val[i], place[i])
      PROVE  /\ Denotes("ecef", coords'.val[i], place[i])
             /\ Fit("ecef", coords'.val[i], place[i])
  <2>1. coords'.val[i] = place[i]
    BY <1>1, <1>2, <1>3 DEF Denotes, LlaToEcef
  <2>2. QED
    BY <1>3, <2>1 DEF Denotes, Fit
<1>4. "ecef" \in Systems /\ coords'.sys = "ecef" /\ DOMAIN coords'.val = DOMAIN coords.val
  BY <1>1 DEF Systems
<1>5. QED
  BY <1>1, <1>2, <1>3, <1>4, ColumnsConverted

LEMMA EcefToLlaPreserves == IInv /\ CallEcefToLla => IInv'
<1> SUFFICES ASSUME IInv, CallEcefToLla PROVE IInv'
  OBVIOUS
<1>1. /\ coords.sys = "ecef" /\ UNCHANGED <<site, origin, place, astray>>
      /\ coords' = [sys |-> "lla", val |-> [i \in DOMAIN coords.val |-> EcefToLla(coords.val[i])]]
      /\ refused' = FALSE
  BY DEF CallEcefToLla, Converted, Each
<1>2. astray' \in BOOLEAN /\ DOMAIN place = DOMAIN coords.val
  BY <1>1 DEF IInv, TypeOK
<1>3. ASSUME NEW i \in DOMAIN place,
             Denotes("ecef", coords.val[i], place[i]), Fit("ecef", coords.val[i], place[i])
      PROVE  /\ Denotes("lla", coords'.val[i], place[i])
             /\ Fit("lla", coords'.val[i], place[i])
  <2>1. coords'.val[i] = EcefToLla(place[i]) /\ IsPlace(place[i])
    BY <1>1, <1>2, <1>3 DEF Denotes, Fit
  <2>2. EcefToLla(place[i]) \in Lla /\ Denotes("lla", EcefToLla(place[i]), place[i])
    BY <2>1, EcefBack
  <2>3. QED
    BY <2>1, <2>2 DEF Fit
<1>4. "lla" \in Systems /\ coords'.sys = "lla" /\ DOMAIN coords'.val = DOMAIN coords.val
  BY <1>1 DEF Systems
<1>5. QED
  BY <1>1, <1>2, <1>3, <1>4, ColumnsConverted

LEMMA NedToEcefPreserves == IInv /\ CallNedToEcef => IInv'
<1> SUFFICES ASSUME IInv, CallNedToEcef PROVE IInv'
  OBVIOUS
<1>1. /\ coords.sys = "ned" /\ UNCHANGED <<site, origin, place>>
      /\ coords' = [sys |-> "ecef",
                    val |-> [i \in DOMAIN coords.val |-> NedToEcef(coords.val[i], origin)]]
      /\ refused' = FALSE /\ astray' = (astray \/ site.lat = 0)
  BY DEF CallNedToEcef, Converted, Each
<1>2. astray' \in BOOLEAN /\ DOMAIN place = DOMAIN coords.val /\ OriginGood
  BY <1>1 DEF IInv, TypeOK, OriginGood
<1>3. ASSUME NEW i \in DOMAIN place, ~astray',
             Denotes("ned", coords.val[i], place[i]), Fit("ned", coords.val[i], place[i])
      PROVE  /\ Denotes("ecef", coords'.val[i], place[i])
             /\ Fit("ecef", coords'.val[i], place[i])
  <2>1. /\ coords'.val[i] = NedToEcef(TrueNed(place[i]), origin) /\ site.lat # 0
        /\ IsPlace(place[i]) /\ OnSheet(place[i], Meridian)
    BY <1>1, <1>2, <1>3 DEF Denotes, Fit
  <2>2. coords'.val[i] = place[i]
    BY <1>2, <2>1, NedBack
  <2>3. QED
    BY <2>1, <2>2 DEF Denotes, Fit
<1>4. "ecef" \in Systems /\ coords'.sys = "ecef" /\ DOMAIN coords'.val = DOMAIN coords.val
  BY <1>1 DEF Systems
<1>5. ~astray' => ~astray
  BY <1>1
<1>6. QED
  BY <1>1, <1>2, <1>3, <1>4, <1>5, ColumnsConverted

LEMMA EcefToNedPreserves == IInv /\ CallEcefToNed => IInv'
<1> SUFFICES ASSUME IInv, CallEcefToNed PROVE IInv'
  OBVIOUS
<1>1. /\ coords.sys = "ecef" /\ UNCHANGED <<site, origin, place>>
      /\ coords' = [sys |-> "ned",
                    val |-> [i \in DOMAIN coords.val |-> EcefToNed(coords.val[i], origin)]]
      /\ refused' = FALSE
      /\ astray' = (astray \/ \E i \in DOMAIN coords.val : ~SameSheet(coords.val[i]))
  BY DEF CallEcefToNed, Converted, Each
<1>2. astray' \in BOOLEAN /\ DOMAIN place = DOMAIN coords.val /\ OriginGood
  BY <1>1 DEF IInv, TypeOK, OriginGood
<1>3. ASSUME NEW i \in DOMAIN place, ~astray',
             Denotes("ecef", coords.val[i], place[i]), Fit("ecef", coords.val[i], place[i])
      PROVE  /\ Denotes("ned", coords'.val[i], place[i])
             /\ Fit("ned", coords'.val[i], place[i])
  <2>1. coords.val[i] = place[i] /\ IsPlace(place[i]) /\ SameSheet(place[i])
    BY <1>1, <1>2, <1>3 DEF Denotes, Fit
  <2>2. coords'.val[i] = EcefToNed(place[i], origin)
    BY <1>1, <1>2, <2>1
  <2>3. EcefToNed(place[i], origin) = TrueNed(place[i]) /\ OnSheet(place[i], Meridian)
    BY <1>2, <2>1, NedOnSheet
  <2>4. QED
    BY <2>1, <2>2, <2>3 DEF Denotes, Fit
<1>4. "ned" \in Systems /\ coords'.sys = "ned" /\ DOMAIN coords'.val = DOMAIN coords.val
  BY <1>1 DEF Systems
<1>5. ~astray' => ~astray
  BY <1>1
<1>6. QED
  BY <1>1, <1>2, <1>3, <1>4, <1>5, ColumnsConverted

LEMMA OthersPreserve == IInv /\ (SumSeries \/ UNCHANGED vars) => IInv'
<1> SUFFICES ASSUME IInv, SumSeries \/ UNCHANGED vars PROVE IInv'
  OBVIOUS
<1>1. UNCHANGED <<site, origin, place, coords, astray, refused>>
  BY DEF SumSeries, vars
<1>2. Meridian' = Meridian /\ SitePlace' = SitePlace
  BY <1>1 DEF Meridian, SitePlace
<1>3. TypeOK'
  BY <1>1 DEF IInv, TypeOK
<1>4. Faithful'
  BY <1>1, <1>2 DEF IInv, Faithful, Denotes, Fit, TrueNed
<1>5. QED
  BY <1>3, <1>4 DEF IInv

-----------------------------------------------------------------------------
LEMMA Inductive == Spec => []IInv
<1>1. Init => IInv
  <2> SUFFICES ASSUME Init PROVE IInv
    OBVIOUS
  <2>1. place = <<>> /\ DOMAIN place = {}
    BY DEF Init
  <2>2. QED
    BY <2>1 DEF Init, IInv, TypeOK, Faithful, Systems
<1>2. IInv /\ [Next]_vars => IInv'
  BY GiveLlaPreserves, GiveNedPreserves, DiscardPreserves, LlaToUtmPreserves,
     UtmToLlaPreserves, LlaToEcefPreserves, EcefToLlaPreserves, NedToEcefPreserves,
     EcefToNedPreserves, OthersPreserve DEF Next
<1>3. QED
  BY <1>1, <1>2, PTL DEF Spec

\* Types; no call loses a column or makes one up.
THEOREM TypeCorrect == Spec => []TypeOK
<1>1. IInv => TypeOK
  BY DEF IInv
<1>2. QED
  BY Inductive, <1>1, PTL

\* Whatever chain of conversions coordinates have been through, they denote the
\* places the caller gave, for every projection whose two series invert each
\* other below the pole: zone, letter, hemisphere, the wraps and the far side of
\* the Earth are undone by the way back.  The hypothesis on the calls is needed:
\* on the equator letter and northing disagree (llaToUtm.c), and off the origin's
\* sheet ecefToNed.c answers in another grid.
THEOREM PlacesSurvive == Spec => []SamePlace
<1>1. IInv => SamePlace
  BY DEF IInv, Faithful, SamePlace
<1>2. QED
  BY Inductive, <1>1, PTL

-----------------------------------------------------------------------------
(* What a conversion may be given.                                         *)

\* In the range of the conversions of its system, whatever place it denotes.
InRange(sys, c) ==
    /\ sys = "lla"  => Acceptable(c)
    /\ sys = "utm"  => ZoneNumber(c.zone) \in 1 .. 61
    /\ sys = "ecef" => c.lat \in -90 .. 90 /\ c.turn \in 0 .. 359

\* The strengthening of Chainable: columns that are no longer the caller's are
\* in range.
Ranges ==
    /\ \/ \A i \in DOMAIN coords.val : InRange(coords.sys, coords.val[i])
       \/ coords.sys = "lla" /\ \A i \in DOMAIN coords.val : coords.val[i] \in Inputs
    /\ refused => /\ coords.sys = "lla"
                  /\ \A i \in DOMAIN coords.val : coords.val[i] \in Inputs

LEMMA PlaceRange ==
    ASSUME NEW c, c.lat \in -179 .. 179, c.lon \in Int
    PROVE  InRange("ecef", LlaToEcef(c))
<1> DEFINE p == LlaToEcef(c)
<1>1. c.lon % 360 \in 0 .. 359 /\ (c.lon + 180) % 360 \in 0 .. 359
  BY Turn, SMTT(30)
<1>2. p.lat = (IF AbsOf(c.lat) > 90 THEN SignOf(c.lat) * 180 - c.lat ELSE c.lat)
  BY DEF LlaToEcef, PlaceOf
<1>3. p.turn \in {0, (c.lon + 180) % 360, c.lon % 360}
  BY DEF LlaToEcef, PlaceOf
<1> HIDE DEF p
<1>4. p.lat \in -90 .. 90
  BY <1>2 DEF AbsOf, SignOf
<1>5. p.turn \in 0 .. 359
  BY <1>1, <1>3
<1>6. QED
  BY <1>4, <1>5 DEF InRange, p

LEMMA Signed ==
    ASSUME NEW x
    PROVE  /\ \A i \in 0 .. 90 : SignOf(x) * i \in -90 .. 90
           /\ \A i \in 0 .. 180 : SignOf(x) * i \in -180 .. 180
<1>1. SignOf(x) = 1 \/ SignOf(x) = -1
  BY DEF SignOf
<1> DEFINE v == SignOf(x)
<1> HIDE DEF v
<1>2. v = 1 \/ v = -1
  BY <1>1 DEF v
<1>3. (\A i \in 0 .. 90 : v * i \in -90 .. 90) /\ (\A i \in 0 .. 180 : v * i \in -180 .. 180)
  <2>1. CASE v = 1
    BY <2>1
  <2>2. CASE v = -1
    BY <2>2
  <2>3. QED
    BY <1>2, <2>1, <2>2
<1>4. QED
  BY <1>3 DEF v

\* Whatever grid coordinates it is given: the pole, if the map does not have them.
LEMMA UtmRange ==
    ASSUME NEW u, ZoneNumber(u.zone) \in 1 .. 61
    PROVE  Acceptable(UtmToLla(u))
<1> DEFINE yx == <<IF Northern(u) THEN u.N ELSE u.N - FN, u.E - FE>>
           ll == Unproject(yx)
           m  == CentralMeridian(ZoneNumber(u.zone))
           far == AbsOf(yx[1]) > 90
           g  == <<IF far THEN 180 - AbsOf(yx[1]) ELSE AbsOf(yx[1]), AbsOf(yx[2])>>
           p  == IF g # <<90, 0>> /\ g \in DOMAIN Inverse THEN Inverse[g] ELSE <<90, 0>>
<1>1. m \in -177 .. 183
  BY DEF CentralMeridian
<1> HIDE DEF yx
<1>2. ll = <<SignOf(yx[1]) * p[1], SignOf(yx[2]) * (IF far THEN 180 - p[2] ELSE p[2])>>
  BY DEF Unproject
<1>3. p \in Quadrant
  <2> HIDE DEF g
  <2>1. <<90, 0>> \in Quadrant
    BY Constants DEF Quadrant
  <2>2. \A h \in DOMAIN Inverse : Inverse[h] \in Quadrant
    BY KruegerAssumption, Zenon
  <2>3. CASE g # <<90, 0>> /\ g \in DOMAIN Inverse
    <3>1. Inverse[g] \in Quadrant
      BY <2>2, <2>3
    <3>2. QED
      BY <2>3, <3>1
  <2>4. CASE ~(g # <<90, 0>> /\ g \in DOMAIN Inverse)
    BY <2>1, <2>4
  <2>5. QED
    BY <2>3, <2>4
<1>4. p[1] \in 0 .. 90 /\ p[2] \in 0 .. 89
  <2> HIDE DEF p
  <2>1. PICK i \in 0 .. 90, j \in 0 .. MaxLam : p = <<i, j>>
    BY <1>3 DEF Quadrant
  <2>2. QED
    BY <2>1, Constants
<1> HIDE DEF p, far
<1>5. ll[1] \in -90 .. 90 /\ ll[2] \in -180 .. 180
  <2>1. SignOf(yx[1]) * p[1] \in -90 .. 90
    BY <1>4, Signed, ZenonT(30)
  <2> DEFINE j == IF far THEN 180 - p[2] ELSE p[2]
  <2>2. j \in 0 .. 180
    BY <1>4
  <2> HIDE DEF j
  <2>3. SignOf(yx[2]) * j \in -180 .. 180
    BY <2>2, Signed, ZenonT(30)
  <2>4. ll = <<SignOf(yx[1]) * p[1], SignOf(yx[2]) * j>>
    BY <1>2 DEF j
  <2>5. QED
    BY <2>1, <2>3, <2>4
<1> HIDE DEF ll, m
<1>6. WithMeridian(ll[2], m) \in -180 .. 180
  <2>1. ASSUME NEW lon \in -180 .. 180, NEW lon0 \in -177 .. 183
        PROVE  WithMeridian(lon, lon0) \in -180 .. 180
    BY DEF WithMeridian
  <2>2. QED
    BY <1>1, <1>5, <2>1
<1>7. UtmToLla(u) = [lat |-> ll[1], lon |-> WithMeridian(ll[2], m), h |-> u.h]
  BY DEF UtmToLla, ll, yx, m
<1>8. QED
  BY <1>5, <1>6, <1>7 DEF Acceptable

LEMMA ZoneRange ==
    ASSUME NEW c, Acceptable(c)
    PROVE  ZoneNumber(LlaToUtm(c).zone) \in 1 .. 61
<1>1. c.lon \in -180 .. 180
  BY DEF Acceptable
<1>2. ZoneNumber(Digits(Zone(c.lon))) = Zone(c.lon)
  BY <1>1, OwnZone
<1>3. Zone(c.lon) \in 1 .. 61
  BY <1>1, Z3 DEF Zone
<1>4. LlaToUtm(c).zone = Digits(Zone(c.lon))
  BY DEF LlaToUtm
<1>5. QED
  BY <1>2, <1>3, <1>4

LEMMA EcefRange ==
    ASSUME NEW p, InRange("ecef", p)
    PROVE  Acceptable(EcefToLla(p))
  BY DEF InRange, Acceptable, EcefToLla, Longitude

LEMMA LlaRange ==
    ASSUME NEW c, Acceptable(c) \/ c \in Inputs
    PROVE  InRange("ecef", LlaToEcef(c))
<1>1. c.lat \in -179 .. 179 /\ c.lon \in Int
  BY Constants DEF Acceptable
<1>2. QED
  BY <1>1, PlaceRange

LEMMA NedRange ==
    ASSUME OriginGood, NEW c
    PROVE  InRange("ecef", NedToEcef(c, origin))
<1> DEFINE u == [origin EXCEPT !.N = @ + c[1], !.E = @ + c[2], !.h = @ - c[3]]
<1>1. Acceptable(site)
  BY Constants DEF OriginGood, Acceptable
<1>2. ZoneNumber(origin.zone) \in 1 .. 61
  BY <1>1, ZoneRange DEF OriginGood
<1>3. u.zone = origin.zone
  <2>1. origin = [E |-> origin.E, N |-> origin.N, zone |-> origin.zone,
                  band |-> origin.band, h |-> origin.h]
    BY DEF OriginGood, LlaToUtm
  <2>2. QED
    BY <2>1
<1>4. NedToEcef(c, origin) = LlaToEcef(UtmToLla(u))
  BY DEF NedToEcef
<1> HIDE DEF u
<1>5. Acceptable(UtmToLla(u))
  BY <1>2, <1>3, UtmRange
<1>6. QED
  BY <1>4, <1>5, LlaRange

\* A conversion whose results are in range for any columns it accepts.
LEMMA RangesConverted ==
    ASSUME NEW S, coords'.sys = S, refused' = FALSE,
           \A i \in DOMAIN coords'.val : InRange(S, coords'.val[i])
    PROVE  Ranges'
  BY DEF Ranges

LEMMA RangesStep == TypeOK /\ Ranges /\ [Next]_vars => Ranges'
<1> SUFFICES ASSUME TypeOK, Ranges, [Next]_vars PROVE Ranges'
  OBVIOUS
<1>1. OriginGood
  BY DEF TypeOK, OriginGood
<1>2. CASE GiveLla
  <2>1. PICK s \in Columns(Inputs) : coords' = [sys |-> "lla", val |-> s]
    BY <1>2 DEF GiveLla
  <2>2. \A i \in DOMAIN s : s[i] \in Inputs
    BY DEF Columns
  <2>3. QED
    BY <2>1, <2>2 DEF Ranges
<1>3. CASE GiveNed
  <2>1. coords.sys = "none" /\ refused' = refused /\ coords'.sys = "ned"
    BY <1>3 DEF GiveNed, Idle
  <2>2. ~refused
    BY <2>1 DEF Ranges
  <2>3. QED
    BY <2>1, <2>2 DEF Ranges, InRange
<1>4. CASE Discard
  BY <1>4 DEF Discard, Ranges, InRange
<1>5. CASE CallLlaToUtm
  <2>1. CASE \A i \in DOMAIN coords.val : Acceptable(coords.val[i])
    <3>1. /\ coords' = [sys |-> "utm", val |-> [i \in DOMAIN coords.val |-> LlaToUtm(coords.val[i])]]
          /\ refused' = FALSE
      BY <1>5, <2>1 DEF CallLlaToUtm, Converted, Each
    <3>2. \A i \in DOMAIN coords'.val : InRange("utm", coords'.val[i])
      BY <2>1, <3>1, ZoneRange DEF InRange
    <3>3. QED
      BY <3>1, <3>2, RangesConverted
  <2>2. CASE ~(\A i \in DOMAIN coords.val : Acceptable(coords.val[i]))
    <3>1. coords' = coords /\ refused' = TRUE /\ coords.sys = "lla"
      BY <1>5, <2>2 DEF CallLlaToUtm
    <3>2. \A i \in DOMAIN coords.val : coords.val[i] \in Inputs
      BY <2>2, <3>1 DEF Ranges, InRange
    <3>3. QED
      BY <3>1, <3>2 DEF Ranges
  <2>3. QED
    BY <2>1, <2>2
<1>6. CASE CallUtmToLla
  <2>1. /\ coords' = [sys |-> "lla", val |-> [i \in DOMAIN coords.val |-> UtmToLla(coords.val[i])]]
        /\ refused' = FALSE /\ coords.sys = "utm"
    BY <1>6 DEF CallUtmToLla, Converted, Each
  <2>2. \A i \in DOMAIN coords.val : ZoneNumber(coords.val[i].zone) \in 1 .. 61
    BY <2>1 DEF Ranges, InRange
  <2>3. \A i \in DOMAIN coords'.val : InRange("lla", coords'.val[i])
    BY <2>1, <2>2, UtmRange DEF InRange
  <2>4. QED
    BY <2>1, <2>3, RangesConverted
<1>7. CASE CallLlaToEcef
  <2>1. /\ coords' = [sys |-> "ecef", val |-> [i \in DOMAIN coords.val |-> LlaToEcef(coords.val[i])]]
        /\ refused' = FALSE /\ coords.sys = "lla"
    BY <1>7 DEF CallLlaToEcef, Converted, Each
  <2>2. \A i \in DOMAIN coords.val : Acceptable(coords.val[i]) \/ coords.val[i] \in Inputs
    BY <2>1 DEF Ranges, InRange
  <2>3. \A i \in DOMAIN coords'.val : InRange("ecef", coords'.val[i])
    BY <2>1, <2>2, LlaRange
  <2>4. QED
    BY <2>1, <2>3, RangesConverted
<1>8. CASE CallEcefToLla
  <2>1. /\ coords' = [sys |-> "lla", val |-> [i \in DOMAIN coords.val |-> EcefToLla(coords.val[i])]]
        /\ refused' = FALSE /\ coords.sys = "ecef"
    BY <1>8 DEF CallEcefToLla, Converted, Each
  <2>2. \A i \in DOMAIN coords.val : InRange("ecef", coords.val[i])
    BY <2>1 DEF Ranges
  <2>3. \A i \in DOMAIN coords'.val : InRange("lla", coords'.val[i])
    BY <2>1, <2>2, EcefRange DEF InRange
  <2>4. QED
    BY <2>1, <2>3, RangesConverted
<1>9. CASE CallNedToEcef
  <2>1. /\ coords' = [sys |-> "ecef",
                      val |-> [i \in DOMAIN coords.val |-> NedToEcef(coords.val[i], origin)]]
        /\ refused' = FALSE
    BY <1>9 DEF CallNedToEcef, Converted, Each
  <2>2. \A i \in DOMAIN coords'.val : InRange("ecef", coords'.val[i])
    BY <1>1, <2>1, NedRange
  <2>3. QED
    BY <2>1, <2>2, RangesConverted
<1>10. CASE CallEcefToNed
  BY <1>10 DEF CallEcefToNed, Converted, Ranges, InRange
<1>11. CASE SumSeries \/ UNCHANGED vars
  <2>1. coords' = coords /\ refused' = refused
    BY <1>11 DEF SumSeries, vars
  <2>2. QED
    BY <2>1 DEF Ranges
<1>12. QED
  BY <1>2, <1>3, <1>4, <1>5, <1>6, <1>7, <1>8, <1>9, <1>10, <1>11 DEF Next

\* What a conversion returns, no other one refuses, even when the coordinates
\* have gone astray: utmToLla.c and ecefToLla.c wrap the longitude back.
THEOREM ResultsChain == Spec => []Chainable
<1>1. Init => Ranges
  BY DEF Init, Ranges, InRange
<1>2. TypeOK /\ Ranges => Chainable
  BY DEF TypeOK, Ranges, Chainable
<1>3. QED
  BY TypeCorrect, RangesStep, <1>1, <1>2, PTL DEF Spec

-----------------------------------------------------------------------------
(* Recursive functions.                                                    *)

\* Induction over a set: were there a number out of S, there would be a least.
LEMMA Induction ==
    ASSUME NEW S, 0 \in S, \A n \in Nat : n \in S => n + 1 \in S
    PROVE  \A n \in Nat : n \in S
<1> DEFINE R == {ss \in Nat \X Nat : ss[1] < ss[2]}
           T == Nat \ S
<1>1. IsWellFoundedOn(R, Nat)
  BY NatLessThanWellFounded DEF OpToRel
<1>2. SUFFICES ASSUME T # {} PROVE FALSE
  OBVIOUS
<1> HIDE DEF R
<1>3. PICK x \in T : \A y \in T : <<y, x>> \notin R
  <2>1. T \subseteq Nat
    OBVIOUS
  <2> HIDE DEF T
  <2>2. QED
    BY <1>1, <1>2, <2>1, WFMin
<1>4. x \in Nat /\ x # 0 /\ x \notin S
  OBVIOUS
<1>5. x - 1 \in Nat /\ (x - 1) + 1 = x
  BY <1>4
<1>6. x - 1 \notin S
  BY <1>4, <1>5
<1>7. <<x - 1, x>> \in R
  BY <1>4, <1>5 DEF R
<1>8. QED
  BY <1>3, <1>5, <1>6, <1>7

\* Every function that G generates from b over 0 .. n exists.
Grows(f, n, b, G) == f[0] = b /\ \A k \in 1 .. n : f[k] = G[<<k, f[k - 1]>>]

\* A value at 0 and a rule for the next one are a function over 0 .. n: it is
\* what the CHOOSE in a recursive function of a LET finds.
LEMMA Recursion ==
    ASSUME NEW n \in Nat, NEW V, NEW b \in V, NEW G \in [Nat \X V -> V]
    PROVE  \E f \in [0 .. n -> V] : Grows(f, n, b, G)
<1> DEFINE S == {m \in Nat : \E f \in [0 .. m -> V] : Grows(f, m, b, G)}
<1>1. 0 \in S
  <2> DEFINE f == [k \in 0 .. 0 |-> b]
  <2>1. f \in [0 .. 0 -> V] /\ f[0] = b
    OBVIOUS
  <2>2. 1 .. 0 = {}
    OBVIOUS
  <2> HIDE DEF f
  <2>3. Grows(f, 0, b, G)
    BY <2>1, <2>2 DEF Grows
  <2>4. QED
    BY <2>1, <2>3
<1>2. ASSUME NEW m \in Nat, m \in S PROVE m + 1 \in S
  <2>1. PICK f \in [0 .. m -> V] : Grows(f, m, b, G)
    BY <1>2
  <2> DEFINE v == G[<<m + 1, f[m]>>]
             g == [k \in 0 .. m + 1 |-> IF k = m + 1 THEN v ELSE f[k]]
  <2>2. v \in V
    BY <2>1
  <2>3. g \in [0 .. m + 1 -> V] /\ g[m + 1] = v /\ \A k \in 0 .. m : g[k] = f[k]
    <3> HIDE DEF v
    <3>1. QED
      BY <2>1, <2>2
  <2> HIDE DEF g
  <2>4. ASSUME NEW k \in 1 .. m + 1 PROVE g[k] = G[<<k, g[k - 1]>>]
    <3>1. CASE k = m + 1
      <4>1. g[m] = f[m] /\ k - 1 = m
        BY <2>3, <3>1
      <4>2. QED
        BY <2>3, <3>1, <4>1
    <3>2. CASE k # m + 1
      <4>1. k \in 1 .. m /\ k \in 0 .. m /\ k - 1 \in 0 .. m
        BY <3>2
      <4>2. f[k] = G[<<k, f[k - 1]>>]
        BY <2>1, <4>1 DEF Grows
      <4>3. QED
        BY <2>3, <4>1, <4>2
    <3>3. QED
      BY <3>1, <3>2
  <2>5. g[0] = b
    BY <2>1, <2>3 DEF Grows
  <2>6. Grows(g, m + 1, b, G)
    BY <2>4, <2>5 DEF Grows
  <2>7. QED
    BY <2>3, <2>6
<1>3. \A m \in Nat : m \in S
  <2> HIDE DEF S
  <2>1. QED
    BY <1>1, <1>2, Induction
<1>4. QED
  BY <1>3

Complex == Int \X Int

\* Pairs of integers, as numbers.
LEMMA ComplexOps ==
    ASSUME NEW x \in Complex, NEW y \in Complex
    PROVE  Plus(x, y) \in Complex /\ Minus(x, y) \in Complex /\ Times(x, y) \in Complex
  BY DEF Complex, Plus, Minus, Times

LEMMA Zero ==
    ASSUME NEW x \in Complex
    PROVE  /\ Times(Re(0), x) = Re(0) /\ Times(x, Re(0)) = Re(0)
           /\ Plus(Re(0), x) = x /\ Minus(x, Re(0)) = x
  BY DEF Complex, Plus, Minus, Times, Re

LEMMA Commute ==
    ASSUME NEW x \in Complex, NEW y \in Complex
    PROVE  Times(x, y) = Times(y, x)
  BY DEF Complex, Times

LEMMA Parts ==
    ASSUME NEW x \in Complex
    PROVE  \E p \in Int, q \in Int : x = <<p, q>>
  BY DEF Complex

LEMMA TimesPairs ==
    ASSUME NEW p \in Int, NEW q \in Int, NEW u \in Int, NEW v \in Int
    PROVE  Times(<<p, q>>, <<u, v>>) = <<p * u - q * v, p * v + q * u>>
  BY DEF Times

\* One turn of the loop leaves the sum alone: the two terms it takes off the
\* series are in the two factors.  s, t, r are the sines of m+1, m, m+2, u and v
\* the factors before the turn, z and w those after it, q the sum up to m.
LEMMA OneTurn ==
    ASSUME NEW a \in Complex, NEW u \in Complex, NEW v \in Complex, NEW c \in Int, NEW d \in Int,
           NEW s \in Complex, NEW t \in Complex, NEW q \in Complex, NEW r, NEW w, NEW z,
           r = Minus(Times(a, s), t),
           w = Plus(Minus(Times(a, u), v), Re(c)),
           z = Plus(Minus(Times(a, w), u), Re(d))
    PROVE  Minus(Plus(Plus(Plus(q, Times(Re(d), s)), Times(Re(c), r)), Times(u, Minus(Times(a, r), s))), Times(v, r))
               = Minus(Plus(q, Times(z, s)), Times(w, t))
<1>1. PICK ar \in Int, ai \in Int : a = <<ar, ai>>
  BY Parts
<1>2. PICK ur \in Int, ui \in Int : u = <<ur, ui>>
  BY Parts
<1>3. PICK vr \in Int, vi \in Int : v = <<vr, vi>>
  BY Parts
<1>4. PICK sr \in Int, si \in Int : s = <<sr, si>>
  BY Parts
<1>5. PICK tr \in Int, ti \in Int : t = <<tr, ti>>
  BY Parts
<1>6. PICK qr \in Int, qi \in Int : q = <<qr, qi>>
  BY Parts
<1>7. Re(c) \in Complex /\ Re(d) \in Complex
  BY DEF Re, Complex
<1>8. r \in Complex /\ w \in Complex /\ z \in Complex
  BY <1>7, ComplexOps
<1>9. PICK rr \in Int, ri \in Int : r = <<rr, ri>>
  BY <1>8, Parts
<1>10. PICK wr \in Int, wi \in Int : w = <<wr, wi>>
  BY <1>8, Parts
<1>11. PICK zr \in Int, zi \in Int : z = <<zr, zi>>
  BY <1>8, Parts
<1>12. rr = (ar * sr - ai * si) - tr /\ ri = (ar * si + ai * sr) - ti
  BY <1>1, <1>4, <1>5, <1>9 DEF Minus, Times
<1>13. wr = ((ar * ur - ai * ui) - vr) + c /\ wi = (ar * ui + ai * ur) - vi
  BY <1>1, <1>2, <1>3, <1>10 DEF Plus, Minus, Times, Re
<1>14. zr = ((ar * wr - ai * wi) - ur) + d /\ zi = (ar * wi + ai * wr) - ui
  BY <1>1, <1>2, <1>10, <1>11 DEF Plus, Minus, Times, Re
<1>15. Minus(Plus(q, Times(z, s)), Times(w, t))
       = <<(qr + (zr * sr - zi * si)) - (wr * tr - wi * ti),
           (qi + (zr * si + zi * sr)) - (wr * ti + wi * tr)>>
  <2>1. Times(z, s) = <<zr * sr - zi * si, zr * si + zi * sr>>
    BY <1>4, <1>11, TimesPairs
  <2>2. Times(w, t) = <<wr * tr - wi * ti, wr * ti + wi * tr>>
    BY <1>5, <1>10, TimesPairs
  <2>3. QED
    BY <1>6, <2>1, <2>2 DEF Plus, Minus
<1>16. Plus(Plus(q, Times(Re(d), s)), Times(Re(c), r))
       = <<(qr + d * sr) + c * rr, (qi + d * si) + c * ri>>
  <2>1. Times(Re(d), s) = <<d * sr, d * si>>
    BY <1>4 DEF Times, Re
  <2>2. Times(Re(c), r) = <<c * rr, c * ri>>
    BY <1>9 DEF Times, Re
  <2>3. QED
    BY <1>6, <2>1, <2>2 DEF Plus
<1>17. Times(u, Minus(Times(a, r), s))
       = <<ur * ((ar * rr - ai * ri) - sr) - ui * ((ar * ri + ai * rr) - si),
           ur * ((ar * ri + ai * rr) - si) + ui * ((ar * rr - ai * ri) - sr)>>
  BY <1>1, <1>2, <1>4, <1>9 DEF Minus, Times
<1>18. Times(v, r) = <<vr * rr - vi * ri, vr * ri + vi * rr>>
  BY <1>3, <1>9 DEF Times
<1>19. /\ (((qr + d * sr) + c * rr) + (ur * ((ar * rr - ai * ri) - sr) - ui * ((ar * ri + ai * rr) - si)))
           - (vr * rr - vi * ri)
           = (qr + (zr * sr - zi * si)) - (wr * tr - wi * ti)
       /\ (((qi + d * si) + c * ri) + (ur * ((ar * ri + ai * rr) - si) + ui * ((ar * rr - ai * ri) - sr)))
           - (vr * ri + vi * rr)
           = (qi + (zr * si + zi * sr)) - (wr * ti + wi * tr)
  BY <1>12, <1>13, <1>14
<1>20. QED
  BY <1>15, <1>16, <1>17, <1>18, <1>19 DEF Plus, Minus

\* What holds at 0 and is handed on by each step up to n holds of all.
LEMMA UpTo ==
    ASSUME NEW n \in Nat, NEW S, 0 \in S, \A k \in 1 .. n : k - 1 \in S => k \in S
    PROVE  \A k \in 0 .. n : k \in S
<1> DEFINE T == {k \in Nat : k <= n => k \in S}
<1>1. 0 \in T
  OBVIOUS
<1>2. ASSUME NEW k \in Nat, k \in T PROVE k + 1 \in T
  <2>1. k + 1 <= n => k + 1 \in 1 .. n /\ (k + 1) - 1 = k
    OBVIOUS
  <2>2. QED
    BY <1>2, <2>1
<1>3. \A k \in Nat : k \in T
  <2> HIDE DEF T
  <2>1. QED
    BY <1>1, <1>2, Induction
<1>4. QED
  BY <1>3

\* Series.tla's own recursive functions, with a name and what they satisfy.
Sines(n, s, a) ==
    LET sine[k \in 0 .. n] == IF k = 0 THEN Re(0) ELSE IF k = 1 THEN s
                              ELSE Minus(Times(a, sine[k-1]), sine[k-2])
    IN sine

AreSines(sine, n, s, a) ==
    /\ \A k \in 0 .. n : sine[k] \in Complex
    /\ sine[0] = Re(0) /\ (n > 0 => sine[1] = s)
    /\ \A k \in 2 .. n : sine[k] = Minus(Times(a, sine[k-1]), sine[k-2])

LEMMA SineIs ==
    ASSUME NEW n \in Nat, NEW s \in Complex, NEW a \in Complex
    PROVE  AreSines(Sines(n, s, a), n, s, a)
<1> DEFINE sine[k \in 0 .. n] == IF k = 0 THEN Re(0) ELSE IF k = 1 THEN s
                                 ELSE Minus(Times(a, sine[k-1]), sine[k-2])
           V == Complex \X Complex
           G == [kv \in Nat \X V |-> <<kv[2][2], Minus(Times(a, kv[2][2]), kv[2][1])>>]
<1>1. Re(0) \in Complex
  BY DEF Re, Complex
<1>2. /\ G \in [Nat \X V -> V]
      /\ \A k \in Nat, v \in V : G[<<k, v>>] = <<v[2], Minus(Times(a, v[2]), v[1])>>
  <2>1. ASSUME NEW kv \in Nat \X V
        PROVE  <<kv[2][2], Minus(Times(a, kv[2][2]), kv[2][1])>> \in V
    BY ComplexOps
  <2>2. QED
    BY <2>1
<1>3. PICK f \in [0 .. n -> V] : Grows(f, n, <<Re(0), s>>, G)
  <2>1. <<Re(0), s>> \in V
    BY <1>1
  <2> HIDE DEF G, V
  <2>2. QED
    BY <1>2, <2>1, Recursion
<1> DEFINE h == [k \in 0 .. n |-> f[k][1]]
<1>4. f[0][1] = Re(0) /\ f[0][2] = s
  BY <1>3 DEF Grows
<1>5. ASSUME NEW k \in 1 .. n
      PROVE  f[k][1] = f[k-1][2] /\ f[k][2] = Minus(Times(a, f[k-1][2]), f[k-1][1])
  <2>1. k \in Nat /\ k - 1 \in 0 .. n
    OBVIOUS
  <2>2. f[k-1] \in V
    BY <2>1
  <2> HIDE DEF V, G
  <2>3. f[k] = <<f[k-1][2], Minus(Times(a, f[k-1][2]), f[k-1][1])>>
    BY <1>2, <1>3, <2>1, <2>2 DEF Grows
  <2>4. QED
    BY <2>3
<1> HIDE DEF V, G
<1>6. ASSUME NEW k \in 0 .. n
      PROVE  f[k][1] = IF k = 0 THEN Re(0) ELSE IF k = 1 THEN s
                       ELSE Minus(Times(a, h[k-1]), h[k-2])
  <2>1. CASE k = 0
    BY <1>4, <2>1
  <2>2. CASE k = 1
    BY <1>4, <1>5, <2>2
  <2>3. CASE k \notin {0, 1}
    <3>1. k \in 1 .. n /\ k - 1 \in 1 .. n /\ k - 1 \in 0 .. n /\ k - 2 \in 0 .. n /\ (k - 1) - 1 = k - 2
      BY <2>3
    <3>2. h[k-1] = f[k-1][1] /\ h[k-2] = f[k-2][1]
      BY <3>1
    <3> HIDE DEF h
    <3>3. f[k][1] = f[k-1][2] /\ f[k-1][1] = f[k-2][2]
          /\ f[k-1][2] = Minus(Times(a, f[k-2][2]), f[k-2][1])
      BY <1>5, <3>1
    <3>4. QED
      BY <2>3, <3>2, <3>3
  <2>4. QED
    BY <2>1, <2>2, <2>3
<1>7. h = [k \in 0 .. n |-> IF k = 0 THEN Re(0) ELSE IF k = 1 THEN s
                            ELSE Minus(Times(a, h[k-1]), h[k-2])]
  <2> DEFINE e(k) == IF k = 0 THEN Re(0) ELSE IF k = 1 THEN s
                     ELSE Minus(Times(a, h[k-1]), h[k-2])
  <2>1. \A k \in 0 .. n : f[k][1] = e(k)
    BY <1>6
  <2> HIDE DEF e
  <2>2. h = [k \in 0 .. n |-> e(k)]
    BY <2>1
  <2>3. QED
    BY <2>2 DEF e
<1> HIDE DEF h
<1>8. sine = [k \in 0 .. n |-> IF k = 0 THEN Re(0) ELSE IF k = 1 THEN s
                               ELSE Minus(Times(a, sine[k-1]), sine[k-2])]
  BY <1>7, Zenon
<1> HIDE DEF sine
<1>9. /\ sine[0] = Re(0) /\ (n > 0 => sine[1] = s)
      /\ \A k \in 2 .. n : sine[k] = Minus(Times(a, sine[k-1]), sine[k-2])
  BY <1>8
<1>10. \A k \in 0 .. n : sine[k] \in Complex
  <2> DEFINE S == {k \in 0 .. n : \A j \in 0 .. k : sine[j] \in Complex}
  <2>1. 0 \in S
    BY <1>1, <1>9
  <2>2. ASSUME NEW k \in 1 .. n, k - 1 \in S PROVE k \in S
    <3>1. \A j \in 0 .. k - 1 : sine[j] \in Complex
      BY <2>2
    <3>2. sine[k] \in Complex
      <4>1. CASE k = 1
        BY <1>9, <4>1
      <4>2. CASE k # 1
        BY <1>9, <3>1, <4>2, ComplexOps
      <4>3. QED
        BY <4>1, <4>2
    <3>3. QED
      BY <3>1, <3>2
  <2>3. \A k \in 0 .. n : k \in S
    <3> HIDE DEF S
    <3>1. QED
      BY <2>1, <2>2, UpTo
  <2>4. QED
    BY <2>3
<1>11. QED
  BY <1>9, <1>10, Zenon DEF sine, Sines, AreSines

\* The partial sums of a series, of any terms.
Sums(n, c, w) ==
    LET total[k \in 0 .. n] == IF k = 0 THEN Re(0)
                             ELSE Plus(total[k-1], Times(Re(c[k]), w[k]))
    IN total

AreSums(total, n, c, w) ==
    /\ \A k \in 0 .. n : total[k] \in Complex
    /\ total[0] = Re(0)
    /\ \A k \in 1 .. n : total[k] = Plus(total[k-1], Times(Re(c[k]), w[k]))

LEMMA SumIs ==
    ASSUME NEW n \in Nat, NEW c, \A k \in 1 .. n : c[k] \in Int,
           NEW w, \A k \in 0 .. n : w[k] \in Complex
    PROVE  AreSums(Sums(n, c, w), n, c, w)
<1> DEFINE total[k \in 0 .. n] == IF k = 0 THEN Re(0)
                                ELSE Plus(total[k-1], Times(Re(c[k]), w[k]))
           term(k) == Times(Re(c[k]), w[k])
           G == [kv \in Nat \X Complex |->
                   IF kv[1] \in 1 .. n THEN Plus(kv[2], term(kv[1])) ELSE kv[2]]
<1>1. Re(0) \in Complex /\ \A k \in 1 .. n : term(k) \in Complex
  <2>1. ASSUME NEW k \in 1 .. n PROVE term(k) \in Complex
    <3>1. Re(c[k]) \in Complex /\ w[k] \in Complex
      BY DEF Re, Complex
    <3>2. QED
      BY <3>1, ComplexOps
  <2>2. QED
    BY <2>1 DEF Re, Complex
<1> HIDE DEF term
<1>2. G \in [Nat \X Complex -> Complex] /\ \A k \in 1 .. n, v \in Complex : G[<<k, v>>] = Plus(v, term(k))
  <2>1. ASSUME NEW kv \in Nat \X Complex
        PROVE  (IF kv[1] \in 1 .. n THEN Plus(kv[2], term(kv[1])) ELSE kv[2]) \in Complex
    BY <1>1, ComplexOps
  <2>2. G \in [Nat \X Complex -> Complex]
    BY <2>1
  <2>3. ASSUME NEW k \in 1 .. n, NEW v \in Complex PROVE G[<<k, v>>] = Plus(v, term(k))
    <3>1. <<k, v>> \in Nat \X Complex /\ <<k, v>>[1] = k /\ <<k, v>>[2] = v
      OBVIOUS
    <3>2. QED
      BY <3>1
  <2> HIDE DEF G
  <2>4. QED
    BY <2>2, <2>3
<1>3. PICK f \in [0 .. n -> Complex] : Grows(f, n, Re(0), G)
  <2> HIDE DEF G
  <2>1. QED
    BY <1>1, <1>2, Recursion
<1> HIDE DEF G
<1>4. f[0] = Re(0) /\ \A k \in 1 .. n : f[k] = Plus(f[k-1], term(k))
  <2>1. \A k \in 1 .. n : f[k-1] \in Complex
    OBVIOUS
  <2>2. QED
    BY <1>2, <1>3, <2>1 DEF Grows
<1>5. f = [k \in 0 .. n |-> IF k = 0 THEN Re(0) ELSE Plus(f[k-1], Times(Re(c[k]), w[k]))]
  <2>1. f = [k \in 0 .. n |-> IF k = 0 THEN Re(0) ELSE Plus(f[k-1], term(k))]
    BY <1>4
  <2>2. QED
    BY <2>1 DEF term
<1>6. total = [k \in 0 .. n |-> IF k = 0 THEN Re(0) ELSE Plus(total[k-1], Times(Re(c[k]), w[k]))]
  BY <1>5, Zenon
<1> HIDE DEF total
<1>7. total[0] = Re(0) /\ \A k \in 1 .. n : total[k] = Plus(total[k-1], Times(Re(c[k]), w[k]))
  <2>1. total = [k \in 0 .. n |-> IF k = 0 THEN Re(0) ELSE Plus(total[k-1], term(k))]
    BY <1>6 DEF term
  <2>2. total[0] = Re(0) /\ \A k \in 1 .. n : total[k] = Plus(total[k-1], term(k))
    BY <2>1
  <2>3. QED
    BY <2>2 DEF term
<1>8. \A k \in 0 .. n : total[k] \in Complex
  <2> DEFINE S == {k \in 0 .. n : total[k] \in Complex}
  <2>1. 0 \in S
    BY <1>1, <1>7
  <2>2. ASSUME NEW k \in 1 .. n, k - 1 \in S PROVE k \in S
    <3>1. total[k] = Plus(total[k-1], term(k)) /\ total[k-1] \in Complex /\ term(k) \in Complex
      BY <1>1, <1>7, <2>2 DEF term
    <3>2. QED
      BY <3>1, ComplexOps
  <2>3. \A k \in 0 .. n : k \in S
    <3> HIDE DEF S
    <3>1. QED
      BY <2>1, <2>2, UpTo
  <2>4. QED
    BY <2>3
<1>9. QED
  BY <1>7, <1>8, Zenon DEF total, Sums, AreSums

\* The turns of the loop: two coefficients to each.
TurnOf(c, a, top, k, v) ==
    LET n  == top - 2 * (k - 1)
        x1 == Plus(Minus(Times(a, v[1]), v[2]), Re(c[n]))
        x0 == Plus(Minus(Times(a, x1), v[1]), Re(c[n - 1]))
    IN <<x0, x1>>

Turns(T, top, c, a, b) ==
    LET acc[k \in 0 .. T] ==
            IF k = 0
            THEN <<b, Re(0)>>
            ELSE LET m  == top - 2 * (k - 1)
                     x1 == Plus(Minus(Times(a, acc[k-1][1]), acc[k-1][2]), Re(c[m]))
                     x0 == Plus(Minus(Times(a, x1), acc[k-1][1]), Re(c[m - 1]))
                 IN <<x0, x1>>
    IN acc

AreTurns(acc, T, top, c, a, b) ==
    /\ \A k \in 0 .. T : acc[k] \in Complex \X Complex
    /\ acc[0] = <<b, Re(0)>>
    /\ \A k \in 1 .. T : acc[k] = TurnOf(c, a, top, k, acc[k-1])

LEMMA TurnsAre ==
    ASSUME NEW n \in Nat, NEW c, \A k \in 1 .. n : c[k] \in Int,
           NEW a \in Complex, NEW b \in Complex,
           NEW T \in Nat, NEW top, top = 2 * T, top <= n
    PROVE  AreTurns(Turns(T, top, c, a, b), T, top, c, a, b)
<1> DEFINE acc[k \in 0 .. T] ==
               IF k = 0
               THEN <<b, Re(0)>>
               ELSE LET m  == top - 2 * (k - 1)
                        x1 == Plus(Minus(Times(a, acc[k-1][1]), acc[k-1][2]), Re(c[m]))
                        x0 == Plus(Minus(Times(a, x1), acc[k-1][1]), Re(c[m - 1]))
                    IN <<x0, x1>>
           V == Complex \X Complex
           G == [kv \in Nat \X V |->
                   IF kv[1] \in 1 .. T THEN TurnOf(c, a, top, kv[1], kv[2]) ELSE kv[2]]
<1>1. ASSUME NEW k \in 1 .. T, NEW v \in V PROVE TurnOf(c, a, top, k, v) \in V
  <2> DEFINE m  == top - 2 * (k - 1)
             x1 == Plus(Minus(Times(a, v[1]), v[2]), Re(c[m]))
             x0 == Plus(Minus(Times(a, x1), v[1]), Re(c[m - 1]))
  <2>1. m \in 1 .. n /\ m - 1 \in 1 .. n
    OBVIOUS
  <2>2. Re(c[m]) \in Complex /\ Re(c[m - 1]) \in Complex
    <3> HIDE DEF m
    <3>1. QED
      BY <2>1 DEF Re, Complex
  <2>3. x1 \in Complex
    <3> HIDE DEF m
    <3>1. v[1] \in Complex /\ v[2] \in Complex
      OBVIOUS
    <3>2. QED
      BY <2>2, <3>1, ComplexOps
  <2>4. x0 \in Complex
    <3> HIDE DEF m, x1
    <3>1. v[1] \in Complex
      OBVIOUS
    <3>2. QED
      BY <2>2, <2>3, <3>1, ComplexOps
  <2>5. QED
    BY <2>3, <2>4 DEF TurnOf
<1>2. <<b, Re(0)>> \in V
  BY DEF Re, Complex
<1> HIDE DEF V
<1>3. G \in [Nat \X V -> V] /\ \A k \in 1 .. T, v \in V : G[<<k, v>>] = TurnOf(c, a, top, k, v)
  <2>1. ASSUME NEW kv \in Nat \X V
        PROVE  (IF kv[1] \in 1 .. T THEN TurnOf(c, a, top, kv[1], kv[2]) ELSE kv[2]) \in V
    BY <1>1
  <2>2. G \in [Nat \X V -> V]
    BY <2>1
  <2>3. ASSUME NEW k \in 1 .. T, NEW v \in V PROVE G[<<k, v>>] = TurnOf(c, a, top, k, v)
    <3>1. <<k, v>> \in Nat \X V /\ <<k, v>>[1] = k /\ <<k, v>>[2] = v
      OBVIOUS
    <3>2. QED
      BY <3>1
  <2> HIDE DEF G
  <2>4. QED
    BY <2>2, <2>3
<1>4. PICK f \in [0 .. T -> V] : Grows(f, T, <<b, Re(0)>>, G)
  <2> HIDE DEF G
  <2>1. QED
    BY <1>2, <1>3, Recursion
<1> HIDE DEF G
<1>5. f[0] = <<b, Re(0)>> /\ \A k \in 1 .. T : f[k] = TurnOf(c, a, top, k, f[k-1])
  <2>1. \A k \in 1 .. T : f[k-1] \in V
    OBVIOUS
  <2>2. QED
    BY <1>3, <1>4, <2>1 DEF Grows
<1>6. f = [k \in 0 .. T |-> IF k = 0 THEN <<b, Re(0)>> ELSE TurnOf(c, a, top, k, f[k-1])]
  <2> DEFINE e(k) == IF k = 0 THEN <<b, Re(0)>> ELSE TurnOf(c, a, top, k, f[k-1])
  <2>1. ASSUME NEW k \in 0 .. T PROVE f[k] = e(k)
    <3>1. k = 0 \/ k \in 1 .. T
      OBVIOUS
    <3>2. QED
      BY <1>5, <3>1
  <2> HIDE DEF e
  <2>2. f = [k \in 0 .. T |-> e(k)]
    BY <2>1
  <2>3. QED
    BY <2>2 DEF e
<1>7. acc = [k \in 0 .. T |-> IF k = 0 THEN <<b, Re(0)>> ELSE TurnOf(c, a, top, k, acc[k-1])]
  BY <1>6, Zenon DEF TurnOf
<1> HIDE DEF acc
<1>8. acc[0] = <<b, Re(0)>> /\ \A k \in 1 .. T : acc[k] = TurnOf(c, a, top, k, acc[k-1])
  <2> DEFINE e(k) == IF k = 0 THEN <<b, Re(0)>> ELSE TurnOf(c, a, top, k, acc[k-1])
  <2>1. acc = [k \in 0 .. T |-> e(k)]
    BY <1>7
  <2> HIDE DEF e
  <2>2. \A k \in 0 .. T : acc[k] = e(k)
    BY <2>1
  <2>3. QED
    BY <2>2 DEF e
<1>9. \A k \in 0 .. T : acc[k] \in V
  <2> DEFINE S == {k \in 0 .. T : acc[k] \in V}
  <2>1. 0 \in S
    <3>1. acc[0] \in V
      BY <1>2, <1>8, Zenon
    <3>2. QED
      BY <3>1
  <2>2. ASSUME NEW k \in 1 .. T, k - 1 \in S PROVE k \in S
    BY <1>1, <1>8, <2>2
  <2>3. \A k \in 0 .. T : k \in S
    <3> HIDE DEF S
    <3>1. QED
      BY <2>1, <2>2, UpTo
  <2>4. QED
    BY <2>3
<1>10. QED
  BY <1>8, <1>9, Zenon DEF acc, V, Turns, AreTurns

\* The first factor of Clenshaw's recurrence stands for the next sine.
NextSine(f, s, a, m) == IF m = 0 THEN s ELSE Minus(Times(a, f[m]), f[m-1])

LEMMA ClenshawSums ==
    ASSUME NEW coef, Len(coef) \in Nat \ {0}, \A k \in 1 .. Len(coef) : coef[k] \in Int,
           NEW s \in Complex, NEW a \in Complex
    PROVE  Clenshaw(coef, s, a) = TrigonometricSum(coef, s, a)
<1> DEFINE n    == Len(coef)
           odd  == n % 2 = 1
           top  == IF odd THEN n - 1 ELSE n
           T    == top \div 2
           b    == IF odd THEN Re(coef[n]) ELSE Re(0)
           acc  == Turns(T, top, coef, a, b)
           sine == Sines(n, s, a)
           total  == Sums(n, coef, sine)
<1>1. Clenshaw(coef, s, a) = Times(s, acc[T][1])
  BY Zenon DEF Clenshaw, Turns
<1>2. TrigonometricSum(coef, s, a) = total[n]
  BY Zenon DEF TrigonometricSum, Sums, Sines
<1>3. n \in Nat \ {0} /\ n \in Nat /\ n > 0 /\ \A k \in 1 .. n : coef[k] \in Int
  OBVIOUS
<1> HIDE DEF n
<1>4. top \in Nat /\ T \in Nat /\ top = 2 * T /\ top <= n /\ (odd => n = top + 1) /\ (~odd => n = top)
  BY <1>3, Z3
<1>5. Re(0) \in Complex /\ \A k \in 1 .. n : Re(coef[k]) \in Complex
  BY <1>3 DEF Re, Complex
<1>6. b \in Complex
  BY <1>3, <1>5
<1>7. AreSines(sine, n, s, a)
  BY <1>3, SineIs
<1> HIDE DEF sine
<1>8. AreSums(total, n, coef, sine)
  <2>1. \A k \in 0 .. n : sine[k] \in Complex
    BY <1>7 DEF AreSines
  <2>2. QED
    BY <1>3, <2>1, SumIs
<1>9. AreTurns(acc, T, top, coef, a, b)
  <2> HIDE DEF total, b, top, T
  <2>1. QED
    BY <1>3, <1>4, <1>6, TurnsAre
<1> HIDE DEF total, b, top, T, acc
\* What the total lacks below the turn is in its two factors.
<1> DEFINE left(k) == top - 2 * k
           Rest(k) == Minus(Plus(total[left(k)], Times(acc[k][1], NextSine(sine, s, a, left(k)))),
                            Times(acc[k][2], sine[left(k)]))
<1>10. /\ \A k \in 0 .. n : total[k] \in Complex /\ sine[k] \in Complex
       /\ total[0] = Re(0) /\ sine[0] = Re(0)
  BY <1>7, <1>8 DEF AreSums, AreSines
<1>11. ASSUME NEW m \in 0 .. n - 1 PROVE NextSine(sine, s, a, m) = sine[m + 1]
  <2>1. CASE m = 0
    BY <1>3, <1>7, <2>1 DEF NextSine, AreSines
  <2>2. CASE m # 0
    <3>1. m + 1 \in 2 .. n /\ (m + 1) - 1 = m /\ (m + 1) - 2 = m - 1
      BY <1>3, <2>2
    <3>2. sine[m + 1] = Minus(Times(a, sine[(m + 1) - 1]), sine[(m + 1) - 2])
      BY <1>7, <3>1 DEF AreSines
    <3>3. QED
      BY <2>2, <3>1, <3>2 DEF NextSine
  <2>3. QED
    BY <2>1, <2>2
<1>12. total[n] = Rest(0)
  <2>1. left(0) = top /\ acc[0][1] = b /\ acc[0][2] = Re(0)
    BY <1>4, <1>9 DEF AreTurns
  <2>2. top \in 0 .. n
    BY <1>3, <1>4
  <2>3. total[top] \in Complex /\ sine[top] \in Complex
    BY <1>10, <2>2
  <2>4. NextSine(sine, s, a, top) \in Complex
    <3>1. CASE top = 0
      BY <3>1 DEF NextSine
    <3>2. CASE top # 0
      <4>1. top - 1 \in 0 .. n
        BY <1>3, <2>2, <3>2
      <4>2. sine[top - 1] \in Complex
        BY <1>10, <4>1
      <4>3. QED
        BY <2>3, <3>2, <4>2, ComplexOps DEF NextSine
    <3>3. QED
      BY <3>1, <3>2
  <2>5. total[n] = Plus(total[top], Times(b, NextSine(sine, s, a, top)))
    <3>1. CASE odd
      <4>1. n = top + 1 /\ top \in 0 .. n - 1 /\ n \in 1 .. n /\ n - 1 = top
        BY <1>3, <1>4, <3>1
      <4>2. b = Re(coef[n])
        BY <3>1 DEF b
      <4>3. total[n] = Plus(total[n-1], Times(Re(coef[n]), sine[n]))
        BY <1>8, <4>1 DEF AreSums
      <4>4. NextSine(sine, s, a, top) = sine[n]
        BY <1>11, <4>1
      <4> HIDE DEF odd
      <4>5. QED
        BY <4>1, <4>2, <4>3, <4>4
    <3>2. CASE ~odd
      <4>1. n = top
        BY <1>4, <3>2
      <4>2. b = Re(0)
        BY <3>2 DEF b
      <4> HIDE DEF odd
      <4>3. Times(b, NextSine(sine, s, a, top)) = Re(0)
        BY <2>4, <4>2, Zero
      <4>4. Plus(total[top], Re(0)) = total[top]
        BY <2>3 DEF Plus, Re, Complex
      <4>5. QED
        BY <4>1, <4>3, <4>4
    <3>3. QED
      BY <3>1, <3>2
  <2>6. Times(acc[0][2], sine[top]) = Re(0)
    BY <2>1, <2>3, Zero
  <2>7. total[n] \in Complex
    BY <1>3, <1>10
  <2>8. Minus(total[n], Re(0)) = total[n]
    BY <2>7, Zero
  <2>9. QED
    BY <2>1, <2>5, <2>6, <2>8
<1>13. ASSUME NEW k \in 1 .. T PROVE Rest(k - 1) = Rest(k)
  <2> DEFINE m == left(k)
             u == acc[k-1][1]
             v == acc[k-1][2]
             w == acc[k][2]
             z == acc[k][1]
  <2>1. left(k - 1) = m + 2 /\ m \in 0 .. n - 2 /\ top - 2 * (k - 1) = m + 2
    BY <1>3, <1>4
  <2> HIDE DEF m, left
  <2>2. /\ m \in 0 .. n /\ m + 1 \in 1 .. n /\ m + 2 \in 2 .. n /\ m + 1 \in 0 .. n - 1 /\ m \in 0 .. n - 1
        /\ m + 1 \in 0 .. n /\ m + 2 \in 0 .. n /\ m + 2 \in 1 .. n
        /\ (m + 2) - 1 = m + 1 /\ (m + 2) - 2 = m /\ (m + 1) - 1 = m /\ m + 2 # 0 /\ (m + 1) + 1 = m + 2
    BY <1>3, <2>1
  <2>3. u \in Complex /\ v \in Complex
    <3>1. k - 1 \in 0 .. T
      BY <1>4
    <3>2. acc[k-1] \in Complex \X Complex
      BY <1>9, <3>1 DEF AreTurns
    <3>3. QED
      BY <3>2
  <2>4. coef[m + 1] \in Int /\ coef[m + 2] \in Int
    BY <1>3, <2>2
  <2>5. sine[m] \in Complex /\ sine[m + 1] \in Complex /\ total[m] \in Complex
    BY <1>10, <2>2
  <2>6. /\ w = Plus(Minus(Times(a, u), v), Re(coef[m + 2]))
        /\ z = Plus(Minus(Times(a, w), u), Re(coef[m + 1]))
    <3>1. acc[k] = TurnOf(coef, a, top, k, acc[k-1])
      BY <1>9 DEF AreTurns
    <3>2. acc[k] = LET x1 == Plus(Minus(Times(a, u), v), Re(coef[m + 2]))
                   IN <<Plus(Minus(Times(a, x1), u), Re(coef[(m + 2) - 1])), x1>>
      BY <2>1, <3>1, Zenon DEF TurnOf
    <3>3. QED
      BY <2>2, <3>2
  <2>7. sine[m + 2] = Minus(Times(a, sine[m + 1]), sine[m])
    <3>1. sine[m + 2] = Minus(Times(a, sine[(m + 2) - 1]), sine[(m + 2) - 2])
      BY <1>7, <2>2 DEF AreSines
    <3>2. QED
      BY <2>2, <3>1
  <2>8. total[m + 2] = Plus(Plus(total[m], Times(Re(coef[m + 1]), sine[m + 1])),
                          Times(Re(coef[m + 2]), sine[m + 2]))
    <3>1. total[m + 2] = Plus(total[(m + 2) - 1], Times(Re(coef[m + 2]), sine[m + 2]))
      BY <1>8, <2>2 DEF AreSums
    <3>2. total[m + 1] = Plus(total[(m + 1) - 1], Times(Re(coef[m + 1]), sine[m + 1]))
      BY <1>8, <2>2 DEF AreSums
    <3>3. QED
      BY <2>2, <3>1, <3>2
  <2>9. /\ NextSine(sine, s, a, m + 2) = Minus(Times(a, sine[m + 2]), sine[m + 1])
        /\ NextSine(sine, s, a, m) = sine[m + 1]
    <3>1. NextSine(sine, s, a, m + 2) = Minus(Times(a, sine[m + 2]), sine[(m + 2) - 1])
      BY <2>2 DEF NextSine
    <3>2. NextSine(sine, s, a, m) = sine[m + 1]
      BY <1>11, <2>2
    <3>3. QED
      BY <2>2, <3>1, <3>2
  <2> HIDE DEF u, v, w, z
  <2>10. Minus(Plus(Plus(Plus(total[m], Times(Re(coef[m + 1]), sine[m + 1])),
                         Times(Re(coef[m + 2]), sine[m + 2])),
                    Times(u, Minus(Times(a, sine[m + 2]), sine[m + 1]))),
               Times(v, sine[m + 2]))
         = Minus(Plus(total[m], Times(z, sine[m + 1])), Times(w, sine[m]))
    BY <2>3, <2>4, <2>5, <2>6, <2>7, OneTurn
  <2>11. Rest(k - 1) = Minus(Plus(total[m + 2], Times(u, NextSine(sine, s, a, m + 2))),
                             Times(v, sine[m + 2]))
    BY <2>1 DEF u, v
  <2>12. Rest(k) = Minus(Plus(total[m], Times(z, NextSine(sine, s, a, m))),
                         Times(w, sine[m]))
    BY DEF m, w, z
  <2> HIDE DEF Rest
  <2>13. QED
    BY <2>8, <2>9, <2>10, <2>11, <2>12
<1>14. total[n] = Rest(T)
  <2> DEFINE S == {k \in 0 .. T : total[n] = Rest(k)}
  <2>1. 0 \in S
    BY <1>4, <1>12
  <2> HIDE DEF Rest
  <2>2. ASSUME NEW k \in 1 .. T, k - 1 \in S PROVE k \in S
    BY <1>13, <2>2
  <2>3. \A k \in 0 .. T : k \in S
    <3> HIDE DEF S
    <3>1. QED
      BY <1>4, <2>1, <2>2, UpTo
  <2>4. T \in 0 .. T
    BY <1>4
  <2>5. QED
    BY <2>3, <2>4
<1>15. Rest(T) = Times(acc[T][1], s)
  <2>1. left(T) = 0
    BY <1>4
  <2>2. acc[T] \in Complex \X Complex
    BY <1>4, <1>9 DEF AreTurns
  <2>3. acc[T][1] \in Complex /\ acc[T][2] \in Complex /\ Times(acc[T][1], s) \in Complex
    BY <2>2, ComplexOps
  <2>4. NextSine(sine, s, a, 0) = s
    BY DEF NextSine
  <2>5. Rest(T) = Minus(Plus(Re(0), Times(acc[T][1], s)), Times(acc[T][2], Re(0)))
    BY <1>10, <2>1, <2>4
  <2>6. QED
    BY <2>3, <2>5, Zero
<1>16. acc[T][1] \in Complex
  <2>1. acc[T] \in Complex \X Complex
    BY <1>4, <1>9 DEF AreTurns
  <2>2. QED
    BY <2>1
<1> HIDE DEF Rest
<1>17. QED
  BY <1>1, <1>2, <1>14, <1>15, <1>16, Commute

\* The polynomial.
Powers(n, xi) ==
    LET power[k \in 0 .. n] == IF k = 0 THEN 1 ELSE xi * power[k-1]
    IN power

ArePowers(power, n, xi) ==
    /\ \A k \in 0 .. n : power[k] \in Int
    /\ power[0] = 1 /\ \A k \in 1 .. n : power[k] = xi * power[k-1]

LEMMA PowersAre ==
    ASSUME NEW n \in Nat, NEW xi \in Int
    PROVE  ArePowers(Powers(n, xi), n, xi)
<1> DEFINE power[k \in 0 .. n] == IF k = 0 THEN 1 ELSE xi * power[k-1]
           G == [kv \in Nat \X Int |-> xi * kv[2]]
<1>1. G \in [Nat \X Int -> Int] /\ \A k \in Nat, v \in Int : G[<<k, v>>] = xi * v
  OBVIOUS
<1>2. PICK f \in [0 .. n -> Int] : Grows(f, n, 1, G)
  <2> HIDE DEF G
  <2>1. 1 \in Int
    OBVIOUS
  <2>2. QED
    BY <1>1, <2>1, Recursion
<1> HIDE DEF G
<1>3. f[0] = 1 /\ \A k \in 1 .. n : f[k] = xi * f[k - 1]
  <2>1. \A k \in 1 .. n : k \in Nat /\ f[k-1] \in Int
    OBVIOUS
  <2>2. QED
    BY <1>1, <1>2, <2>1 DEF Grows
<1>4. f = [k \in 0 .. n |-> IF k = 0 THEN 1 ELSE xi * f[k-1]]
  BY <1>2, <1>3
<1>5. power = [k \in 0 .. n |-> IF k = 0 THEN 1 ELSE xi * power[k-1]]
  BY <1>4, Zenon
<1> HIDE DEF power
<1>6. power[0] = 1 /\ \A k \in 1 .. n : power[k] = xi * power[k-1]
  BY <1>5
<1>7. \A k \in 0 .. n : power[k] \in Int
  <2> DEFINE S == {k \in 0 .. n : power[k] \in Int}
  <2>1. 0 \in S /\ \A k \in 1 .. n : k - 1 \in S => k \in S
    BY <1>6
  <2>2. \A k \in 0 .. n : k \in S
    <3> HIDE DEF S
    <3>1. QED
      BY <2>1, UpTo
  <2>3. QED
    BY <2>2
<1>8. QED
  BY <1>6, <1>7, Zenon DEF power, Powers, ArePowers

Weighted(n, p, power) ==
    LET total[j \in 0 .. n] == IF j = 0 THEN 0 ELSE total[j-1] + p[j] * power[n - j]
    IN total

AreWeighted(total, n, p, power) ==
    /\ \A k \in 0 .. n : total[k] \in Int
    /\ total[0] = 0 /\ \A k \in 1 .. n : total[k] = total[k-1] + p[k] * power[n - k]

LEMMA WeightedAre ==
    ASSUME NEW n \in Nat, NEW p, \A k \in 1 .. n : p[k] \in Int,
           NEW power, \A k \in 0 .. n : power[k] \in Int
    PROVE  AreWeighted(Weighted(n, p, power), n, p, power)
<1> DEFINE total[j \in 0 .. n] == IF j = 0 THEN 0 ELSE total[j-1] + p[j] * power[n - j]
           term(k) == p[k] * power[n - k]
           G == [kv \in Nat \X Int |->
                   IF kv[1] \in 1 .. n THEN kv[2] + term(kv[1]) ELSE kv[2]]
<1>1. \A k \in 1 .. n : term(k) \in Int
  <2>1. ASSUME NEW k \in 1 .. n PROVE term(k) \in Int
    <3>1. n - k \in 0 .. n
      OBVIOUS
    <3>2. p[k] \in Int /\ power[n - k] \in Int
      BY <3>1
    <3>3. QED
      BY <3>2
  <2>2. QED
    BY <2>1
<1> HIDE DEF term
<1>2. G \in [Nat \X Int -> Int] /\ \A k \in 1 .. n, v \in Int : G[<<k, v>>] = v + term(k)
  <2>1. ASSUME NEW kv \in Nat \X Int
        PROVE  (IF kv[1] \in 1 .. n THEN kv[2] + term(kv[1]) ELSE kv[2]) \in Int
    BY <1>1
  <2>2. G \in [Nat \X Int -> Int]
    BY <2>1
  <2>3. ASSUME NEW k \in 1 .. n, NEW v \in Int PROVE G[<<k, v>>] = v + term(k)
    <3>1. <<k, v>> \in Nat \X Int /\ <<k, v>>[1] = k /\ <<k, v>>[2] = v
      OBVIOUS
    <3>2. QED
      BY <3>1
  <2> HIDE DEF G
  <2>4. QED
    BY <2>2, <2>3
<1>3. PICK f \in [0 .. n -> Int] : Grows(f, n, 0, G)
  <2> HIDE DEF G
  <2>1. 0 \in Int
    OBVIOUS
  <2>2. QED
    BY <1>2, <2>1, Recursion
<1> HIDE DEF G
<1>4. f[0] = 0 /\ \A k \in 1 .. n : f[k] = f[k-1] + term(k)
  <2>1. \A k \in 1 .. n : f[k-1] \in Int
    OBVIOUS
  <2>2. QED
    BY <1>2, <1>3, <2>1 DEF Grows
<1>5. f = [j \in 0 .. n |-> IF j = 0 THEN 0 ELSE f[j-1] + p[j] * power[n - j]]
  <2>1. f = [j \in 0 .. n |-> IF j = 0 THEN 0 ELSE f[j-1] + term(j)]
    BY <1>4
  <2>2. QED
    BY <2>1 DEF term
<1>6. total = [j \in 0 .. n |-> IF j = 0 THEN 0 ELSE total[j-1] + p[j] * power[n - j]]
  BY <1>5, Zenon
<1> HIDE DEF total
<1>7. total[0] = 0 /\ \A k \in 1 .. n : total[k] = total[k-1] + term(k)
  <2>1. total = [j \in 0 .. n |-> IF j = 0 THEN 0 ELSE total[j-1] + term(j)]
    BY <1>6 DEF term
  <2>2. QED
    BY <2>1
<1>8. \A k \in 0 .. n : total[k] \in Int
  <2> DEFINE S == {k \in 0 .. n : total[k] \in Int}
  <2>1. 0 \in S
    BY <1>7
  <2>2. ASSUME NEW k \in 1 .. n, k - 1 \in S PROVE k \in S
    BY <1>1, <1>7, <2>2
  <2>3. \A k \in 0 .. n : k \in S
    <3> HIDE DEF S
    <3>1. QED
      BY <2>1, <2>2, UpTo
  <2>4. QED
    BY <2>3
<1>9. QED
  BY <1>7, <1>8, Zenon DEF total, Weighted, AreWeighted, term

\* Horner's scheme.
Hornered(n, p, xi) ==
    LET y[j \in 1 .. n] == IF j = 1 THEN p[1] ELSE xi * y[j-1] + p[j]
    IN y

AreHornered(y, n, p, xi) ==
    /\ \A k \in 1 .. n : y[k] \in Int
    /\ y[1] = p[1] /\ \A k \in 2 .. n : y[k] = xi * y[k-1] + p[k]

LEMMA HorneredAre ==
    ASSUME NEW n \in Nat \ {0}, NEW p, \A k \in 1 .. n : p[k] \in Int, NEW xi \in Int
    PROVE  AreHornered(Hornered(n, p, xi), n, p, xi)
<1> DEFINE y[j \in 1 .. n] == IF j = 1 THEN p[1] ELSE xi * y[j-1] + p[j]
           G == [kv \in Nat \X Int |->
                   IF kv[1] \in 1 .. n - 1 THEN xi * kv[2] + p[kv[1] + 1] ELSE kv[2]]
<1>1. G \in [Nat \X Int -> Int] /\ \A k \in 1 .. n - 1, v \in Int : G[<<k, v>>] = xi * v + p[k + 1]
  <2>1. ASSUME NEW kv \in Nat \X Int
        PROVE  (IF kv[1] \in 1 .. n - 1 THEN xi * kv[2] + p[kv[1] + 1] ELSE kv[2]) \in Int
    <3>1. kv[1] \in 1 .. n - 1 => kv[1] + 1 \in 1 .. n
      OBVIOUS
    <3>2. kv[1] \in 1 .. n - 1 => p[kv[1] + 1] \in Int
      BY <3>1
    <3>3. kv[2] \in Int /\ xi * kv[2] \in Int
      OBVIOUS
    <3>4. QED
      BY <3>2, <3>3
  <2>2. G \in [Nat \X Int -> Int]
    BY <2>1
  <2>3. ASSUME NEW k \in 1 .. n - 1, NEW v \in Int PROVE G[<<k, v>>] = xi * v + p[k + 1]
    <3>1. <<k, v>> \in Nat \X Int /\ <<k, v>>[1] = k /\ <<k, v>>[2] = v
      OBVIOUS
    <3>2. QED
      BY <3>1
  <2> HIDE DEF G
  <2>4. QED
    BY <2>2, <2>3
<1>2. p[1] \in Int /\ n - 1 \in Nat
  OBVIOUS
<1>3. PICK f \in [0 .. n - 1 -> Int] : Grows(f, n - 1, p[1], G)
  <2> HIDE DEF G
  <2>1. QED
    BY <1>1, <1>2, Recursion
<1> HIDE DEF G
<1>4. f[0] = p[1] /\ \A k \in 1 .. n - 1 : f[k] = xi * f[k-1] + p[k + 1]
  <2>1. \A k \in 1 .. n - 1 : f[k-1] \in Int
    OBVIOUS
  <2>2. QED
    BY <1>1, <1>3, <2>1 DEF Grows
<1> DEFINE h == [j \in 1 .. n |-> f[j - 1]]
<1>5. ASSUME NEW j \in 1 .. n
      PROVE  f[j - 1] = IF j = 1 THEN p[1] ELSE xi * h[j-1] + p[j]
  <2>1. CASE j = 1
    BY <1>4, <2>1
  <2>2. CASE j # 1
    <3>1. j - 1 \in 1 .. n - 1 /\ j - 1 \in 1 .. n /\ (j - 1) + 1 = j
      BY <2>2
    <3>2. h[j - 1] = f[(j - 1) - 1]
      BY <3>1
    <3> HIDE DEF h
    <3>3. f[j - 1] = xi * f[(j - 1) - 1] + p[(j - 1) + 1]
      BY <1>4, <3>1
    <3>4. QED
      BY <2>2, <3>1, <3>2, <3>3
  <2>3. QED
    BY <2>1, <2>2
<1>6. h = [j \in 1 .. n |-> IF j = 1 THEN p[1] ELSE xi * h[j-1] + p[j]]
  <2> DEFINE e(j) == IF j = 1 THEN p[1] ELSE xi * h[j-1] + p[j]
  <2>1. \A j \in 1 .. n : f[j - 1] = e(j)
    BY <1>5
  <2> HIDE DEF e
  <2>2. h = [j \in 1 .. n |-> e(j)]
    BY <2>1
  <2>3. QED
    BY <2>2 DEF e
<1> HIDE DEF h
<1>7. y = [j \in 1 .. n |-> IF j = 1 THEN p[1] ELSE xi * y[j-1] + p[j]]
  BY <1>6, Zenon
<1> HIDE DEF y
<1>8. y[1] = p[1] /\ \A k \in 2 .. n : y[k] = xi * y[k-1] + p[k]
  BY <1>7
<1>9. \A k \in 1 .. n : y[k] \in Int
  <2> DEFINE S == {k \in 0 .. n : k = 0 \/ y[k] \in Int}
  <2>1. 0 \in S
    OBVIOUS
  <2>2. ASSUME NEW k \in 1 .. n, k - 1 \in S PROVE k \in S
    <3>1. CASE k = 1
      BY <1>2, <1>8, <3>1
    <3>2. CASE k # 1
      <4>1. y[k - 1] \in Int /\ p[k] \in Int /\ y[k] = xi * y[k-1] + p[k]
        BY <1>8, <2>2, <3>2
      <4>2. QED
        BY <4>1
    <3>3. QED
      BY <3>1, <3>2
  <2>3. \A k \in 0 .. n : k \in S
    <3> HIDE DEF S
    <3>1. n \in Nat
      OBVIOUS
    <3>2. QED
      BY <2>1, <2>2, <3>1, UpTo
  <2>4. QED
    BY <2>3
<1>10. QED
  BY <1>8, <1>9, Zenon DEF y, Hornered, AreHornered

LEMMA HornerSums ==
    ASSUME NEW p, Len(p) \in Nat \ {0}, \A k \in 1 .. Len(p) : p[k] \in Int,
           NEW x, NEW mu, (x - mu[1]) \div mu[2] \in Int
    PROVE  Horner(p, x, mu) = PolynomialSum(p, (x - mu[1]) \div mu[2])
<1> DEFINE n  == Len(p)
           xi == (x - mu[1]) \div mu[2]
           y  == Hornered(n, p, xi)
           power == Powers(n, xi)
           total == Weighted(n, p, power)
<1>1. Horner(p, x, mu) = y[n]
  BY Zenon DEF Horner, Hornered
<1>2. PolynomialSum(p, xi) = total[n]
  BY Zenon DEF PolynomialSum, Weighted, Powers
<1>3. n \in Nat \ {0} /\ n \in Nat /\ xi \in Int /\ \A k \in 1 .. n : p[k] \in Int
  OBVIOUS
<1> HIDE DEF n, xi
<1>4. AreHornered(y, n, p, xi)
  BY <1>3, HorneredAre
<1>5. ArePowers(power, n, xi)
  BY <1>3, PowersAre
<1> HIDE DEF y, power
<1>6. AreWeighted(total, n, p, power)
  <2>1. \A k \in 0 .. n : power[k] \in Int
    BY <1>5 DEF ArePowers
  <2>2. QED
    BY <1>3, <2>1, WeightedAre
<1> HIDE DEF total
<1>7. \A j \in 1 .. n : y[j] * power[n - j] = total[j]
  <2> DEFINE S == {j \in 0 .. n : j = 0 \/ y[j] * power[n - j] = total[j]}
  <2>1. ASSUME NEW j \in 1 .. n, j - 1 \in S PROVE j \in S
    <3>1. /\ n - j \in 0 .. n /\ (n - j) + 1 \in 1 .. n /\ ((n - j) + 1) - 1 = n - j
          /\ n - (j - 1) = (n - j) + 1
      BY <1>3
    <3>2. power[n - j] \in Int /\ power[(n - j) + 1] = xi * power[n - j]
      BY <1>5, <3>1 DEF ArePowers
    <3>3. y[j] \in Int /\ p[j] \in Int /\ total[j] = total[j-1] + p[j] * power[n - j]
      BY <1>3, <1>4, <1>6 DEF AreHornered, AreWeighted
    <3>4. CASE j = 1
      <4>1. y[j] = p[j] /\ total[j - 1] = 0
        BY <1>4, <1>6, <3>4 DEF AreHornered, AreWeighted
      <4>2. y[j] * power[n - j] = total[j]
        BY <3>2, <3>3, <4>1
      <4>3. QED
        BY <1>3, <4>2
    <3>5. CASE j # 1
      <4>1. j \in 2 .. n /\ j - 1 \in 1 .. n
        BY <1>3, <3>5
      <4>2. y[j] = xi * y[j-1] + p[j] /\ y[j-1] \in Int
        BY <1>4, <4>1 DEF AreHornered
      <4>3. y[j-1] * power[(n - j) + 1] = total[j-1]
        BY <2>1, <3>1, <4>1
      <4>4. PICK b \in Int, c \in Int, d \in Int : b = y[j-1] /\ c = p[j] /\ d = power[n - j]
        BY <3>2, <3>3, <4>2
      <4>5. (xi * b + c) * d = b * (xi * d) + c * d
        BY <1>3
      <4>6. y[j] * power[n - j] = total[j]
        BY <3>2, <3>3, <4>2, <4>3, <4>4, <4>5
      <4>7. QED
        BY <4>6
    <3>6. QED
      BY <3>4, <3>5
  <2>2. 0 \in S
    BY <1>3
  <2>3. \A j \in 0 .. n : j \in S
    <3> HIDE DEF S
    <3>1. QED
      BY <1>3, <2>1, <2>2, UpTo
  <2>4. QED
    BY <2>3
<1>8. y[n] * power[0] = total[n] /\ power[0] = 1 /\ y[n] \in Int
  <2>1. n \in 1 .. n /\ n - n = 0
    BY <1>3
  <2>2. QED
    BY <1>4, <1>5, <1>7, <2>1 DEF ArePowers, AreHornered
<1>9. y[n] = total[n]
  BY <1>8
<1>10. QED
  BY <1>1, <1>2, <1>9 DEF xi

-----------------------------------------------------------------------------
(* The sums of the session.                                                *)

LEMMA CoefficientsAre ==
    ASSUME NEW c \in UNION {[1 .. n -> Coefs] : n \in 1 .. MaxPow}
    PROVE  Len(c) \in Nat \ {0} /\ \A k \in 1 .. Len(c) : c[k] \in Int
<1>1. PICK n \in 1 .. MaxPow : c \in [1 .. n -> Coefs]
  OBVIOUS
<1>2. MaxPow \in Nat /\ Coefs \subseteq Int
  BY ConversionsAssumption
<1>3. n \in Nat \ {0}
  BY <1>2
<1>4. Len(c) = n
  BY <1>1, <1>3
<1>5. QED
  BY <1>1, <1>2, <1>3, <1>4

LEMMA SumStep == SeriesSummed /\ [Next]_vars => SeriesSummed'
<1> SUFFICES ASSUME SeriesSummed, [Next]_vars PROVE SeriesSummed'
  OBVIOUS
<1>1. CASE SumSeries
  <2>1. PICK c \in UNION {[1 .. n -> Coefs] : n \in 1 .. MaxPow}, x \in -2 .. 2, y \in -1 .. 1 :
          \/ \E s \in Rows :
                sum' = [of |-> "series", coef |-> c, s |-> s, x |-> <<x, y>>,
                        out |-> Clenshaw(c, s, <<x, y>>)]
          \/ \E m \in {1, 2} :
                sum' = [of |-> "polynomial", coef |-> c, x |-> x,
                        out |-> Horner(c, m * x + y, <<y, m>>)]
    BY <1>1 DEF SumSeries
  <2>2. Len(c) \in Nat \ {0} /\ \A k \in 1 .. Len(c) : c[k] \in Int
    BY CoefficientsAre
  <2>3. ASSUME NEW s \in Rows,
               sum' = [of |-> "series", coef |-> c, s |-> s, x |-> <<x, y>>,
                       out |-> Clenshaw(c, s, <<x, y>>)]
        PROVE  SeriesSummed'
    <3>1. s \in Complex /\ <<x, y>> \in Complex
      BY DEF Rows, Complex
    <3>2. Clenshaw(c, s, <<x, y>>) = TrigonometricSum(c, s, <<x, y>>)
      BY <2>2, <3>1, ClenshawSums
    <3>3. QED
      BY <2>3, <3>2 DEF SeriesSummed
  <2>4. ASSUME NEW m \in {1, 2},
               sum' = [of |-> "polynomial", coef |-> c, x |-> x,
                       out |-> Horner(c, m * x + y, <<y, m>>)]
        PROVE  SeriesSummed'
    <3>1. ((m * x + y) - <<y, m>>[1]) \div <<y, m>>[2] = x
      <4>1. (m * x + y) - y = m * x
        OBVIOUS
      <4>2. (m * x) \div m = x
        <5>1. CASE m = 1
          BY <5>1
        <5>2. CASE m = 2
          BY <5>2
        <5>3. QED
          BY <5>1, <5>2
      <4>3. QED
        BY <4>1, <4>2
    <3>2. Horner(c, m * x + y, <<y, m>>) = PolynomialSum(c, x)
      <4> DEFINE at == m * x + y
                 mu == <<y, m>>
      <4>1. (at - mu[1]) \div mu[2] = x
        BY <3>1
      <4> HIDE DEF at, mu
      <4>2. (at - mu[1]) \div mu[2] \in Int
        BY <4>1
      <4>3. Horner(c, at, mu) = PolynomialSum(c, (at - mu[1]) \div mu[2])
        BY <2>2, <4>2, HornerSums
      <4>4. Horner(c, at, mu) = PolynomialSum(c, x)
        BY <4>1, <4>3
      <4>5. QED
        BY <4>4 DEF at, mu
    <3>3. QED
      BY <2>4, <3>2 DEF SeriesSummed
  <2>5. QED
    BY <2>1, <2>3, <2>4
<1>2. CASE Discard
  BY <1>2 DEF Discard, NoSum, SeriesSummed
<1>3. ASSUME sum' = sum PROVE SeriesSummed'
  BY <1>3 DEF SeriesSummed
<1>4. CASE UNCHANGED vars
  BY <1>3, <1>4 DEF vars
<1>5. CASE GiveLla \/ GiveNed
  BY <1>3, <1>5 DEF GiveLla, GiveNed
<1>6. CASE CallLlaToUtm
  BY <1>3, <1>6 DEF CallLlaToUtm, Converted
<1>7. CASE CallUtmToLla \/ CallLlaToEcef \/ CallEcefToLla \/ CallNedToEcef \/ CallEcefToNed
  BY <1>3, <1>7 DEF CallUtmToLla, CallLlaToEcef, CallEcefToLla, CallNedToEcef, CallEcefToNed,
                    Converted
<1>8. QED
  BY <1>1, <1>2, <1>4, <1>5, <1>6, <1>7 DEF Next

\* The unrolled recurrence of the four conversions and polyval.c add up what
\* the series and the polynomial say, for any number of any coefficients.
THEOREM SumsRight == Spec => []SeriesSummed
<1>1. Init => SeriesSummed
  BY DEF Init, NoSum, SeriesSummed
<1>2. QED
  BY SumStep, <1>1, PTL DEF Spec
=============================================================================
