---------------------------- MODULE QRSim_proofs ----------------------------
(***************************************************************************)
(* What holds of QRSim for every set of tasks and any number of platforms. *)
(* The invariants of the life cycle rest on Construction (what the latest  *)
(* init built, through or not, stands where its constructors put it),      *)
(* Layout (an init that went through built all of its task) and Counters   *)
(* (each counter it left at 1 is 1 again after every operation).           *)
(***************************************************************************)
EXTENDS QRSim, TLAPS

(* No task flies camera platforms: their camera counts its resets.         *)
NoCamera == \A k \in Tasks : Par[k].cfg.kind # "PelicanWithCamera"
(* Every task that draws initial positions has taken a stream to do so.    *)
OwnDraws == \A k \in Tasks : Par[k].draws => Par[k].own > 0

-----------------------------------------------------------------------------
(* Types of the operators.                                                 *)

(* Fields of the parameters of a task. *)
LEMMA ParType ==
    ASSUME NEW k \in Tasks
    PROVE  /\ Par[k].dt \in Nat \ {0} /\ Par[k].n \in Slots
           /\ Par[k].svs \in Nat /\ Par[k].wind \in BOOLEAN
           /\ Par[k].area \in Nat /\ Par[k].own \in Nat
           /\ Par[k].draws \in BOOLEAN /\ Par[k].cfg \in Configs
  BY ParAssumption DEF TaskParams

(* A platform takes at least its six dynamics streams. *)
LEMMA PlatformStreamsType ==
    ASSUME NEW c
    PROVE  PlatformStreams(c) \in Nat /\ PlatformStreams(c) >= 6
<1> DEFINE S(p, w) == PartStreams(c, p, w)
<1>1. /\ S("turbulence", 4) \in Nat /\ S("accelerometer", 3) \in Nat
      /\ S("gyroscope", 3) \in Nat /\ S("altimeter", 2) \in Nat
      /\ S("orientationEstimator", 4) \in Nat /\ S("gpsreceiver", 2) \in Nat
      /\ S("extra", 1) \in Nat
  BY DEF PartStreams
<1>2. QED
  BY <1>1 DEF PlatformStreams

(* Multiplication is monotone in its first argument. *)
LEMMA MulMono ==
    ASSUME NEW a \in Nat, NEW b \in Nat, NEW w \in Nat, a <= b
    PROVE  a * w \in Nat /\ b * w \in Nat /\ a * w <= b * w
<1>1. b = a + (b - a) /\ b - a \in Nat
  OBVIOUS
<1> DEFINE d == b - a
<1>2. d \in Nat /\ b = a + d
  BY <1>1
<1> HIDE DEF d
<1>3. a * w \in Nat /\ d * w \in Nat
  BY <1>2
<1>4. (a + d) * w = a * w + d * w
  BY <1>2
<1>5. QED
  BY <1>2, <1>3, <1>4

(* The streams of the environment objects lie one after the other. *)
LEMMA EnvLayout ==
    ASSUME NEW k \in Tasks
    PROVE  /\ GpsStreams(k) \in Nat /\ WindStreams(k) \in Nat
           /\ \A o \in EnvObjs : EnvBase(k)[o] \in Nat /\ EnvWidth(k)[o] \in Nat
           /\ EnvEnd(k) \in Nat
           /\ \A o \in EnvObjs : /\ Par[k].own <= EnvBase(k)[o]
                                 /\ EnvBase(k)[o] + EnvWidth(k)[o] <= EnvEnd(k)
           /\ \A o, q \in EnvObjs : EnvOrder[o] < EnvOrder[q] =>
                  EnvBase(k)[o] + EnvWidth(k)[o] <= EnvBase(k)[q]
<1>1. GpsStreams(k) \in Nat /\ WindStreams(k) \in Nat
  BY ParType DEF GpsStreams, WindStreams
<1>2. /\ EnvBase(k)["gpsspacesegment"] = Par[k].own
      /\ EnvBase(k)["wind"] = Par[k].own + GpsStreams(k)
      /\ EnvBase(k)["area"] = Par[k].own + GpsStreams(k) + WindStreams(k)
      /\ EnvWidth(k)["gpsspacesegment"] = GpsStreams(k)
      /\ EnvWidth(k)["wind"] = WindStreams(k)
      /\ EnvWidth(k)["area"] = Par[k].area
      /\ EnvEnd(k) = EnvBase(k)["area"] + Par[k].area
  BY DEF EnvBase, EnvWidth, EnvEnd
<1>3. QED
  BY <1>1, <1>2, ParType DEF EnvObjs, EnvOrder

(* The streams of platform i end where those of platform i + 1 begin. *)
LEMMA PlatformLayout ==
    ASSUME NEW k \in Tasks, NEW i \in Nat \ {0}
    PROVE  /\ PlatformBase(k, i) \in Nat
           /\ EnvEnd(k) <= PlatformBase(k, i)
           /\ PlatformBase(k, i) + PlatformStreams(Par[k].cfg) = PlatformBase(k, i + 1)
           /\ \A j \in Nat \ {0} : i <= j => PlatformBase(k, i) <= PlatformBase(k, j)
<1> DEFINE W == PlatformStreams(Par[k].cfg)
<1>1. W \in Nat /\ EnvEnd(k) \in Nat /\ i - 1 \in Nat
  BY PlatformStreamsType, EnvLayout
<1>2. (i - 1) * W \in Nat
  BY <1>1, MulMono
<1>3. (i + 1 - 1) * W = (i - 1) * W + W
  <2> DEFINE h == i - 1
  <2>1. h \in Nat /\ i + 1 - 1 = h + 1
    BY <1>1
  <2> HIDE DEF h, W
  <2>2. (h + 1) * W = h * W + W
    BY <1>1, <2>1
  <2>3. QED
    BY <2>1, <2>2 DEF h
<1>4. ASSUME NEW j \in Nat \ {0}, i <= j
      PROVE  PlatformBase(k, i) <= PlatformBase(k, j)
  <2>1. (i - 1) * W <= (j - 1) * W /\ (j - 1) * W \in Nat
    BY <1>1, <1>4, MulMono
  <2>2. QED
    BY <1>1, <1>2, <2>1 DEF PlatformBase
<1>5. QED
  BY <1>1, <1>2, <1>3, <1>4 DEF PlatformBase

(* What construction, setX, reset and step make of one object is one. *)
LEMMA ObjectTypes ==
    /\ \A k \in Tasks, o \in EnvObjs : NewEnvObject(k, o) \in EnvObject
    /\ \A k \in Tasks, i \in Slots : NewPlatform(k, i) \in Platform
    /\ NoEnvObject \in EnvObject
    /\ NoPlatform \in Platform
    /\ \A p \in Platform, s \in BOOLEAN : Placed(p, s) \in Platform
    /\ \A p \in Platform : HalfPlaced(p) \in Platform
    /\ \A p \in Platform, bad, due \in BOOLEAN : Stepped(p, bad, due) \in Platform
<1>1. \A n \in Counter : Bump(n) \in Counter
  BY DEF Counter, Bump
<1>2. \A c, p : \A n \in Counter : PartReset(c, p, n) \in Counter
  BY <1>1 DEF PartReset, Counter
<1>3. \A c : \A n \in Counter : ExtraReset(c, n) \in Counter
  BY <1>1 DEF ExtraReset, Counter
<1>4. \A b \in [Parts -> Counter] : AfterSetState(b) \in [Parts -> Counter]
  BY DEF AfterSetState, Counter
<1>5. ASSUME NEW c, NEW b \in [Parts -> Counter]
      PROVE  AfterReset(c, b) \in [Parts -> Counter]
  BY <1>2, <1>3, 1 \in Counter DEF AfterReset, Counter, Parts, SetByPelican, AharsSensors
<1>6. \A k \in Tasks, o \in EnvObjs : NewEnvObject(k, o) \in EnvObject
  BY EnvLayout DEF NewEnvObject, EnvObject, Counter
<1>7. \A k \in Tasks, i \in Slots : NewPlatform(k, i) \in Platform
  <2> SUFFICES ASSUME NEW k \in Tasks, NEW i \in Slots
               PROVE  NewPlatform(k, i) \in Platform
    OBVIOUS
  <2>1. PlatformBase(k, i) \in Nat /\ PlatformStreams(Par[k].cfg) \in Nat
    BY PlatformLayout, PlatformStreamsType DEF Slots
  <2>2. QED
    BY <2>1, ParType DEF NewPlatform, Platform, Counter, Origin
<1>8. NoEnvObject \in EnvObject
  BY DEF NoEnvObject, EnvObject, Counter
<1>9. NoPlatform \in Platform
  BY DEF NoPlatform, Platform, Counter, Origin, Configs, Kinds
<1>10. \A p \in Platform, s \in BOOLEAN : Placed(p, s) \in Platform
  <2> SUFFICES ASSUME NEW p \in Platform, NEW s \in BOOLEAN
               PROVE  Placed(p, s) \in Platform
    OBVIOUS
  <2> DEFINE b == AfterReset(p.cfg, AfterSetState(p.boot))
  <2>1. b \in [Parts -> Counter]
    BY <1>4, <1>5 DEF Platform
  <2>2. Placed(p, s) = [p EXCEPT !.boot = b,
                          !.out = IF p.out = "current" THEN "previous" ELSE p.out,
                          !.valid = TRUE, !.seeded = s]
    BY DEF Placed
  <2> HIDE DEF b
  <2>3. QED
    BY <2>1, <2>2 DEF Platform, Origin
<1>11. \A p \in Platform : HalfPlaced(p) \in Platform
  BY <1>4 DEF HalfPlaced, Platform
<1>12. \A p \in Platform, bad, due \in BOOLEAN : Stepped(p, bad, due) \in Platform
  BY ZenonT(30) DEF Stepped, Platform, Origin
<1>13. QED
  BY <1>6, <1>7, <1>8, <1>9, <1>10, <1>11, <1>12

(* ... and of all of them. *)
LEMMA ArrayTypes ==
    ASSUME TypeOK
    PROVE  /\ \A k \in Tasks, b \in Nat : /\ BuiltEnv(k, b) \in [EnvObjs -> EnvObject]
                                          /\ BuiltPlatforms(k, b) \in [Slots -> Platform]
           /\ \A e \in [EnvObjs -> EnvObject] : UnseededEnv(e) \in [EnvObjs -> EnvObject]
           /\ \A e \in [EnvObjs -> EnvObject], r \in Nat :
                  ResetEnv(e, r) \in [EnvObjs -> EnvObject]
           /\ \A ps \in [Slots -> Platform] :
                  UnseededPlatforms(ps) \in [Slots -> Platform]
           /\ \A k \in Tasks, ps \in [Slots -> Platform] : \A done :
                  PlacedByTask(k, ps, done) \in [Slots -> Platform]
           /\ \A bad, due : SteppedPlatforms(bad, due) \in [Slots -> Platform]
<1>1. \A k \in Tasks, b \in Nat : /\ BuiltEnv(k, b) \in [EnvObjs -> EnvObject]
                                  /\ BuiltPlatforms(k, b) \in [Slots -> Platform]
  BY ObjectTypes DEF TypeOK, BuiltEnv, BuiltPlatforms
<1>2. \A e \in [EnvObjs -> EnvObject] : UnseededEnv(e) \in [EnvObjs -> EnvObject]
  BY DEF UnseededEnv, EnvObject
<1>3. ASSUME NEW e \in [EnvObjs -> EnvObject], NEW r \in Nat
      PROVE  ResetEnv(e, r) \in [EnvObjs -> EnvObject]
  <2>1. ASSUME NEW x \in EnvObject
        PROVE  [x EXCEPT !.boot = 1, !.seeded = TRUE] \in EnvObject
    <3>1. 1 \in Counter /\ TRUE \in BOOLEAN
      BY DEF Counter
    <3> HIDE DEF Counter
    <3>2. QED
      BY <3>1 DEF EnvObject
  <2>2. QED
    BY <2>1 DEF ResetEnv
<1>4. \A ps \in [Slots -> Platform] : UnseededPlatforms(ps) \in [Slots -> Platform]
  BY DEF UnseededPlatforms, Platform
<1>5. ASSUME NEW k \in Tasks, NEW ps \in [Slots -> Platform], NEW done
      PROVE  PlacedByTask(k, ps, done) \in [Slots -> Platform]
  <2>1. (Par[k].draws => Par[k].own > 0) \in BOOLEAN
    OBVIOUS
  <2>2. QED
    BY <2>1, ObjectTypes DEF PlacedByTask
<1>6. ASSUME NEW bad, NEW due
      PROVE  SteppedPlatforms(bad, due) \in [Slots -> Platform]
  <2>1. \A i \in Slots : (i \in bad) \in BOOLEAN /\ (i \in due) \in BOOLEAN
    OBVIOUS
  <2>2. \A i \in Slots : Stepped(platforms[i], i \in bad, i \in due) \in Platform
    BY <2>1, ObjectTypes DEF TypeOK
  <2>3. QED
    BY <2>2 DEF SteppedPlatforms, TypeOK
<1>7. QED
  BY <1>1, <1>2, <1>3, <1>4, <1>5, <1>6

-----------------------------------------------------------------------------
(* Type correctness.                                                       *)

(* Where an init that reached object b leaves the counts. *)
LEMMA BuiltCounts ==
    ASSUME TypeOK, NEW k \in Tasks, NEW b \in 0 .. AllObjects(k)
    PROVE  /\ BuiltFleet(b) \in 0 .. MaxPlatforms
           /\ StreamsAfter(k, b) \in Nat
           /\ fleet <= BuiltFleet(b)
           /\ b = AllObjects(k) => Par[k].n <= BuiltFleet(b)
<1>1. Par[k].n \in 1 .. MaxPlatforms /\ MaxPlatforms \in Nat /\ fleet \in 0 .. MaxPlatforms
  BY ParType, ParAssumption DEF Slots, TypeOK
<1>2. AllObjects(k) = 3 + Par[k].n /\ b \in Nat
  BY <1>1 DEF AllObjects
<1>3. /\ BuiltFleet(b) \in 0 .. MaxPlatforms /\ fleet <= BuiltFleet(b)
      /\ b = AllObjects(k) => Par[k].n <= BuiltFleet(b)
  BY <1>1, <1>2 DEF BuiltFleet
<1>4. StreamsAfter(k, b) \in Nat
  <2>1. /\ EnvBase(k).gpsspacesegment \in Nat /\ EnvBase(k).wind \in Nat
        /\ EnvBase(k).area \in Nat
    BY EnvLayout DEF EnvObjs
  <2>2. b \notin {0, 1, 2} => b - 2 \in Nat \ {0}
    BY <1>2
  <2>3. b \notin {0, 1, 2} => PlatformBase(k, b - 2) \in Nat
    BY <2>2, PlatformLayout
  <2>4. QED
    BY <2>1, <2>3 DEF StreamsAfter
<1>5. QED
  BY <1>3, <1>4

LEMMA TypeOKInit == Init => TypeOK
  BY ObjectTypes, ParAssumption DEF Init, TypeOK

LEMMA TypeOKNext == TypeOK /\ [Next]_vars => TypeOK'
<1> SUFFICES ASSUME TypeOK, [Next]_vars PROVE TypeOK'
  OBVIOUS
<1> USE ParAssumption
<1>0. CASE UNCHANGED vars
  BY <1>0 DEF vars, TypeOK
<1>1. ASSUME NEW k \in Tasks, InitSim(k) PROVE TypeOK'
  <2>1. AllObjects(k) \in 0 .. AllObjects(k) /\ AllObjects(k) \in Nat
    BY ParType DEF AllObjects, Slots
  <2>2. /\ env' \in [EnvObjs -> EnvObject]
        /\ platforms' \in [Slots -> Platform]
    BY <1>1, <2>1, ArrayTypes DEF InitSim
  <2>3. AllObjects(k) \in 0 .. 3 + MaxPlatforms
    BY ParType DEF AllObjects, Slots
  <2>4. QED
    BY <1>1, <2>1, <2>2, <2>3, BuiltCounts, ParType DEF InitSim, TypeOK
<1>2. ASSUME InitUnknownTask PROVE TypeOK'
  BY <1>2 DEF InitUnknownTask, InitFails, TypeOK
<1>3. ASSUME NEW k \in Tasks, InitBadParams(k) PROVE TypeOK'
  BY <1>3, ParType DEF InitBadParams, InitFails, TypeOK
<1>4. ASSUME NEW k \in Tasks, NEW b \in 0 .. MaxPlatforms + 2, NEW late \in BOOLEAN,
             InitBadObject(k, b, late)
      PROVE  TypeOK'
  <2>1. AllObjects(k) \in Nat /\ b \in Nat /\ b < AllObjects(k)
    BY <1>4, ParType DEF AllObjects, Slots, InitBadObject
  <2>2. b \in 0 .. AllObjects(k) /\ b + 1 \in 0 .. AllObjects(k)
    BY <2>1
  <2>3. numRStreams' \in Nat /\ fleet' \in 0 .. MaxPlatforms
    BY <1>4, <2>2, BuiltCounts DEF InitBadObject
  <2>4. env' \in [EnvObjs -> EnvObject] /\ platforms' \in [Slots -> Platform]
    BY <1>4, <2>1, ArrayTypes DEF InitBadObject
  <2>5. QED
    BY <1>4, <2>3, <2>4, ParType DEF InitBadObject, InitFails, TypeOK
<1>5. ASSUME NEW k \in Tasks, NEW r \in 0 .. 3, NEW done \in SUBSET (1 .. Par[k].n),
             InitBadReset(k, r, done)
      PROVE  TypeOK'
  <2>1. AllObjects(k) \in 0 .. AllObjects(k) /\ AllObjects(k) \in Nat
    BY ParType DEF AllObjects, Slots
  <2>2. /\ env' \in [EnvObjs -> EnvObject]
        /\ platforms' \in [Slots -> Platform]
    BY <1>5, <2>1, r \in Nat, 3 \in Nat, ArrayTypes DEF InitBadReset
  <2>3. AllObjects(k) \in 0 .. 3 + MaxPlatforms
    BY ParType DEF AllObjects, Slots
  <2>4. QED
    BY <1>5, <2>1, <2>2, <2>3, BuiltCounts, ParType DEF InitBadReset, InitFails, TypeOK
<1>6. ASSUME ResetSeed PROVE TypeOK'
  BY <1>6, ArrayTypes DEF ResetSeed, TypeOK
<1>7. ASSUME Reset PROVE TypeOK'
  <2>1. task \in Tasks
    BY <1>7 DEF Reset, TypeOK
  <2>2. QED
    BY <1>7, <2>1, ArrayTypes DEF Reset, TypeOK
<1>8. ASSUME NEW r \in 0 .. 3, NEW done, NEW half, ResetThrows(r, done, half)
      PROVE  TypeOK'
  <2>1. task \in Tasks
    BY <1>8 DEF ResetThrows, TypeOK
  <2>2. env' \in [EnvObjs -> EnvObject]
    BY <1>8, ArrayTypes DEF ResetThrows, TypeOK
  <2>3. PlacedByTask(task, platforms, done) \in [Slots -> Platform]
    BY <2>1, ArrayTypes DEF TypeOK
  <2>4. platforms' \in [Slots -> Platform]
    BY <1>8, <2>3, ObjectTypes DEF ResetThrows, TypeOK
  <2>5. QED
    BY <1>8, <2>2, <2>4 DEF ResetThrows, TypeOK
<1>9. ASSUME NEW i \in Slots, SetX(i) PROVE TypeOK'
  <2>1. (rStreams > 0) \in BOOLEAN
    OBVIOUS
  <2>2. Placed(platforms[i], rStreams > 0) \in Platform
    BY <2>1, ObjectTypes DEF TypeOK
  <2>3. QED
    BY <1>9, <2>2 DEF SetX, TypeOK
<1>10. ASSUME NEW i \in Slots, SetXThrows(i) PROVE TypeOK'
  BY <1>10, ObjectTypes DEF SetXThrows, TypeOK
<1>11. ASSUME NEW bad, NEW due, Step(bad, due) PROVE TypeOK'
  BY <1>11, ArrayTypes DEF Step, TypeOK
<1>12. ASSUME NEW j \in Nat, NEW bad, NEW due, StepThrows(j, bad, due) PROVE TypeOK'
  BY <1>12, ArrayTypes DEF StepThrows, TypeOK
<1>13. CASE Next
  BY <1>1, <1>2, <1>3, <1>4, <1>5, <1>6, <1>7, <1>8, <1>9, <1>10, <1>11, <1>12, <1>13
  DEF Next, TypeOK
<1>14. QED
  BY <1>0, <1>13

(* The variables of the life cycle keep their types. *)
THEOREM TypeCorrect == Spec => []TypeOK
  BY TypeOKInit, TypeOKNext, PTL DEF Spec

-----------------------------------------------------------------------------
(* Layout: what an init that went through built stays where it was put.    *)

OfTask(p, k, i) == /\ p.cfg = Par[k].cfg
                   /\ p.base = PlatformBase(k, i)
                   /\ p.width = PlatformStreams(Par[k].cfg)

Layout ==
    InitWentThrough =>
        /\ numRStreams = StreamsAfter(task, AllObjects(task))
        /\ rStreams = numRStreams
        /\ Par[task].n <= fleet
        /\ \A o \in EnvObjs : /\ env[o].made
                              /\ env[o].base = EnvBase(task)[o]
                              /\ env[o].width = EnvWidth(task)[o]
        /\ \A i \in 1 .. Par[task].n : OfTask(platforms[i], task, i)

\* A step that moves no object to other streams.
SameShape ==
    /\ UNCHANGED <<task, numRStreams, fleet, failedInits, built>>
    /\ rStreams' \in {rStreams, numRStreams}
    /\ \A o \in EnvObjs : /\ env'[o].made = env[o].made
                          /\ env'[o].base = env[o].base
                          /\ env'[o].width = env[o].width
    /\ \A i \in Slots : /\ platforms'[i].cfg = platforms[i].cfg
                        /\ platforms'[i].base = platforms[i].base
                        /\ platforms'[i].width = platforms[i].width

(* setX restores every counter a step will look at, except the camera's.   *)
LEMMA PlacedFields ==
    ASSUME NEW p \in Platform, NEW s \in BOOLEAN
    PROVE  /\ Placed(p, s).cfg = p.cfg /\ Placed(p, s).base = p.base
           /\ Placed(p, s).width = p.width /\ Placed(p, s).seeded = s
           /\ HalfPlaced(p).cfg = p.cfg /\ HalfPlaced(p).base = p.base
           /\ HalfPlaced(p).width = p.width
           /\ p.cfg.kind # "PelicanWithCamera" =>
                  \A q \in SteppedParts(p.cfg) : Placed(p, s).boot[q] = 1
<1> DEFINE b == AfterReset(p.cfg, AfterSetState(p.boot))
<1>1. Placed(p, s) = [p EXCEPT !.boot = b,
                        !.out = IF p.out = "current" THEN "previous" ELSE p.out,
                        !.valid = TRUE, !.seeded = s]
  BY DEF Placed
<1>2. /\ Placed(p, s).cfg = p.cfg /\ Placed(p, s).base = p.base
      /\ Placed(p, s).width = p.width /\ Placed(p, s).seeded = s
      /\ Placed(p, s).boot = b
  <2> HIDE DEF b
  <2>1. QED
    BY <1>1 DEF Platform
<1>3. /\ HalfPlaced(p).cfg = p.cfg /\ HalfPlaced(p).base = p.base
      /\ HalfPlaced(p).width = p.width
  BY DEF HalfPlaced, Platform
<1>4. ASSUME p.cfg.kind # "PelicanWithCamera", NEW q \in SteppedParts(p.cfg)
      PROVE  b[q] = 1
  <2>1. q \in Parts
    BY DEF SteppedParts
  <2>2. CASE q \in SetByPelican
    <3>1. AfterSetState(p.boot)[q] = 0
      BY <2>1, <2>2 DEF AfterSetState
    <3>2. PartReset(p.cfg, q, 0) = 1
      BY DEF PartReset, Bump
    <3>3. q # "extra"
      BY <2>2 DEF SetByPelican, AharsSensors
    <3>4. QED
      BY <2>1, <2>2, <3>1, <3>2, <3>3 DEF AfterReset
  <2>3. CASE q = "extra"
    <3>1. q \notin SetByPelican
      BY <2>3 DEF SetByPelican, AharsSensors
    <3>2. p.cfg.kind \in Kinds /\ p.cfg.kind # "Pelican"
      BY <2>3 DEF Platform, Configs, SteppedParts, HasExtra
    <3>3. p.cfg.kind = "PelicanWithPlumeSensor"
      BY <1>4, <3>2 DEF Kinds
    <3>4. \A n : ExtraReset(p.cfg, n) = 1
      BY <3>3 DEF ExtraReset
    <3>5. QED
      BY <2>1, <2>3, <3>1, <3>4 DEF AfterReset
  <2>4. CASE q \notin SetByPelican /\ q # "extra"
    BY <2>1, <2>4 DEF AfterReset
  <2>5. QED
    BY <2>2, <2>3, <2>4
<1>5. QED
  <2> HIDE DEF b
  <2>1. QED
    BY <1>2, <1>3, <1>4

(* A step moves no counter and no stream. *)
LEMMA SteppedFields ==
    ASSUME NEW p \in Platform, NEW bad \in BOOLEAN, NEW due \in BOOLEAN
    PROVE  LET q == Stepped(p, bad, due)
           IN  /\ q.cfg = p.cfg /\ q.base = p.base /\ q.width = p.width
               /\ q.boot = p.boot /\ q.seeded = p.seeded
  BY DEF Stepped, Platform

(* Every operation but init keeps the shape. *)
LEMMA ShapeKept ==
    ASSUME TypeOK
    PROVE  /\ ResetSeed => SameShape
           /\ Reset => SameShape
           /\ \A r \in 0 .. 3 : \A done, half : ResetThrows(r, done, half) => SameShape
           /\ \A i \in Slots : SetX(i) \/ SetXThrows(i) => SameShape
           /\ \A bad, due : Step(bad, due) => SameShape
           /\ \A j, bad, due : StepThrows(j, bad, due) => SameShape
           /\ UNCHANGED vars => SameShape
<1>1. \A r \in Nat : \A o \in EnvObjs :
          LET e == ResetEnv(env, r)[o]
          IN  /\ e.made = env[o].made /\ e.base = env[o].base /\ e.width = env[o].width
  BY DEF ResetEnv, TypeOK, EnvObject
<1>2. ASSUME NEW k, NEW done, NEW i \in Slots
      PROVE  LET p == PlacedByTask(k, platforms, done)[i]
             IN  /\ p.cfg = platforms[i].cfg /\ p.base = platforms[i].base
                 /\ p.width = platforms[i].width
  <2>1. (Par[k].draws => Par[k].own > 0) \in BOOLEAN /\ platforms[i] \in Platform
    BY DEF TypeOK
  <2>2. QED
    BY <2>1, PlacedFields DEF PlacedByTask
<1>3. ASSUME NEW bad, NEW due, NEW i \in Slots
      PROVE  LET p == SteppedPlatforms(bad, due)[i]
             IN  /\ p.cfg = platforms[i].cfg /\ p.base = platforms[i].base
                 /\ p.width = platforms[i].width
  <2>1. (i \in bad) \in BOOLEAN /\ (i \in due) \in BOOLEAN /\ platforms[i] \in Platform
    BY DEF TypeOK
  <2>2. QED
    BY <2>1, SteppedFields, ZenonT(30) DEF SteppedPlatforms
<1>4. ResetSeed => SameShape
  BY DEF ResetSeed, SameShape, UnseededEnv, UnseededPlatforms, TypeOK, EnvObject, Platform
<1>5. Reset => SameShape
  BY <1>1, <1>2, 3 \in Nat DEF Reset, SameShape
<1>6. ASSUME NEW r \in 0 .. 3, NEW done, NEW half, ResetThrows(r, done, half)
      PROVE  SameShape
  <2>1. \A i \in Slots : /\ HalfPlaced(platforms[i]).cfg = platforms[i].cfg
                         /\ HalfPlaced(platforms[i]).base = platforms[i].base
                         /\ HalfPlaced(platforms[i]).width = platforms[i].width
    BY PlacedFields, TRUE \in BOOLEAN DEF TypeOK
  <2>2. \A o \in EnvObjs : /\ env'[o].made = env[o].made
                            /\ env'[o].base = env[o].base
                            /\ env'[o].width = env[o].width
    BY <1>1, <1>6, r \in Nat DEF ResetThrows
  <2>3. ASSUME NEW i \in Slots
        PROVE  /\ platforms'[i].cfg = platforms[i].cfg
               /\ platforms'[i].base = platforms[i].base
               /\ platforms'[i].width = platforms[i].width
    <3>1. platforms'[i] = IF i \in half THEN HalfPlaced(platforms[i])
                          ELSE PlacedByTask(task, platforms, done)[i]
      BY <1>6 DEF ResetThrows
    <3>2. CASE i \in half
      BY <2>1, <3>1, <3>2
    <3>3. CASE i \notin half
      <4> DEFINE p == PlacedByTask(task, platforms, done)[i]
      <4>1. platforms'[i] = p
        BY <3>1, <3>3
      <4>2. p.cfg = platforms[i].cfg /\ p.base = platforms[i].base
            /\ p.width = platforms[i].width
        BY <1>2
      <4> HIDE DEF p
      <4>3. QED
        BY <4>1, <4>2
    <3>4. QED
      BY <3>2, <3>3
  <2>4. QED
    BY <1>6, <2>2, <2>3 DEF ResetThrows, SameShape
<1>7. ASSUME NEW i \in Slots, SetX(i) \/ SetXThrows(i) PROVE SameShape
  <2>1. (rStreams > 0) \in BOOLEAN /\ platforms[i] \in Platform
    BY DEF TypeOK
  <2>2. PICK q \in {Placed(platforms[i], rStreams > 0), HalfPlaced(platforms[i])} :
            platforms' = [platforms EXCEPT ![i] = q]
    BY <1>7 DEF SetX, SetXThrows
  <2>3. q.cfg = platforms[i].cfg /\ q.base = platforms[i].base
        /\ q.width = platforms[i].width
    <3>1. CASE q = Placed(platforms[i], rStreams > 0)
      <4> DEFINE s == rStreams > 0
      <4>1. s \in BOOLEAN /\ q = Placed(platforms[i], s)
        BY <2>1, <3>1
      <4> HIDE DEF s
      <4>2. QED
        BY <2>1, <4>1, PlacedFields
    <3>2. CASE q = HalfPlaced(platforms[i])
      BY <2>1, <3>2, TRUE \in BOOLEAN, PlacedFields
    <3>3. QED
      BY <2>2, <3>1, <3>2
  <2>4. \A x \in Slots : platforms'[x] = IF x = i THEN q ELSE platforms[x]
    BY <2>2 DEF TypeOK
  <2>5. QED
    BY <1>7, <2>3, <2>4 DEF SetX, SetXThrows, SameShape
<1>8. \A bad, due : Step(bad, due) => SameShape
  BY <1>3 DEF Step, SameShape
<1>9. \A j, bad, due : StepThrows(j, bad, due) => SameShape
  BY <1>3 DEF StepThrows, SameShape
<1>10. UNCHANGED vars => SameShape
  BY DEF vars, SameShape
<1>11. QED
  BY <1>4, <1>5, <1>6, <1>7, <1>8, <1>9, <1>10

(* What an init that goes through builds. *)
LEMMA InitSimBuilds ==
    ASSUME TypeOK, NEW k \in Tasks, InitSim(k)
    PROVE  /\ Par[k].n <= fleet'
           /\ \A o \in EnvObjs : /\ env'[o].made /\ env'[o].boot = 1 /\ env'[o].seeded
                                 /\ env'[o].base = EnvBase(k)[o]
                                 /\ env'[o].width = EnvWidth(k)[o]
           /\ \A i \in 1 .. Par[k].n :
                  /\ OfTask(platforms'[i], k, i)
                  /\ platforms'[i].seeded = (Par[k].draws => Par[k].own > 0)
                  /\ Par[k].cfg.kind # "PelicanWithCamera" =>
                         \A q \in SteppedParts(Par[k].cfg) : platforms'[i].boot[q] = 1
<1>1. /\ Par[k].n \in Slots /\ Par[k].n \in Nat /\ AllObjects(k) = 3 + Par[k].n
      /\ AllObjects(k) \in 0 .. AllObjects(k) /\ AllObjects(k) \in Nat
  BY ParType, ParAssumption DEF AllObjects, Slots
<1>2. Par[k].n <= fleet'
  BY <1>1, BuiltCounts DEF InitSim
<1>3. ASSUME NEW o \in EnvObjs
      PROVE  /\ env'[o].made /\ env'[o].boot = 1 /\ env'[o].seeded
             /\ env'[o].base = EnvBase(k)[o] /\ env'[o].width = EnvWidth(k)[o]
  <2>1. EnvOrder[o] <= 3
    BY DEF EnvObjs, EnvOrder
  <2>2. env'[o] = [NewEnvObject(k, o) EXCEPT !.boot = 1, !.seeded = TRUE]
    BY <2>1 DEF InitSim, ResetEnv, BuiltEnv
  <2>3. QED
    BY <2>2 DEF NewEnvObject
<1>4. ASSUME NEW i \in 1 .. Par[k].n
      PROVE  /\ OfTask(platforms'[i], k, i)
             /\ platforms'[i].seeded = (Par[k].draws => Par[k].own > 0)
             /\ Par[k].cfg.kind # "PelicanWithCamera" =>
                    \A q \in SteppedParts(Par[k].cfg) : platforms'[i].boot[q] = 1
  <2> DEFINE ps == UnseededPlatforms(BuiltPlatforms(k, AllObjects(k)))
             s  == Par[k].draws => Par[k].own > 0
  <2>1. i \in Slots /\ i + 3 <= AllObjects(k) /\ s \in BOOLEAN
    BY <1>1, ParAssumption DEF Slots
  <2>2. ps \in [Slots -> Platform]
    BY <1>1, ArrayTypes
  <2>3. ps[i] = [NewPlatform(k, i) EXCEPT !.seeded = FALSE]
    BY <2>1 DEF UnseededPlatforms, BuiltPlatforms
  <2>4. OfTask(ps[i], k, i)
    BY <2>3 DEF OfTask, NewPlatform
  <2>5. platforms'[i] = Placed(ps[i], s)
    BY <2>1 DEF InitSim, PlacedByTask
  <2> HIDE DEF ps, s
  <2>6. ps[i] \in Platform
    BY <2>1, <2>2
  <2>7. /\ Placed(ps[i], s).cfg = ps[i].cfg /\ Placed(ps[i], s).base = ps[i].base
        /\ Placed(ps[i], s).width = ps[i].width /\ Placed(ps[i], s).seeded = s
        /\ ps[i].cfg.kind # "PelicanWithCamera" =>
               \A q \in SteppedParts(ps[i].cfg) : Placed(ps[i], s).boot[q] = 1
    BY <2>1, <2>6, PlacedFields
  <2>8. ps[i].cfg = Par[k].cfg
    BY <2>4 DEF OfTask
  <2>9. platforms'[i].seeded = s
    BY <2>5, <2>7
  <2>10. OfTask(platforms'[i], k, i)
    BY <2>4, <2>5, <2>7 DEF OfTask
  <2>11. Par[k].cfg.kind # "PelicanWithCamera" =>
             \A q \in SteppedParts(Par[k].cfg) : platforms'[i].boot[q] = 1
    BY <2>5, <2>7, <2>8
  <2>12. QED
    BY <2>9, <2>10, <2>11 DEF s
<1>5. QED
  BY <1>2, <1>3, <1>4

(* An init that throws is counted. *)
LEMMA FailedInits ==
    ASSUME TypeOK
    PROVE  /\ InitUnknownTask => ~InitWentThrough'
           /\ \A k : InitBadParams(k) => ~InitWentThrough'
           /\ \A k, b, late : InitBadObject(k, b, late) => ~InitWentThrough'
           /\ \A k, r, done : InitBadReset(k, r, done) => ~InitWentThrough'
<1>1. InitFails => failedInits' # 0
  BY DEF InitFails, TypeOK
<1>2. QED
  BY <1>1 DEF InitUnknownTask, InitBadParams, InitBadObject, InitBadReset, InitWentThrough

\* Every operation but init.
Later ==
    \/ ResetSeed
    \/ Reset
    \/ \E r \in 0 .. 3 : \E done : \E half \in SUBSET Halves : ResetThrows(r, done, half)
    \/ \E i \in Slots : SetX(i) \/ SetXThrows(i)
    \/ \E bad, due : Step(bad, due)
    \/ \E j, bad, due : StepThrows(j, bad, due)
    \/ UNCHANGED vars

(* Every step is an init that goes through, one that throws, or a later operation. *)
LEMMA StepKinds ==
    ASSUME TypeOK, [Next]_vars
    PROVE  \/ \E k \in Tasks : InitSim(k)
           \/ ~InitWentThrough'
           \/ Later /\ SameShape
<1>1. Next => (\E k \in Tasks : InitSim(k)) \/ ~InitWentThrough' \/ Later
  BY FailedInits DEF Next, Later
<1>2. Later => SameShape
  BY ShapeKept DEF Later
<1>3. UNCHANGED vars => Later
  BY DEF Later
<1>4. QED
  BY <1>1, <1>2, <1>3

LEMMA LayoutNext == TypeOK /\ Layout /\ [Next]_vars => Layout'
<1> SUFFICES ASSUME TypeOK, Layout, [Next]_vars, InitWentThrough'
             PROVE  Layout'
  BY DEF Layout
<1>1. ASSUME NEW k \in Tasks, InitSim(k) PROVE Layout'
  <2>1. task' = k /\ numRStreams' = StreamsAfter(k, AllObjects(k))
        /\ rStreams' = numRStreams'
    BY <1>1 DEF InitSim
  <2>2. QED
    BY <1>1, <2>1, InitSimBuilds DEF Layout
<1>2. ASSUME SameShape PROVE Layout'
  <2>1. InitWentThrough /\ task' = task /\ task \in Tasks
    BY <1>2 DEF SameShape, InitWentThrough, TypeOK
  <2>2. Par[task].n \in 1 .. MaxPlatforms /\ 1 .. Par[task].n \subseteq Slots
    BY <2>1, ParType, ParAssumption DEF Slots
  <2>3. /\ numRStreams' = StreamsAfter(task, AllObjects(task)) /\ rStreams' = numRStreams'
        /\ Par[task].n <= fleet'
    BY <1>2, <2>1 DEF SameShape, Layout
  <2>4. \A o \in EnvObjs : /\ env'[o].made /\ env'[o].base = EnvBase(task)[o]
                           /\ env'[o].width = EnvWidth(task)[o]
    BY <1>2, <2>1 DEF SameShape, Layout
  <2>5. \A i \in 1 .. Par[task].n : OfTask(platforms'[i], task, i)
    BY <1>2, <2>1, <2>2 DEF SameShape, Layout, OfTask
  <2>6. QED
    BY <2>1, <2>3, <2>4, <2>5 DEF Layout
<1>3. QED
  BY <1>1, <1>2, StepKinds

LEMMA LayoutInit == Init => Layout
  BY DEF Init, Layout, InitWentThrough

(* Streams that are owned exist: no reset and no step misses one. *)
LEMMA LayoutRange ==
    ASSUME TypeOK, Layout, InitWentThrough
    PROVE  /\ task \in Tasks /\ Par[task].n \in Nat /\ 1 .. Par[task].n \subseteq Slots
           /\ 0 < rStreams
           /\ \A o \in EnvObjs : env[o].made /\ InRange(env[o])
           /\ \A i \in 1 .. Par[task].n :
                  InRange(platforms[i]) /\ ~CannotReset(platforms[i])
<1> DEFINE n == Par[task].n
           W == PlatformStreams(Par[task].cfg)
<1>1. task \in Tasks /\ n \in Nat \ {0} /\ 1 .. n \subseteq Slots
  BY ParType, ParAssumption DEF InitWentThrough, TypeOK, Slots
<1>2. rStreams = PlatformBase(task, n + 1)
  <2>1. /\ AllObjects(task) - 2 = n + 1 /\ AllObjects(task) # 0
        /\ AllObjects(task) # 1 /\ AllObjects(task) # 2
    BY <1>1 DEF AllObjects
  <2>2. QED
    BY <2>1 DEF Layout, StreamsAfter
<1>3. /\ EnvEnd(task) <= rStreams /\ EnvEnd(task) \in Nat /\ rStreams \in Nat
  BY <1>1, <1>2, PlatformLayout, EnvLayout DEF TypeOK
<1>4. ASSUME NEW o \in EnvObjs PROVE env[o].made /\ InRange(env[o])
  <2>1. /\ env[o].base = EnvBase(task)[o] /\ env[o].width = EnvWidth(task)[o]
        /\ env[o].made
    BY DEF Layout
  <2>2. /\ EnvBase(task)[o] + EnvWidth(task)[o] <= EnvEnd(task)
        /\ EnvBase(task)[o] \in Nat /\ EnvWidth(task)[o] \in Nat
    BY <1>1, EnvLayout
  <2>3. QED
    BY <1>3, <2>1, <2>2 DEF InRange
<1>5. ASSUME NEW i \in 1 .. n PROVE InRange(platforms[i])
  <2>1. OfTask(platforms[i], task, i)
    BY DEF Layout
  <2>2. /\ PlatformBase(task, i) + W = PlatformBase(task, i + 1)
        /\ PlatformBase(task, i + 1) <= PlatformBase(task, n + 1)
    <3>1. i \in Nat \ {0} /\ i + 1 \in Nat \ {0} /\ n + 1 \in Nat \ {0} /\ i + 1 <= n + 1
      BY <1>1
    <3> HIDE DEF n
    <3>2. QED
      BY <1>1, <3>1, PlatformLayout
  <2>3. QED
    BY <1>2, <2>1, <2>2 DEF InRange, OfTask
<1>6. 0 < rStreams
  <2>1. 1 \in 1 .. n
    BY <1>1
  <2>2. InRange(platforms[1]) /\ OfTask(platforms[1], task, 1)
    BY <1>5, <2>1 DEF Layout
  <2>3. PlatformBase(task, 1) \in Nat /\ W >= 6 /\ W \in Nat
    BY <1>1, PlatformLayout, PlatformStreamsType
  <2>4. QED
    BY <1>3, <2>2, <2>3 DEF InRange, OfTask
<1>7. QED
  BY <1>1, <1>4, <1>5, <1>6 DEF CannotReset

-----------------------------------------------------------------------------
(* Streams.                                                                *)

(* The count of streams never falls while createObjects runs. *)
LEMMA StreamsMono ==
    ASSUME NEW k \in Tasks, NEW a \in Nat, NEW b \in Nat, a <= b
    PROVE  /\ StreamsAfter(k, a) \in Nat /\ StreamsAfter(k, b) \in Nat
           /\ Par[k].own <= StreamsAfter(k, a)
           /\ StreamsAfter(k, a) <= StreamsAfter(k, b)
<1> DEFINE S(n) == StreamsAfter(k, n)
<1>1. /\ GpsStreams(k) \in Nat /\ WindStreams(k) \in Nat /\ Par[k].area \in Nat
      /\ Par[k].own \in Nat
  BY EnvLayout, ParType
<1>2. /\ S(0) = Par[k].own /\ S(1) = Par[k].own + GpsStreams(k)
      /\ S(2) = Par[k].own + GpsStreams(k) + WindStreams(k)
      /\ EnvEnd(k) = S(2) + Par[k].area
  BY DEF StreamsAfter, EnvBase, EnvEnd
<1>3. ASSUME NEW n \in Nat, 3 <= n
      PROVE  S(n) = PlatformBase(k, n - 2) /\ n - 2 \in Nat \ {0}
             /\ S(n) \in Nat /\ EnvEnd(k) <= S(n)
  <2>1. n - 2 \in Nat \ {0} /\ n # 0 /\ n # 1 /\ n # 2
    BY <1>3
  <2>2. S(n) = PlatformBase(k, n - 2)
    BY <2>1 DEF StreamsAfter
  <2>3. QED
    BY <2>1, <2>2, PlatformLayout
<1>4. ASSUME 3 <= a PROVE S(a) <= S(b)
  <2>1. 3 <= b /\ a - 2 \in Nat \ {0} /\ b - 2 \in Nat \ {0} /\ a - 2 <= b - 2
    BY <1>4
  <2>2. PlatformBase(k, a - 2) <= PlatformBase(k, b - 2)
    BY <2>1, PlatformLayout
  <2>3. QED
    BY <1>3, <1>4, <2>1, <2>2
<1>5. a \in {0, 1, 2} \/ 3 <= a
  OBVIOUS
<1>6. b \in {0, 1, 2} \/ 3 <= b
  OBVIOUS
<1> HIDE DEF S
<1>7. S(a) \in Nat /\ S(b) \in Nat /\ Par[k].own <= S(a)
  BY <1>1, <1>2, <1>3, <1>5, <1>6
<1>8. S(a) <= S(b)
  <2>1. CASE b \in {0, 1, 2}
    BY <1>1, <1>2, <2>1
  <2>2. CASE 3 <= a
    BY <1>4, <2>2
  <2>3. CASE a \in {0, 1, 2} /\ 3 <= b
    BY <1>1, <1>2, <1>3, <2>3
  <2>4. QED
    BY <1>5, <1>6, <2>1, <2>2, <2>3
<1>9. QED
  BY <1>7, <1>8 DEF S

\* x took the streams that the p-th constructor of an init of k takes.
At(x, k, p) == /\ x.base = StreamsAfter(k, p - 1)
               /\ x.base + x.width = StreamsAfter(k, p)

(* Two constructors never take the same stream, and none a stream of the   *)
(* task.                                                                   *)
LEMMA AtDisjoint ==
    ASSUME NEW k \in Tasks, NEW x, NEW y, NEW p \in Nat \ {0}, NEW q \in Nat \ {0},
           At(x, k, p), At(y, k, q), p # q
    PROVE  Disjoint(x, y)
<1>1. ASSUME NEW u, NEW v, NEW a \in Nat \ {0}, NEW b \in Nat \ {0},
             At(u, k, a), At(v, k, b), a < b
      PROVE  u.base + u.width <= v.base
  <2>1. a \in Nat /\ b - 1 \in Nat /\ a <= b - 1
    BY <1>1
  <2>2. StreamsAfter(k, a) <= StreamsAfter(k, b - 1)
    BY <2>1, StreamsMono
  <2>3. QED
    BY <1>1, <2>2 DEF At
<1>2. p < q \/ q < p
  OBVIOUS
<1>3. QED
  BY <1>1, <1>2 DEF Disjoint

\* Each object the latest init constructed still has its constructor's streams,
\* and the count has passed them.
Construction ==
    built > 0 =>
        /\ task \in Tasks
        /\ StreamsAfter(task, built) <= numRStreams
        /\ \A o \in EnvBuilt : At(env[o], task, EnvOrder[o])
        /\ \A i \in PlatformsBuilt : At(platforms[i], task, i + 3)

(* What createObjects makes of the objects it reaches, reset or not.       *)
LEMMA Constructed ==
    ASSUME TypeOK, NEW k \in Tasks, NEW b \in Nat
    PROVE  /\ \A o \in EnvObjs : EnvOrder[o] <= b =>
                  /\ At(BuiltEnv(k, b)[o], k, EnvOrder[o])
                  /\ \A r \in Nat : At(ResetEnv(BuiltEnv(k, b), r)[o], k, EnvOrder[o])
           /\ \A i \in Slots : i + 3 <= b =>
                  /\ At(BuiltPlatforms(k, b)[i], k, i + 3)
                  /\ \A done : At(PlacedByTask(k, UnseededPlatforms(BuiltPlatforms(k, b)),
                                               done)[i], k, i + 3)
<1>1. ASSUME NEW o \in EnvObjs, EnvOrder[o] <= b
      PROVE  /\ At(BuiltEnv(k, b)[o], k, EnvOrder[o])
             /\ \A r \in Nat : At(ResetEnv(BuiltEnv(k, b), r)[o], k, EnvOrder[o])
  <2> DEFINE e == BuiltEnv(k, b)[o]
  <2>1. e = NewEnvObject(k, o)
    BY <1>1 DEF BuiltEnv
  <2>2. e \in EnvObject /\ e.base = EnvBase(k)[o] /\ e.width = EnvWidth(k)[o]
    BY <2>1, ObjectTypes DEF NewEnvObject
  <2>3. /\ EnvBase(k)[o] = StreamsAfter(k, EnvOrder[o] - 1)
        /\ EnvBase(k)[o] + EnvWidth(k)[o] = StreamsAfter(k, EnvOrder[o])
    <3>1. /\ GpsStreams(k) \in Nat /\ WindStreams(k) \in Nat /\ Par[k].area \in Nat
          /\ Par[k].own \in Nat
      BY EnvLayout, ParType
    <3>2. /\ StreamsAfter(k, 0) = Par[k].own
          /\ StreamsAfter(k, 1) = Par[k].own + GpsStreams(k)
          /\ StreamsAfter(k, 2) = Par[k].own + GpsStreams(k) + WindStreams(k)
          /\ EnvEnd(k) = StreamsAfter(k, 2) + Par[k].area
      BY DEF StreamsAfter, EnvBase, EnvEnd
    <3>3. StreamsAfter(k, 3) = EnvEnd(k)
      <4>1. StreamsAfter(k, 3) = PlatformBase(k, 1)
        BY DEF StreamsAfter
      <4>2. (1 - 1) * PlatformStreams(Par[k].cfg) = 0
        BY PlatformStreamsType
      <4>3. QED
        BY <4>1, <4>2, EnvLayout DEF PlatformBase
    <3>4. QED
      BY <3>1, <3>2, <3>3 DEF EnvObjs, EnvOrder, EnvBase, EnvWidth
  <2>4. \A r \in Nat : /\ ResetEnv(BuiltEnv(k, b), r)[o].base = e.base
                       /\ ResetEnv(BuiltEnv(k, b), r)[o].width = e.width
    <3>1. \A r \in Nat : \/ ResetEnv(BuiltEnv(k, b), r)[o] = e
                         \/ ResetEnv(BuiltEnv(k, b), r)[o]
                                = [e EXCEPT !.boot = 1, !.seeded = TRUE]
      BY DEF ResetEnv
    <3>2. [e EXCEPT !.boot = 1, !.seeded = TRUE].base = e.base
          /\ [e EXCEPT !.boot = 1, !.seeded = TRUE].width = e.width
      BY <2>2 DEF EnvObject
    <3> HIDE DEF e
    <3>3. QED
      BY <3>1, <3>2
  <2> HIDE DEF e
  <2>5. At(e, k, EnvOrder[o])
    BY <2>2, <2>3 DEF At
  <2>6. \A r \in Nat : At(ResetEnv(BuiltEnv(k, b), r)[o], k, EnvOrder[o])
    BY <2>2, <2>3, <2>4 DEF At
  <2>7. QED
    BY <2>5, <2>6 DEF e
<1>2. ASSUME NEW i \in Slots, i + 3 <= b
      PROVE  /\ At(BuiltPlatforms(k, b)[i], k, i + 3)
             /\ \A done : At(PlacedByTask(k, UnseededPlatforms(BuiltPlatforms(k, b)),
                                          done)[i], k, i + 3)
  <2> DEFINE p == BuiltPlatforms(k, b)[i]
             u == UnseededPlatforms(BuiltPlatforms(k, b))
             s == Par[k].draws => Par[k].own > 0
  <2>1. p = NewPlatform(k, i) /\ i \in Nat \ {0} /\ u[i] = [p EXCEPT !.seeded = FALSE]
    BY <1>2 DEF BuiltPlatforms, UnseededPlatforms, Slots
  <2>2. p \in Platform /\ u \in [Slots -> Platform] /\ s \in BOOLEAN
    BY ArrayTypes
  <2>3. p.base = PlatformBase(k, i) /\ p.width = PlatformStreams(Par[k].cfg)
    BY <2>1 DEF NewPlatform
  <2>4. /\ PlatformBase(k, i) = StreamsAfter(k, i + 3 - 1)
        /\ PlatformBase(k, i) + PlatformStreams(Par[k].cfg) = StreamsAfter(k, i + 3)
    <3>1. /\ i + 3 - 1 # 0 /\ i + 3 - 1 # 1 /\ i + 3 - 1 # 2 /\ i + 3 - 1 - 2 = i
          /\ i + 3 # 0 /\ i + 3 # 1 /\ i + 3 # 2 /\ i + 3 - 2 = i + 1
      BY <2>1
    <3>2. QED
      BY <2>1, <3>1, PlatformLayout DEF StreamsAfter
  <2>5. u[i].base = p.base /\ u[i].width = p.width
    BY <2>1, <2>2 DEF Platform
  <2> HIDE DEF p, u, s
  <2> DEFINE j == i + 3
  <2>6. p.base = StreamsAfter(k, j - 1)
    <3>1. i + (3 - 1) = j - 1
      BY <2>1
    <3>2. QED
      BY <2>3, <2>4, <3>1
  <2>7. p.base + p.width = StreamsAfter(k, j)
    BY <2>3, <2>4
  <2> HIDE DEF j
  <2>8. ASSUME NEW done PROVE At(PlacedByTask(k, u, done)[i], k, j)
    <3>1. PlacedByTask(k, u, done)[i] = IF i \in done THEN Placed(u[i], s) ELSE u[i]
      BY <1>2 DEF PlacedByTask, s
    <3>2. u[i] \in Platform
      BY <1>2, <2>2
    <3>3. Placed(u[i], s).base = u[i].base /\ Placed(u[i], s).width = u[i].width
      BY <2>2, <3>2, PlacedFields
    <3>4. QED
      BY <2>5, <2>6, <2>7, <3>1, <3>3 DEF At
  <2>9. QED
    BY <2>6, <2>7, <2>8 DEF p, u, j, At
<1>3. QED
  BY <1>1, <1>2

LEMMA ConstructionNext == TypeOK /\ Construction /\ [Next]_vars => Construction'
<1> SUFFICES ASSUME TypeOK, Construction, [Next]_vars PROVE Construction'
  OBVIOUS
<1> USE DEF EnvBuilt, PlatformsBuilt
<1>1. ASSUME NEW k \in Tasks, task' = k, built' = AllObjects(k),
             numRStreams' = StreamsAfter(k, AllObjects(k)),
             NEW r \in Nat, env' = ResetEnv(BuiltEnv(k, 3), r),
             NEW done, platforms' = PlacedByTask(k,
                 UnseededPlatforms(BuiltPlatforms(k, AllObjects(k))), done)
      PROVE  Construction'
  <2>1. AllObjects(k) \in Nat
    BY ParType DEF AllObjects, Slots
  <2>2. \A o \in EnvObjs : EnvOrder[o] <= 3
    BY DEF EnvObjs, EnvOrder
  <2>3. \A o \in EnvObjs : At(env'[o], k, EnvOrder[o])
    BY <1>1, <2>2, Constructed
  <2>4. \A i \in Slots : i + 3 <= AllObjects(k) => At(platforms'[i], k, i + 3)
    BY <1>1, <2>1, Constructed
  <2>5. StreamsAfter(k, AllObjects(k)) <= numRStreams'
    BY <1>1, <2>1, StreamsMono
  <2>6. QED
    BY <1>1, <2>3, <2>4, <2>5 DEF Construction, At
<1>2. ASSUME NEW k \in Tasks, InitSim(k) PROVE Construction'
  BY <1>1, <1>2, 3 \in Nat DEF InitSim
<1>3. ASSUME InitUnknownTask \/ \E k \in Tasks : InitBadParams(k) PROVE Construction'
  <2>1. built' = 0
    BY <1>3 DEF InitUnknownTask, InitBadParams
  <2>2. QED
    BY <2>1 DEF Construction
<1>4. ASSUME NEW k \in Tasks, NEW b \in 0 .. MaxPlatforms + 2, NEW late \in BOOLEAN,
             InitBadObject(k, b, late)
      PROVE  Construction'
  <2>1. /\ task' = k /\ built' = b /\ env' = BuiltEnv(k, b)
        /\ platforms' = BuiltPlatforms(k, b) /\ b \in Nat
        /\ numRStreams' = StreamsAfter(k, IF late THEN b + 1 ELSE b)
    BY <1>4 DEF InitBadObject
  <2>2. StreamsAfter(k, b) <= numRStreams'
    <3>1. StreamsAfter(k, b) <= StreamsAfter(k, b) /\ StreamsAfter(k, b) <= StreamsAfter(k, b + 1)
      BY <2>1, StreamsMono
    <3>2. QED
      BY <2>1, <3>1
  <2>3. \A o \in EnvObjs : EnvOrder[o] <= b => At(env'[o], k, EnvOrder[o])
    BY <2>1, Constructed
  <2>4. \A i \in Slots : i + 3 <= b => At(platforms'[i], k, i + 3)
    BY <2>1, Constructed
  <2>5. QED
    BY <2>1, <2>2, <2>3, <2>4 DEF Construction, At
<1>5. ASSUME NEW k \in Tasks, NEW r \in 0 .. 3, NEW done, InitBadReset(k, r, done)
      PROVE  Construction'
  BY <1>1, <1>5, r \in Nat DEF InitBadReset
<1>6. ASSUME SameShape PROVE Construction'
  <2>1. /\ built' = built /\ task' = task /\ numRStreams' = numRStreams
        /\ \A o \in EnvObjs : env'[o].base = env[o].base /\ env'[o].width = env[o].width
        /\ \A i \in Slots : /\ platforms'[i].base = platforms[i].base
                            /\ platforms'[i].width = platforms[i].width
    BY <1>6 DEF SameShape
  <2>2. QED
    BY <2>1 DEF Construction, At
<1>7. Next => \/ \E k \in Tasks : InitSim(k)
              \/ InitUnknownTask \/ \E k \in Tasks : InitBadParams(k)
              \/ \E k \in Tasks, b \in 0 .. MaxPlatforms + 2, late \in BOOLEAN :
                     InitBadObject(k, b, late)
              \/ \E k \in Tasks, r \in 0 .. 3 : \E done : InitBadReset(k, r, done)
              \/ Later
  BY DEF Next, Later
<1>8. (Later => SameShape) /\ (UNCHANGED vars => SameShape)
  BY ShapeKept DEF Later
<1>9. QED
  BY <1>2, <1>3, <1>4, <1>5, <1>6, <1>7, <1>8

LEMMA ConstructionInit == Init => Construction
  BY DEF Init, Construction

(* Objects that stay where their constructors put them share no stream.    *)
LEMMA ConstructionOwned ==
    ASSUME TypeOK, Layout, Construction
    PROVE  StreamsOwned
<1>1. InitWentThrough => rStreams = numRStreams
  BY DEF Layout
<1>2. \A o \in EnvObjs : EnvOrder[o] \in 1 .. 3
  BY DEF EnvObjs, EnvOrder
<1>3. \A i \in Slots : i \in Nat /\ 1 <= i /\ i + 3 \in Nat \ {0}
  BY DEF Slots
<1>4. \A o, q \in EnvObjs : o # q => EnvOrder[o] # EnvOrder[q]
  BY DEF EnvObjs, EnvOrder
<1>5. CASE built > 0
  <2>1. /\ task \in Tasks /\ built \in Nat /\ numRStreams \in Nat
        /\ StreamsAfter(task, built) <= numRStreams
        /\ \A o \in EnvBuilt : o \in EnvObjs /\ EnvOrder[o] <= built
                               /\ At(env[o], task, EnvOrder[o])
        /\ \A i \in PlatformsBuilt : i \in Slots /\ i + 3 <= built
                                     /\ At(platforms[i], task, i + 3)
    BY <1>5, ParAssumption DEF Construction, TypeOK, EnvBuilt, PlatformsBuilt
  <2>2. ASSUME NEW x, NEW p \in Nat \ {0}, p <= built, At(x, task, p)
        PROVE  HandedOut(x)
    <3>1. p - 1 \in Nat /\ p \in Nat /\ p - 1 <= p
      OBVIOUS
    <3>2. /\ Par[task].own <= StreamsAfter(task, p - 1)
          /\ StreamsAfter(task, p) <= StreamsAfter(task, built)
          /\ StreamsAfter(task, p) \in Nat /\ StreamsAfter(task, built) \in Nat
      BY <2>1, <2>2, <3>1, StreamsMono
    <3>3. QED
      BY <2>1, <2>2, <3>2 DEF At, HandedOut
  <2>3. (\A o \in EnvBuilt : HandedOut(env[o])) /\ (\A i \in PlatformsBuilt : HandedOut(platforms[i]))
    BY <1>2, <1>3, <2>1, <2>2
  <2>4. \A o, q \in EnvBuilt : o # q => Disjoint(env[o], env[q])
    BY <1>2, <1>4, <2>1, AtDisjoint
  <2>5. \A o \in EnvBuilt, i \in PlatformsBuilt : Disjoint(env[o], platforms[i])
    <3>1. \A o \in EnvObjs, i \in Slots : EnvOrder[o] # i + 3
      BY <1>2, <1>3
    <3>2. QED
      BY <1>2, <1>3, <2>1, <3>1, AtDisjoint
  <2>6. \A i, j \in PlatformsBuilt : i # j => Disjoint(platforms[i], platforms[j])
    <3>1. \A i, j \in Slots : i # j => i + 3 # j + 3
      BY <1>3
    <3>2. QED
      BY <1>3, <2>1, <3>1, AtDisjoint
  <2>7. QED
    BY <1>1, <2>3, <2>4, <2>5, <2>6 DEF StreamsOwned
<1>6. CASE ~(built > 0)
  <2>1. built = 0
    BY <1>6, ParAssumption DEF TypeOK
  <2>2. EnvBuilt = {} /\ PlatformsBuilt = {}
    BY <1>2, <1>3, <2>1 DEF EnvBuilt, PlatformsBuilt
  <2>3. QED
    BY <1>1, <2>2 DEF StreamsOwned
<1>7. QED
  BY <1>5, <1>6

(* Of the objects the latest init constructed, whether it got through or   *)
(* threw half way, no two ever share a stream or draw from the task's own. *)
THEOREM StreamsNeverShared == Spec => []StreamsOwned
<1>1. Init => TypeOK /\ Layout /\ Construction
  BY TypeOKInit, LayoutInit, ConstructionInit
<1>2. TypeOK /\ Layout /\ Construction /\ [Next]_vars => (TypeOK /\ Layout /\ Construction)'
  BY TypeOKNext, LayoutNext, ConstructionNext
<1>3. TypeOK /\ Layout /\ Construction => StreamsOwned
  BY ConstructionOwned
<1>4. QED
  BY <1>1, <1>2, <1>3, PTL DEF Spec

-----------------------------------------------------------------------------
(* Counters.                                                               *)

Counters ==
    InitWentThrough =>
        /\ \A o \in EnvObjs : env[o].boot = 1
        /\ \A i \in 1 .. Par[task].n :
               \A q \in SteppedParts(Par[task].cfg) : platforms[i].boot[q] = 1

(* What a later operation does to an environment object. *)
LEMMA EnvSteps ==
    ASSUME TypeOK, Later, NEW o \in EnvObjs
    PROVE  \/ env'[o] = env[o] /\ bootstrapped' = bootstrapped
           \/ env'[o] = [env[o] EXCEPT !.seeded = FALSE] /\ bootstrapped' = 0
           \/ env'[o] = [env[o] EXCEPT !.boot = 1, !.seeded = TRUE]
<1>1. ASSUME ResetSeed
      PROVE  env'[o] = [env[o] EXCEPT !.seeded = FALSE] /\ bootstrapped' = 0
  BY <1>1 DEF ResetSeed, UnseededEnv
<1>2. ASSUME Reset PROVE env'[o] = [env[o] EXCEPT !.boot = 1, !.seeded = TRUE]
  <2>1. EnvOrder[o] <= 3
    BY DEF EnvObjs, EnvOrder
  <2>2. QED
    BY <1>2, <2>1 DEF Reset, ResetEnv
<1>3. ASSUME NEW r, NEW done, NEW half, ResetThrows(r, done, half)
      PROVE  \/ env'[o] = env[o] /\ bootstrapped' = bootstrapped
             \/ env'[o] = [env[o] EXCEPT !.boot = 1, !.seeded = TRUE]
  BY <1>3 DEF ResetThrows, ResetEnv
<1>4. ASSUME \/ \E i \in Slots : SetX(i) \/ SetXThrows(i)
             \/ \E bad, due : Step(bad, due)
             \/ \E j, bad, due : StepThrows(j, bad, due)
             \/ UNCHANGED vars
      PROVE  env'[o] = env[o] /\ bootstrapped' = bootstrapped
  BY <1>4 DEF SetX, SetXThrows, Step, StepThrows, vars
<1>5. QED
  BY <1>1, <1>2, <1>3, <1>4 DEF Later

(* What a later operation does to a platform of the task, whose setX cannot *)
(* throw: nothing, a setX, or a step.                                       *)
LEMMA PlatformSteps ==
    ASSUME TypeOK, Layout, InitWentThrough, Later, NEW i \in 1 .. Par[task].n
    PROVE  \/ platforms'[i] = platforms[i] /\ bootstrapped' = bootstrapped
           \/ platforms'[i] = [platforms[i] EXCEPT !.seeded = FALSE] /\ bootstrapped' = 0
           \/ platforms'[i] = Placed(platforms[i], Par[task].draws => Par[task].own > 0)
           \/ platforms'[i] = Placed(platforms[i], rStreams > 0)
           \/ /\ \E bad, due \in BOOLEAN : platforms'[i] = Stepped(platforms[i], bad, due)
              /\ bootstrapped' = bootstrapped
<1> DEFINE Own == Par[task].draws => Par[task].own > 0
<1>1. i \in Slots /\ i \notin Halves
  BY LayoutRange DEF Halves
<1>2. ASSUME ResetSeed
      PROVE  platforms'[i] = [platforms[i] EXCEPT !.seeded = FALSE] /\ bootstrapped' = 0
  BY <1>1, <1>2 DEF ResetSeed, UnseededPlatforms
<1>3. ASSUME Reset PROVE platforms'[i] = Placed(platforms[i], Own)
  BY <1>1, <1>3 DEF Reset, PlacedByTask
<1>4. ASSUME NEW r, NEW done, NEW half \in SUBSET Halves, ResetThrows(r, done, half)
      PROVE  \/ platforms'[i] = platforms[i] /\ bootstrapped' = bootstrapped
             \/ platforms'[i] = Placed(platforms[i], Own)
  <2>1. i \notin half
    BY <1>1, <1>4
  <2>2. QED
    BY <1>1, <1>4, <2>1 DEF ResetThrows, PlacedByTask
<1>5. ASSUME NEW j \in Slots, SetX(j) \/ SetXThrows(j)
      PROVE  \/ platforms'[i] = platforms[i] /\ bootstrapped' = bootstrapped
             \/ platforms'[i] = Placed(platforms[i], rStreams > 0)
  <2>1. CASE SetX(j)
    BY <1>1, <2>1 DEF SetX, TypeOK
  <2>2. CASE SetXThrows(j)
    <3>1. j \in Halves
      BY <1>5, <2>2 DEF SetXThrows, Halves, Slots
    <3>2. i # j
      BY <1>1, <3>1
    <3>3. QED
      BY <1>1, <2>2, <3>2 DEF SetXThrows, TypeOK
  <2>3. QED
    BY <1>5, <2>1, <2>2
<1>6. ASSUME NEW bad, NEW due, SteppedPlatforms(bad, due) = platforms'
      PROVE  \/ platforms'[i] = platforms[i]
             \/ \E b, d \in BOOLEAN : platforms'[i] = Stepped(platforms[i], b, d)
  <2>1. (i \in bad) \in BOOLEAN /\ (i \in due) \in BOOLEAN
    OBVIOUS
  <2>2. platforms'[i] = IF i \in 1 .. fleet THEN Stepped(platforms[i], i \in bad, i \in due)
                        ELSE platforms[i]
    BY <1>1, <1>6 DEF SteppedPlatforms
  <2>3. QED
    BY <2>1, <2>2
<1>7. ASSUME NEW bad, NEW due, Step(bad, due) \/ \E j : StepThrows(j, bad, due)
      PROVE  SteppedPlatforms(bad, due) = platforms' /\ bootstrapped' = bootstrapped
  BY <1>7 DEF Step, StepThrows
<1>8. ASSUME UNCHANGED vars
      PROVE  platforms'[i] = platforms[i] /\ bootstrapped' = bootstrapped
  BY <1>8 DEF vars
<1>9. QED
  <2> HIDE DEF Own
  <2>1. CASE ResetSeed \/ Reset
    BY <1>2, <1>3, <2>1 DEF Own
  <2>2. CASE \E r \in 0 .. 3 : \E done : \E half \in SUBSET Halves : ResetThrows(r, done, half)
    BY <1>4, <2>2 DEF Own
  <2>3. CASE \E j \in Slots : SetX(j) \/ SetXThrows(j)
    BY <1>5, <2>3
  <2>4. CASE (\E bad, due : Step(bad, due)) \/ (\E j, bad, due : StepThrows(j, bad, due))
    <3>1. PICK bad, due : Step(bad, due) \/ \E j : StepThrows(j, bad, due)
      BY <2>4
    <3>2. SteppedPlatforms(bad, due) = platforms' /\ bootstrapped' = bootstrapped
      BY <1>7, <3>1
    <3>3. QED
      BY <1>6, <3>2
  <2>5. CASE UNCHANGED vars
    BY <1>8, <2>5
  <2>6. QED
    BY <2>1, <2>2, <2>3, <2>4, <2>5 DEF Later

LEMMA CountersInit == Init => Counters
  BY DEF Init, Counters, InitWentThrough

LEMMA CountersNext ==
    ASSUME NoCamera
    PROVE  TypeOK /\ Layout /\ Counters /\ [Next]_vars => Counters'
<1> SUFFICES ASSUME TypeOK, Layout, Counters, [Next]_vars, InitWentThrough'
             PROVE  Counters'
  BY DEF Counters
<1>1. ASSUME NEW k \in Tasks, InitSim(k) PROVE Counters'
  <2>1. task' = k /\ Par[k].cfg.kind # "PelicanWithCamera"
    BY <1>1 DEF InitSim, NoCamera
  <2>2. QED
    BY <1>1, <2>1, InitSimBuilds DEF Counters
<1>2. ASSUME Later, SameShape PROVE Counters'
  <2> DEFINE c == Par[task].cfg
  <2>1. InitWentThrough /\ task' = task /\ task \in Tasks /\ 1 .. Par[task].n \subseteq Slots
    BY <1>2, LayoutRange DEF SameShape, InitWentThrough
  <2>2. ASSUME NEW o \in EnvObjs PROVE env'[o].boot = 1
    <3>1. env[o].boot = 1 /\ env[o] \in EnvObject
      BY <2>1 DEF Counters, TypeOK
    <3>2. QED
      BY <1>2, <3>1, EnvSteps DEF EnvObject
  <2>3. ASSUME NEW i \in 1 .. Par[task].n, NEW q \in SteppedParts(c)
        PROVE  platforms'[i].boot[q] = 1
    <3> DEFINE p == platforms[i]
    <3>1. p \in Platform /\ p.boot[q] = 1
      BY <2>1 DEF Counters, TypeOK
    <3>2. p.cfg = c
      BY <2>1 DEF Layout, OfTask
    <3>3. c.kind # "PelicanWithCamera"
      BY <2>1 DEF NoCamera
    <3>4. \A s \in BOOLEAN : Placed(p, s).boot[q] = 1
      BY <3>1, <3>2, <3>3, PlacedFields
    <3>5. \A b, d \in BOOLEAN : Stepped(p, b, d).boot[q] = 1
      BY <3>1, SteppedFields
    <3>6. [p EXCEPT !.seeded = FALSE].boot[q] = 1
      BY <3>1 DEF Platform
    <3>7. (Par[task].draws => Par[task].own > 0) \in BOOLEAN /\ (rStreams > 0) \in BOOLEAN
      OBVIOUS
    <3>8. \/ platforms'[i] = p
          \/ platforms'[i] = [p EXCEPT !.seeded = FALSE]
          \/ \E s \in BOOLEAN : platforms'[i] = Placed(p, s)
          \/ \E b, d \in BOOLEAN : platforms'[i] = Stepped(p, b, d)
      BY <1>2, <2>1, <3>7, PlatformSteps
    <3> HIDE DEF p, c
    <3>9. QED
      BY <3>1, <3>4, <3>5, <3>6, <3>8
  <2>4. QED
    BY <2>1, <2>2, <2>3 DEF Counters
<1>3. QED
  BY <1>1, <1>2, StepKinds

(* The counters and the streams are all a step asks for. *)
LEMMA CountersReady == TypeOK /\ Layout /\ Counters => ReadyToStep
<1> SUFFICES ASSUME TypeOK, Layout, Counters, Coherent PROVE CanStep
  BY DEF ReadyToStep
<1>1. InitWentThrough /\ fleet = Par[task].n
  BY DEF Coherent
<1>2. EnvCanStep
  <2>1. "gpsspacesegment" \in EnvObjs
    BY DEF EnvObjs
  <2>2. QED
    BY <1>1, <2>1, LayoutRange DEF EnvCanStep, Counters
<1>3. ASSUME NEW i \in 1 .. fleet PROVE PlatformCanStep(platforms[i])
  <2>1. platforms[i].cfg = Par[task].cfg
    BY <1>1 DEF Layout, OfTask
  <2>2. \A q \in SteppedParts(platforms[i].cfg) : platforms[i].boot[q] = 1
    BY <1>1, <2>1 DEF Counters
  <2>3. "platform" \in SteppedParts(platforms[i].cfg)
    BY DEF SteppedParts, Parts
  <2>4. InRange(platforms[i])
    BY <1>1, LayoutRange
  <2>5. QED
    BY <2>2, <2>3, <2>4 DEF PlatformCanStep
<1>4. QED
  BY <1>2, <1>3 DEF CanStep

(* Without camera platforms a bootstrapped simulator can always be stepped. *)
THEOREM AlwaysReadyToStep ==
    ASSUME NoCamera
    PROVE  Spec => []ReadyToStep
<1> DEFINE Inv == TypeOK /\ Layout /\ Counters
<1>1. Init => Inv
  BY TypeOKInit, LayoutInit, CountersInit
<1>2. Inv /\ [Next]_vars => Inv'
  BY TypeOKNext, LayoutNext, CountersNext
<1>3. Inv => ReadyToStep
  BY CountersReady
<1>4. QED
  BY <1>1, <1>2, <1>3, PTL DEF Spec

-----------------------------------------------------------------------------
(* Seeds.                                                                  *)

Seeded ==
    InitWentThrough /\ bootstrapped = 1 =>
        /\ \A o \in EnvObjs : env[o].seeded
        /\ \A i \in 1 .. Par[task].n : platforms[i].seeded

LEMMA SeededInit == Init => Seeded
  BY DEF Init, Seeded

LEMMA SeededNext ==
    ASSUME OwnDraws
    PROVE  TypeOK /\ Layout /\ Seeded /\ [Next]_vars => Seeded'
<1> SUFFICES ASSUME TypeOK, Layout, Seeded, [Next]_vars, InitWentThrough',
                    bootstrapped' = 1
             PROVE  Seeded'
  BY DEF Seeded
<1>1. ASSUME NEW k \in Tasks, InitSim(k) PROVE Seeded'
  <2>1. task' = k /\ (Par[k].draws => Par[k].own > 0)
    BY <1>1 DEF InitSim, OwnDraws
  <2>2. QED
    BY <1>1, <2>1, InitSimBuilds DEF Seeded
<1>2. ASSUME Later, SameShape PROVE Seeded'
  <2>1. /\ InitWentThrough /\ task' = task /\ task \in Tasks
        /\ 1 .. Par[task].n \subseteq Slots /\ 0 < rStreams
    BY <1>2, LayoutRange DEF SameShape, InitWentThrough
  <2>2. ASSUME NEW o \in EnvObjs PROVE env'[o].seeded
    <3>1. env[o] \in EnvObject /\ (bootstrapped = 1 => env[o].seeded)
      BY <2>1 DEF Seeded, TypeOK
    <3>2. [env[o] EXCEPT !.boot = 1, !.seeded = TRUE].seeded
      BY <3>1 DEF EnvObject
    <3>3. bootstrapped' # 0
      OBVIOUS
    <3>4. \/ env'[o] = env[o] /\ bootstrapped = 1
          \/ env'[o] = [env[o] EXCEPT !.boot = 1, !.seeded = TRUE]
      BY <1>2, <3>3, EnvSteps
    <3>5. QED
      BY <3>1, <3>2, <3>4
  <2>3. ASSUME NEW i \in 1 .. Par[task].n PROVE platforms'[i].seeded
    <3> DEFINE p == platforms[i]
    <3>1. p \in Platform /\ (bootstrapped = 1 => p.seeded)
      BY <2>1 DEF Seeded, TypeOK
    <3>2. \A b, d \in BOOLEAN : Stepped(p, b, d).seeded = p.seeded
      BY <3>1, SteppedFields
    <3>3. Placed(p, TRUE).seeded
      BY <3>1, PlacedFields
    <3>4. (Par[task].draws => Par[task].own > 0) = TRUE /\ (rStreams > 0) = TRUE
      BY <2>1 DEF OwnDraws
    <3>5. bootstrapped' # 0
      OBVIOUS
    <3>6. \/ platforms'[i] = p /\ bootstrapped' = bootstrapped
          \/ platforms'[i] = Placed(p, Par[task].draws => Par[task].own > 0)
          \/ platforms'[i] = Placed(p, rStreams > 0)
          \/ /\ \E b, d \in BOOLEAN : platforms'[i] = Stepped(p, b, d)
             /\ bootstrapped' = bootstrapped
      BY <1>2, <2>1, <3>5, PlatformSteps
    <3> HIDE DEF p
    <3>7. \/ platforms'[i] = p /\ bootstrapped = 1
          \/ platforms'[i] = Placed(p, TRUE)
          \/ bootstrapped = 1 /\ \E b, d \in BOOLEAN : platforms'[i] = Stepped(p, b, d)
      BY <3>4, <3>6
    <3>8. QED
      BY <3>1, <3>2, <3>3, <3>7
  <2>4. QED
    BY <2>1, <2>2, <2>3 DEF Seeded
<1>3. QED
  BY <1>1, <1>2, StepKinds

(* If every task that draws positions owns a stream, what is random in a    *)
(* bootstrapped simulator came from the latest seed.                        *)
THEOREM AlwaysSeeded ==
    ASSUME OwnDraws
    PROVE  Spec => []SeededState
<1> DEFINE Inv == TypeOK /\ Layout /\ Seeded
<1>1. Init => Inv
  BY TypeOKInit, LayoutInit, SeededInit
<1>2. Inv /\ [Next]_vars => Inv'
  BY TypeOKNext, LayoutNext, SeededNext
<1>3. Inv => SeededState
  BY DEF Seeded, SeededState, Coherent
<1>4. QED
  BY <1>1, <1>2, <1>3, PTL DEF Spec

-----------------------------------------------------------------------------
(* The refinement: what calls that throw leave behind, as Loading says it. *)

\* How often setX and reset placed the platform, as far as its counter tells.
Count(p) == p.boot["platform"]

(* Only a placement raises the platform's own counter, only its            *)
(* construction clears it.                                                 *)
LEMMA Counts ==
    /\ \A k \in Tasks, i \in Slots : Count(NewPlatform(k, i)) = 0
    /\ \A p \in Platform, s \in BOOLEAN : Count(Placed(p, s)) = 1
    /\ \A p \in Platform : /\ Count(HalfPlaced(p)) = Count(p)
                           /\ Count([p EXCEPT !.seeded = FALSE]) = Count(p)
    /\ \A p \in Platform, bad, due \in BOOLEAN : Count(Stepped(p, bad, due)) = Count(p)
<1>1. "platform" \in Parts /\ "platform" \notin SetByPelican
  BY DEF Parts, SetByPelican, AharsSensors
<1>2. \A k \in Tasks, i \in Slots : Count(NewPlatform(k, i)) = 0
  BY <1>1 DEF NewPlatform, Count
<1>3. ASSUME NEW p \in Platform, NEW s \in BOOLEAN
      PROVE  Count(Placed(p, s)) = 1
  <2> DEFINE b == AfterReset(p.cfg, AfterSetState(p.boot))
  <2>1. b["platform"] = 1
    BY <1>1 DEF AfterReset
  <2>2. Placed(p, s) = [p EXCEPT !.boot = b,
                          !.out = IF p.out = "current" THEN "previous" ELSE p.out,
                          !.valid = TRUE, !.seeded = s]
    BY DEF Placed
  <2> HIDE DEF b
  <2> QED BY <2>1, <2>2 DEF Platform, Count
<1>4. ASSUME NEW p \in Platform
      PROVE  Count(HalfPlaced(p)) = Count(p)
  <2> DEFINE b == AfterSetState(p.boot)
  <2>1. b["platform"] = p.boot["platform"]
    BY <1>1 DEF AfterSetState
  <2>2. HalfPlaced(p) = [p EXCEPT !.boot = b]
    BY DEF HalfPlaced
  <2> HIDE DEF b
  <2> QED BY <2>1, <2>2 DEF Platform, Count
<1>5. \A p \in Platform : Count([p EXCEPT !.seeded = FALSE]) = Count(p)
  BY DEF Platform, Count
<1>6. \A p \in Platform, bad, due \in BOOLEAN : Count(Stepped(p, bad, due)) = Count(p)
  BY SteppedFields DEF Count
<1> QED BY <1>2, <1>3, <1>4, <1>5, <1>6

LEMMA PlacedByTaskCounts ==
    ASSUME NEW k \in Tasks, NEW ps \in [Slots -> Platform], NEW done, NEW i \in Slots
    PROVE  Count(PlacedByTask(k, ps, done)[i]) = IF i \in done THEN 1 ELSE Count(ps[i])
<1>1. (Par[k].draws => Par[k].own > 0) \in BOOLEAN
  OBVIOUS
<1>2. Count(Placed(ps[i], Par[k].draws => Par[k].own > 0)) = 1
  BY <1>1, Counts
<1> QED BY <1>2 DEF PlacedByTask

\* What createObjects leaves of the counters once it built the first b objects.
LEMMA BuiltCounters ==
    ASSUME TypeOK, NEW k \in Tasks, NEW b \in Nat, NEW i \in Slots
    PROVE  /\ Count(BuiltPlatforms(k, b)[i]) = IF i + 3 <= b THEN 0 ELSE Count(platforms[i])
           /\ Count(UnseededPlatforms(BuiltPlatforms(k, b))[i])
                  = IF i + 3 <= b THEN 0 ELSE Count(platforms[i])
<1>1. BuiltPlatforms(k, b) \in [Slots -> Platform]
  BY ArrayTypes
<1>2. Count(BuiltPlatforms(k, b)[i]) = IF i + 3 <= b THEN 0 ELSE Count(platforms[i])
  BY Counts DEF BuiltPlatforms
<1>3. UnseededPlatforms(BuiltPlatforms(k, b))[i]
          = [BuiltPlatforms(k, b)[i] EXCEPT !.seeded = FALSE]
  BY DEF UnseededPlatforms
<1>4. BuiltPlatforms(k, b)[i] \in Platform
  BY <1>1
<1>5. Count([BuiltPlatforms(k, b)[i] EXCEPT !.seeded = FALSE]) = Count(BuiltPlatforms(k, b)[i])
  BY <1>4, Counts
<1> QED BY <1>2, <1>3, <1>5

\* Bare, said of the counters.
LEMMA BareIs ==
    /\ Bare = {i \in 1 .. fleet : Count(platforms[i]) = 0}
    /\ Bare' = {i \in 1 .. fleet' : Count(platforms'[i]) = 0}
BY DEF Bare, Count

(* The fleet, and who is bare in it, once m platforms are built and those  *)
(* in done placed.                                                         *)
LEMMA BuiltBare ==
    ASSUME TypeOK, NEW k \in Tasks, NEW m \in 0 .. Par[k].n, NEW b \in Nat,
           b <= 3 => m = 0, b > 3 => m = b - 3, NEW done \in SUBSET (1 .. m),
           fleet' = BuiltFleet(b),
           \A i \in Slots : Count(platforms'[i]) =
               IF i \in done THEN 1 ELSE IF i + 3 <= b THEN 0 ELSE Count(platforms[i])
    PROVE  /\ fleet' = Left!Larger(fleet, m)
           /\ Bare' = (Bare \cup (1 .. m)) \ done
<1>1. /\ fleet \in Nat /\ fleet <= MaxPlatforms /\ MaxPlatforms \in Nat
      /\ Par[k].n \in Nat /\ Par[k].n <= MaxPlatforms /\ m \in Nat /\ m <= Par[k].n
  BY ParType, ParAssumption DEF TypeOK, Slots
<1>2. fleet' = Left!Larger(fleet, m)
  BY <1>1 DEF BuiltFleet, Left!Larger
<1>3. /\ fleet' \in Nat /\ fleet' <= MaxPlatforms /\ fleet <= fleet' /\ m <= fleet'
      /\ fleet' = fleet \/ fleet' = m
  BY <1>1, <1>2 DEF Left!Larger
<1>4. \A i \in Slots : i + 3 <= b <=> i <= m
  BY <1>1 DEF Slots
<1>5. \A i \in Nat : i \in 1 .. fleet' => i \in Slots
  BY <1>1, <1>3 DEF Slots
<1>6. ASSUME NEW i \in 1 .. fleet'
      PROVE  Count(platforms'[i]) = 0 <=> i \notin done /\ (i \in 1 .. m \/ i \in Bare)
  <2>1. i \in Slots /\ i \in Nat /\ 1 <= i /\ i <= fleet'
    BY <1>3, <1>5
  <2>2. i \notin 1 .. m => i <= fleet
    BY <1>1, <1>3, <2>1
  <2>3. i \notin 1 .. m => (i \in Bare <=> Count(platforms[i]) = 0)
    BY <1>1, <2>1, <2>2, BareIs
  <2>4. i + 3 <= b <=> i \in 1 .. m
    BY <1>1, <1>4, <2>1
  <2> QED BY <2>1, <2>3, <2>4
<1>7. Bare \subseteq 1 .. fleet' /\ 1 .. m \subseteq 1 .. fleet'
  <2>1. Bare \subseteq 1 .. fleet
    BY BareIs
  <2>2. 1 .. fleet \subseteq 1 .. fleet' /\ 1 .. m \subseteq 1 .. fleet'
    BY <1>1, <1>3
  <2> QED BY <2>1, <2>2
<1> QED BY <1>2, <1>6, <1>7, BareIs

\* ... and once all of the task's are built, and those in done placed.
LEMMA AllBuiltBare ==
    ASSUME TypeOK, NEW k \in Tasks, NEW done \in SUBSET (1 .. Par[k].n),
           fleet' = BuiltFleet(AllObjects(k)),
           platforms' = PlacedByTask(k, UnseededPlatforms(BuiltPlatforms(k, AllObjects(k))),
                                     done)
    PROVE  /\ fleet' = Left!Larger(fleet, Par[k].n)
           /\ Bare' = (Bare \cup (1 .. Par[k].n)) \ done
<1> DEFINE b == AllObjects(k)
           m == Par[k].n
<1>1. m \in 0 .. m /\ b \in Nat /\ b > 3 /\ m = b - 3
  BY ParType DEF AllObjects, Slots
<1>2. ASSUME NEW i \in Slots
      PROVE  Count(platforms'[i]) = IF i \in done THEN 1
                                    ELSE IF i + 3 <= b THEN 0 ELSE Count(platforms[i])
  <2>1. UnseededPlatforms(BuiltPlatforms(k, b)) \in [Slots -> Platform]
    BY <1>1, ArrayTypes
  <2>2. Count(platforms'[i]) = IF i \in done THEN 1
                               ELSE Count(UnseededPlatforms(BuiltPlatforms(k, b))[i])
    BY <2>1, PlacedByTaskCounts
  <2> QED BY <1>1, <2>2, BuiltCounters
<1>3. fleet' = BuiltFleet(b)
  OBVIOUS
<1> HIDE DEF b
<1>4. (b <= 3 => m = 0) /\ (b > 3 => m = b - 3) /\ b \in Nat /\ m \in 0 .. Par[k].n
      /\ done \in SUBSET (1 .. m)
  BY <1>1
<1> HIDE DEF m
<1>5. fleet' = Left!Larger(fleet, m) /\ Bare' = (Bare \cup (1 .. m)) \ done
  BY <1>2, <1>3, <1>4, BuiltBare
<1> QED BY <1>5 DEF m

\* ... and once those in done are placed again in a fleet that stays.
LEMMA PlacedBare ==
    ASSUME TypeOK, NEW done, UNCHANGED fleet,
           \A i \in Slots : Count(platforms'[i]) = IF i \in done THEN 1 ELSE Count(platforms[i])
    PROVE  Bare' = Bare \ done
<1>1. \A i \in 1 .. fleet : i \in Slots
  BY ParAssumption DEF TypeOK, Slots
<1> QED BY <1>1, BareIs

(* Every operation, whether it returns or throws, is a step of Loading.    *)
LEMMA LoadingStep ==
    ASSUME TypeOK, [Next]_vars
    PROVE  [Left!LoadNext]_(Left!loadVars)
<1> DEFINE Goal == [Left!LoadNext]_(Left!loadVars)
           Sizes == [k \in Tasks |-> Par[k].n]
           Dts == [k \in Tasks |-> Par[k].dt]
<1>a. ASSUME UNCHANGED <<task, taskDt, fleet>>,
             \A i \in Slots : Count(platforms'[i]) = Count(platforms[i])
      PROVE  Goal
  <2>1. Bare' = Bare \ {}
    BY <1>a, PlacedBare
  <2> QED BY <1>a, <2>1 DEF Left!loadVars
<1>b. ASSUME task \in Tasks, NEW done \in SUBSET (1 .. Par[task].n),
             UNCHANGED <<task, taskDt, fleet>>,
             \A i \in Slots : Count(platforms'[i]) =
                 IF i \in done THEN 1 ELSE Count(platforms[i])
      PROVE  Goal
  <2>1. Bare' = Bare \ done
    BY <1>b, PlacedBare
  <2>2. task # NoTask
    BY <1>b, ParAssumption
  <2>3. done \in SUBSET Left!Own
    BY <1>b, <2>2 DEF Left!Own
  <2>4. Left!Place(done)
    BY <1>b, <2>1 DEF Left!Place
  <2> QED BY <2>3, <2>4 DEF Left!LoadNext
<1>0. CASE UNCHANGED vars
  <2>1. UNCHANGED <<task, taskDt, fleet, platforms>>
    BY <1>0 DEF vars
  <2> QED BY <1>a, <2>1
<1>1. ASSUME NEW k \in Tasks, InitSim(k) PROVE Goal
  <2> DEFINE all == 1 .. Par[k].n
  <2>1. /\ task' = k /\ taskDt' = Par[k].dt /\ fleet' = BuiltFleet(AllObjects(k))
        /\ platforms' = PlacedByTask(k,
               UnseededPlatforms(BuiltPlatforms(k, AllObjects(k))), all)
        /\ all \in SUBSET (1 .. Par[k].n)
    BY <1>1 DEF InitSim
  <2> HIDE DEF all
  <2>2. /\ fleet' = Left!Larger(fleet, Par[k].n)
        /\ Bare' = (Bare \cup (1 .. Par[k].n)) \ all
    BY <2>1, AllBuiltBare
  <2>3. Left!Load(k)
    BY <2>1, <2>2 DEF Left!Load, all
  <2> QED BY <2>3 DEF Left!LoadNext
<1>2. ASSUME InitUnknownTask PROVE Goal
  BY <1>2, <1>a DEF InitUnknownTask
<1>3. ASSUME NEW k \in Tasks, InitBadParams(k) PROVE Goal
  <2>1. /\ task' = k /\ taskDt' = 0 /\ UNCHANGED <<fleet, platforms>>
    BY <1>3 DEF InitBadParams
  <2>2. UNCHANGED Bare
    BY <2>1, BareIs
  <2>3. Left!LoadRejected(k)
    BY <2>1, <2>2 DEF Left!LoadRejected
  <2> QED BY <2>3 DEF Left!LoadNext
<1>4. ASSUME NEW k \in Tasks, NEW b \in 0 .. MaxPlatforms + 2, NEW late \in BOOLEAN,
             InitBadObject(k, b, late)
      PROVE  Goal
  <2> DEFINE m == IF b > 3 THEN b - 3 ELSE 0
  <2>1. b \in Nat /\ b < AllObjects(k) /\ AllObjects(k) = 3 + Par[k].n /\ Par[k].n \in Nat
    BY <1>4, ParType, ParAssumption DEF AllObjects, Slots, InitBadObject
  <2>2. m \in 0 .. Par[k].n /\ (b <= 3 => m = 0) /\ (b > 3 => m = b - 3)
    BY <2>1
  <2>3. /\ task' = k /\ taskDt' = Par[k].dt /\ fleet' = BuiltFleet(b)
        /\ platforms' = BuiltPlatforms(k, b)
    BY <1>4 DEF InitBadObject
  <2> HIDE DEF m
  <2>4. \A i \in Slots : Count(platforms'[i]) =
            IF i \in {} THEN 1 ELSE IF i + 3 <= b THEN 0 ELSE Count(platforms[i])
    BY <2>1, <2>3, BuiltCounters
  <2>5. /\ fleet' = Left!Larger(fleet, m) /\ Bare' = (Bare \cup (1 .. m)) \ {}
    BY <2>1, <2>2, <2>3, <2>4, BuiltBare
  <2>6. Left!LoadBreaks(k, m, {})
    BY <2>3, <2>5 DEF Left!LoadBreaks
  <2>7. \E done \in SUBSET (1 .. m) : Left!LoadBreaks(k, m, done)
    BY <2>6
  <2> QED BY <2>2, <2>7 DEF Left!LoadNext
<1>5. ASSUME NEW k \in Tasks, NEW r \in 0 .. 3, NEW done \in SUBSET (1 .. Par[k].n),
             InitBadReset(k, r, done)
      PROVE  Goal
  <2>1. /\ task' = k /\ taskDt' = Par[k].dt /\ fleet' = BuiltFleet(AllObjects(k))
        /\ platforms' = PlacedByTask(k,
               UnseededPlatforms(BuiltPlatforms(k, AllObjects(k))), done)
    BY <1>5 DEF InitBadReset
  <2>2. /\ fleet' = Left!Larger(fleet, Par[k].n)
        /\ Bare' = (Bare \cup (1 .. Par[k].n)) \ done
    BY <2>1, AllBuiltBare
  <2>3. Left!LoadBreaks(k, Par[k].n, done)
    BY <2>1, <2>2 DEF Left!LoadBreaks
  <2>4. Par[k].n \in 0 .. Par[k].n
    BY ParType DEF Slots
  <2> QED BY <2>3, <2>4 DEF Left!LoadNext
<1>6. ASSUME ResetSeed PROVE Goal
  <2>1. platforms' = UnseededPlatforms(platforms)
    BY <1>6 DEF ResetSeed
  <2>2. ASSUME NEW i \in Slots PROVE Count(platforms'[i]) = Count(platforms[i])
    <3>1. platforms'[i] = [platforms[i] EXCEPT !.seeded = FALSE] /\ platforms[i] \in Platform
      BY <2>1 DEF UnseededPlatforms, TypeOK
    <3> QED BY <3>1, Counts
  <2>3. UNCHANGED <<task, taskDt, fleet>>
    BY <1>6 DEF ResetSeed
  <2> QED BY <1>a, <2>2, <2>3
<1>7. ASSUME Reset PROVE Goal
  <2>1. /\ task \in Tasks /\ UNCHANGED <<task, taskDt, fleet>>
        /\ platforms' = PlacedByTask(task, platforms, 1 .. Par[task].n)
    BY <1>7 DEF Reset, TypeOK
  <2>2. \A i \in Slots : Count(platforms'[i]) =
            IF i \in 1 .. Par[task].n THEN 1 ELSE Count(platforms[i])
    <3> DEFINE all == 1 .. Par[task].n
    <3>1. platforms' = PlacedByTask(task, platforms, all) /\ platforms \in [Slots -> Platform]
      BY <2>1 DEF TypeOK
    <3> HIDE DEF all
    <3>2. \A i \in Slots : Count(platforms'[i]) =
              IF i \in all THEN 1 ELSE Count(platforms[i])
      BY <2>1, <3>1, PlacedByTaskCounts
    <3> QED BY <3>2 DEF all
  <2>3. 1 .. Par[task].n \in SUBSET (1 .. Par[task].n)
    OBVIOUS
  <2> QED BY <1>b, <2>1, <2>2, <2>3
<1>8. ASSUME NEW r \in 0 .. 3, NEW done, NEW half, ResetThrows(r, done, half) PROVE Goal
  <2>1. /\ task \in Tasks /\ UNCHANGED <<task, taskDt, fleet>>
        /\ done \in SUBSET (1 .. Par[task].n)
        /\ \A i \in Slots : platforms'[i] =
               IF i \in half THEN HalfPlaced(platforms[i])
               ELSE PlacedByTask(task, platforms, done)[i]
    BY <1>8 DEF ResetThrows, TypeOK
  <2>2. ASSUME NEW i \in Slots
        PROVE  Count(platforms'[i]) = IF i \in done \ half THEN 1 ELSE Count(platforms[i])
    <3>1. Count(PlacedByTask(task, platforms, done)[i])
              = IF i \in done THEN 1 ELSE Count(platforms[i])
      BY <2>1, PlacedByTaskCounts DEF TypeOK
    <3>2. Count(HalfPlaced(platforms[i])) = Count(platforms[i])
      BY Counts DEF TypeOK
    <3> QED BY <2>1, <3>1, <3>2
  <2>3. done \ half \in SUBSET (1 .. Par[task].n)
    BY <2>1
  <2> QED BY <1>b, <2>1, <2>2, <2>3
<1>9. ASSUME NEW i \in Slots, SetX(i) PROVE Goal
  <2>1. /\ UNCHANGED <<task, taskDt, fleet>>
        /\ platforms' = [platforms EXCEPT ![i] = Placed(platforms[i], rStreams > 0)]
    BY <1>9 DEF SetX
  <2>2. (rStreams > 0) \in BOOLEAN
    OBVIOUS
  <2>3. \A j \in Slots : Count(platforms'[j]) = IF j \in {i} THEN 1 ELSE Count(platforms[j])
    BY <2>1, <2>2, Counts DEF TypeOK
  <2>4. Bare' = Bare \ {i}
    BY <2>1, <2>3, PlacedBare
  <2>5. CASE i \in Bare
    BY <2>1, <2>4, <2>5 DEF Left!LoadNext, Left!Place
  <2>6. CASE i \notin Bare
    BY <2>1, <2>4, <2>6 DEF Left!loadVars
  <2> QED BY <2>5, <2>6
<1>10. ASSUME NEW i \in Slots, SetXThrows(i) PROVE Goal
  <2>1. /\ UNCHANGED <<task, taskDt, fleet>>
        /\ platforms' = [platforms EXCEPT ![i] = HalfPlaced(platforms[i])]
    BY <1>10 DEF SetXThrows
  <2>2. \A j \in Slots : Count(platforms'[j]) = Count(platforms[j])
    BY <2>1, Counts DEF TypeOK
  <2> QED BY <1>a, <2>1, <2>2
<1>c. ASSUME NEW bad, NEW due, platforms' = SteppedPlatforms(bad, due),
             UNCHANGED <<task, taskDt, fleet>>
      PROVE  Goal
  <2>1. \A i \in Slots : (i \in bad) \in BOOLEAN /\ (i \in due) \in BOOLEAN
    OBVIOUS
  <2>2. \A i \in Slots : Count(Stepped(platforms[i], i \in bad, i \in due)) = Count(platforms[i])
    BY <2>1, Counts DEF TypeOK
  <2>3. \A i \in Slots : Count(platforms'[i]) = Count(platforms[i])
    BY <1>c, <2>2 DEF SteppedPlatforms
  <2> QED BY <1>a, <1>c, <2>3
<1>11. ASSUME NEW bad, NEW due, Step(bad, due) PROVE Goal
  BY <1>11, <1>c DEF Step
<1>12. ASSUME NEW j \in Nat, NEW bad, NEW due, StepThrows(j, bad, due) PROVE Goal
  BY <1>12, <1>c DEF StepThrows
<1> HIDE DEF Goal
<1>13. ASSUME Next PROVE Goal
  <2>1. \A j \in 1 .. taskDt : j \in Nat
    BY DEF TypeOK
  <2> QED
    BY <1>1, <1>2, <1>3, <1>4, <1>5, <1>6, <1>7, <1>8, <1>9, <1>10, <1>11, <1>12, <1>13,
       <2>1 DEF Next
<1>14. QED
  BY <1>0, <1>13 DEF Goal

(* Whatever calls throw, the simulator they leave behind is one Loading     *)
(* describes: nothing is rolled back, no platform is taken away, and one    *)
(* that was placed keeps a state until an init builds it anew.              *)
THEOREM LoadingImplemented == Spec => NothingRolledBack
<1>1. Init => Left!LoadInit
  BY DEF Init, Left!LoadInit, Bare
<1>2. TypeOK /\ [Next]_vars => [Left!LoadNext]_(Left!loadVars)
  BY LoadingStep
<1>3. QED
  BY <1>1, <1>2, TypeCorrect, PTL DEF Spec, NothingRolledBack, Left!LoadSpec
=============================================================================
