------------------------------- MODULE QRSim -------------------------------
(***************************************************************************)
(* The life cycle of one simulator object: init, resetSeed, reset, setX    *)
(* and step of sim/QRSim.m, with the construction, re-initialisation and   *)
(* guard counters of every Steppable the simulator owns.                   *)
(*                                                                         *)
(* Every Steppable carries a counter, "bootstrapped", that setState zeroes *)
(* and reset raises; step refuses to run unless the counter is exactly 1.  *)
(* QRSim itself carries a flag of the same name, zeroed by resetSeed and   *)
(* raised by reset.  Random streams are handed out by a running count,     *)
(* numRStreams, as the objects are constructed, and created in one go by   *)
(* resetSeed.  init may be called again on the same object: the TCP server *)
(* does it for every INIT message it receives.                             *)
(*                                                                         *)
(* Any call may throw half way.  The source has no rollback, so an action  *)
(* that throws leaves behind what the call had done until then.            *)
(***************************************************************************)
EXTENDS Naturals, FiniteSets

CONSTANTS
    Tasks,          \* the task classes init can be asked for
    Par,            \* Par[k]: what task k's init() method returns
    NoTask,         \* model value: no task loaded yet
    MaxPlatforms,   \* slots of simState.platforms (no task has more)
    MaxT,           \* bound: the simulated time TLC explores, in ticks of DT
    MaxFailedInits  \* bound: calls of init that throw, one after the other

Slots   == 1 .. MaxPlatforms
EnvObjs == {"gpsspacesegment", "wind", "area"}
\* The order createObjects adds the environment objects in, which is also the
\* order in which reset and step visit them.
EnvOrder == [gpsspacesegment |-> 1, wind |-> 2, area |-> 3]

Kinds == {"Pelican", "PelicanWithCamera", "PelicanWithPlumeSensor"}
\* The four sensors the AHARS owns.
AharsSensors == {"accelerometer", "gyroscope", "altimeter", "orientationEstimator"}
\* What Pelican.setX itself re-initialises before it resets.
SetByPelican == AharsSensors \cup {"ahars", "gpsreceiver", "turbulence"}
\* "extra" is the camera or the plume sensor of the two subclasses; a plain
\* Pelican has none and its "extra" counter is never touched.
Parts == SetByPelican \cup {"platform", "extra"}
\* The parts whose noisy class draws from random streams of its own.
NoisyParts == Parts \ {"platform", "ahars"}

\* A platform configuration: its class and which of its parts are noisy.
Configs == [kind : Kinds, noisy : SUBSET NoisyParts]
\* Of a task: its dt in ticks, platforms, satellites (0: GPS off), wind switch,
\* streams taken by the area and by the task itself, whether the task's reset
\* draws the initial positions, and the configuration of its platforms.
TaskParams == [dt : Nat \ {0}, n : Slots, svs : Nat, wind : BOOLEAN, area : Nat,
               own : Nat, draws : BOOLEAN, cfg : Configs]

ASSUME ParAssumption ==
    /\ MaxPlatforms \in Nat \ {0}
    /\ MaxT \in Nat
    /\ MaxFailedInits \in Nat
    /\ Par \in [Tasks -> TaskParams]
    /\ NoTask \notin Tasks

VARIABLES
    task,           \* simState.task (NoTask before the first init)
    taskDt,         \* task.dt in ticks; 0 while the new task object has none
    numRStreams,    \* simState.numRStreams
    rStreams,       \* number of streams in simState.rStreams
    t,              \* simState.t in ticks
    env,            \* simState.environment: counter and streams of each object
    fleet,          \* length(simState.platforms)
    platforms,      \* simState.platforms, on the slots 1..fleet
    bootstrapped,   \* QRSim.bootstrapped
    failedInits,    \* history: calls of init that threw since one returned
    built           \* history: objects the latest init constructed, in its order

vars == <<task, taskDt, numRStreams, rStreams, t, env, fleet, platforms,
          bootstrapped, failedInits, built>>

-----------------------------------------------------------------------------
(* Construction.  The counters are only ever compared with 1, so 2 stands   *)
(* for "2 or more".                                                         *)

Counter == 0 .. 2
Bump(n) == IF n = 2 THEN 2 ELSE n + 1

\* Where the output of the camera or plume sensor that a caller can read comes
\* from: no measurement yet, one since the latest setX, or one before it.
Origin == {"none", "current", "previous"}

\* base, width: the streams base+1..base+width are the object's own.
\* seeded (history): what is random about its state came from the streams that
\* the latest resetSeed created.
EnvObject == [made : BOOLEAN, boot : Counter, base : Nat, width : Nat,
              seeded : BOOLEAN]
Platform  == [cfg : Configs, boot : [Parts -> Counter], out : Origin,
              valid : BOOLEAN, base : Nat, width : Nat, seeded : BOOLEAN]

HasExtra(c) == c.kind # "Pelican"

\* Streams taken by the constructor of a part, if it is the noisy class.
PartStreams(c, p, w) == IF p \in c.noisy THEN w ELSE 0

\* Streams a platform takes: 6 for the dynamics, then those of its noisy parts.
PlatformStreams(c) ==
    6 + PartStreams(c, "turbulence", 4)
      + PartStreams(c, "accelerometer", 3)
      + PartStreams(c, "gyroscope", 3)
      + PartStreams(c, "altimeter", 2)
      + PartStreams(c, "orientationEstimator", 4)
      + PartStreams(c, "gpsreceiver", 2)
      + PartStreams(c, "extra", 1)

\* One per satellite, and one for the start time and the spin up.
GpsStreams(k)  == IF Par[k].svs = 0 THEN 0 ELSE Par[k].svs + 1
WindStreams(k) == IF Par[k].wind THEN 1 ELSE 0

EnvWidth(k) == [gpsspacesegment |-> GpsStreams(k), wind |-> WindStreams(k),
                area |-> Par[k].area]

\* A plausible slip: the space segment's own stream is left out of the count.
EnvBaseShort(k) ==
    [gpsspacesegment |-> Par[k].own,
     wind |-> Par[k].own + Par[k].svs,
     area |-> Par[k].own + Par[k].svs + WindStreams(k)]

\* numRStreams as the constructor of each environment object finds it.
EnvBase(k) ==
    [gpsspacesegment |-> Par[k].own,
     wind |-> Par[k].own + GpsStreams(k),
     area |-> Par[k].own + GpsStreams(k) + WindStreams(k)]
EnvEnd(k) == EnvBase(k).area + Par[k].area

\* ... and as the constructor of platform i finds it.
PlatformBase(k, i) == EnvEnd(k) + (i - 1) * PlatformStreams(Par[k].cfg)

NewEnvObject(k, o) == [made |-> TRUE, boot |-> 0, base |-> EnvBase(k)[o],
                       width |-> EnvWidth(k)[o], seeded |-> FALSE]

NewPlatform(k, i) ==
    [cfg    |-> Par[k].cfg,
     boot   |-> [p \in Parts |-> 0],
     out    |-> "none",
     valid  |-> FALSE,
     base   |-> PlatformBase(k, i),
     width  |-> PlatformStreams(Par[k].cfg),
     seeded |-> FALSE]

NoEnvObject == [made |-> FALSE, boot |-> 0, base |-> 0, width |-> 0, seeded |-> FALSE]
\* What a slot beyond the fleet holds; nothing reads it.
NoPlatform == [cfg |-> [kind |-> "Pelican", noisy |-> {}],
               boot |-> [p \in Parts |-> 0], out |-> "none", valid |-> FALSE,
               base |-> 0, width |-> 0, seeded |-> FALSE]

\* A noisy GPS receiver asserts that there is a real space segment.
GpsUsable(k) == "gpsreceiver" \in Par[k].cfg.noisy => Par[k].svs # 0

\* createObjects runs the constructors in the order 1..3 (environment), 4..
\* (platforms).  It assigns into the existing structures, so what an earlier
\* init left in the slots it does not reach is still there.
AllObjectsPlusOne(k) == 4 + Par[k].n
AllObjects(k) == 3 + Par[k].n
BuiltEnv(k, b) == [o \in EnvObjs |-> IF EnvOrder[o] <= b THEN NewEnvObject(k, o)
                                     ELSE env[o]]
BuiltPlatforms(k, b) == [i \in Slots |-> IF i + 3 <= b THEN NewPlatform(k, i)
                                         ELSE platforms[i]]
\* A plausible slip: the platforms are counted from those of this init.
BuiltFleetAnew(b) == IF b > 3 THEN b - 3 ELSE fleet

BuiltFleet(b) == IF b > fleet + 3 THEN b - 3 ELSE fleet
\* numRStreams once the first b objects are constructed.
StreamsAfter(k, b) ==
    CASE b = 0 -> EnvBase(k).gpsspacesegment
      [] b = 1 -> EnvBase(k).wind
      [] b = 2 -> EnvBase(k).area
      [] OTHER -> PlatformBase(k, b - 2)

-----------------------------------------------------------------------------
(* Re-initialisation.                                                      *)

\* A draw from a stream that does not exist is an error.
InRange(x) == x.base + x.width <= rStreams

\* A plausible slip: setX forgets to re-initialise the turbulence.
AfterSetStateNoTurbulence(b) ==
    [p \in Parts |-> IF p \in SetByPelican \ {"turbulence"} THEN 0 ELSE b[p]]

\* setState of the receiver, the AHARS (and its sensors) and the turbulence.
AfterSetState(b) == [p \in Parts |-> IF p \in SetByPelican THEN 0 ELSE b[p]]

\* resetAdditional resets the extra part, which setX never told of the new
\* state: the camera counts its resets, the plume sensor sets its counter.
ExtraReset(c, n) == CASE c.kind = "PelicanWithCamera"      -> Bump(n)
                      [] c.kind = "PelicanWithPlumeSensor" -> 1
                      [] OTHER                             -> n

\* The noiseless gyroscope and altimeter set their counter, all others count.
PartReset(c, p, n) == IF p \in {"gyroscope", "altimeter"} \ c.noisy THEN 1
                      ELSE Bump(n)

AfterReset(c, b) ==
    [p \in Parts |-> CASE p \in SetByPelican -> PartReset(c, p, b[p])
                       [] p = "extra"        -> ExtraReset(c, b[p])
                       [] OTHER              -> 1]

\* setX does not touch the last output of the extra part.
Placed(p, s) == [p EXCEPT !.boot   = AfterReset(p.cfg, AfterSetState(p.boot)),
                          !.out    = IF @ = "current" THEN "previous" ELSE @,
                          !.valid  = TRUE,
                          !.seeded = s]

\* setX that throws when a part's reset draws from a stream that is not there.
HalfPlaced(p) == [p EXCEPT !.boot = AfterSetState(@)]
CannotReset(p) == p.cfg.noisy \cap SetByPelican # {} /\ ~InRange(p)
Halves == {i \in 1 .. fleet : CannotReset(platforms[i])}

\* task.reset places the task's platforms.  A task that draws the positions
\* without having taken a stream draws them from MATLAB's global stream.
PlacedByTask(k, ps, done) ==
    [i \in Slots |-> IF i \in done
                     THEN Placed(ps[i], Par[k].draws => Par[k].own > 0)
                     ELSE ps[i]]

\* A plausible slip: the last environment object is not visited.
ResetEnvButLast(e, r) ==
    [o \in EnvObjs |-> IF EnvOrder[o] < r THEN [e[o] EXCEPT !.boot = 1, !.seeded = TRUE]
                       ELSE e[o]]

\* reset of the first r environment objects.
ResetEnv(e, r) ==
    [o \in EnvObjs |-> IF EnvOrder[o] <= r THEN [e[o] EXCEPT !.boot = 1, !.seeded = TRUE]
                       ELSE e[o]]

\* resetSeed replaces all streams.
UnseededEnv(e)        == [o \in EnvObjs |-> [e[o] EXCEPT !.seeded = FALSE]]
UnseededPlatforms(ps) == [i \in Slots |-> [ps[i] EXCEPT !.seeded = FALSE]]

-----------------------------------------------------------------------------
(* Stepping.                                                               *)

\* The parts a valid platform steps: the extra one only if there is one.
SteppedParts(c) == IF HasExtra(c) THEN Parts ELSE Parts \ {"extra"}

\* No environment object's step hits its assertion or a missing stream.
EnvCanStep == /\ \A o \in EnvObjs : env[o].made => env[o].boot = 1
              /\ env["gpsspacesegment"].width = 0 \/ InRange(env["gpsspacesegment"])

\* Nor does platform p's; an invalid platform does nothing past its own check.
PlatformCanStep(p) == /\ p.boot["platform"] = 1
                      /\ p.valid => /\ \A q \in SteppedParts(p.cfg) : p.boot[q] = 1
                                    /\ InRange(p)

CanStep == EnvCanStep /\ \A i \in 1 .. fleet : PlatformCanStep(platforms[i])

\* Effect of the ticks of one step on platform p: it may leave its limits or
\* collide (bad), and its extra sensor may be due for a measurement.
Stepped(p, bad, due) ==
    [p EXCEPT !.valid = @ /\ ~bad,
              !.out   = IF p.valid /\ ~bad /\ HasExtra(p.cfg)
                           /\ (due \/ p.cfg.kind = "PelicanWithCamera")
                        THEN "current" ELSE @]

Equipped == {i \in 1 .. fleet : HasExtra(platforms[i].cfg)}

SteppedPlatforms(bad, due) ==
    [i \in Slots |-> IF i \in 1 .. fleet
                     THEN Stepped(platforms[i], i \in bad, i \in due)
                     ELSE platforms[i]]

-----------------------------------------------------------------------------
Init == /\ task = NoTask
        /\ taskDt = 0
        /\ numRStreams = 0
        /\ rStreams = 0
        /\ t = 0
        /\ env = [o \in EnvObjs |-> NoEnvObject]
        /\ fleet = 0
        /\ platforms = [i \in Slots |-> NoPlatform]
        /\ bootstrapped = 0
        /\ failedInits = 0
        /\ built = 0

InitFails == failedInits < MaxFailedInits /\ failedInits' = failedInits + 1

(* init(taskName) that returns: task.init, createObjects, resetSeed, reset. *)
InitSim(k) ==
    /\ GpsUsable(k)
    /\ task' = k
    /\ taskDt' = Par[k].dt
    /\ numRStreams' = StreamsAfter(k, AllObjects(k))
    /\ rStreams' = StreamsAfter(k, AllObjects(k))
    /\ t' = 0
    /\ env' = ResetEnv(BuiltEnv(k, 3), 3)
    /\ fleet' = BuiltFleet(AllObjects(k))
    /\ platforms' = PlacedByTask(k, UnseededPlatforms(BuiltPlatforms(k, AllObjects(k))),
                                 1 .. Par[k].n)
    /\ bootstrapped' = 1
    /\ failedInits' = 0
    /\ built' = AllObjects(k)

(* init of a name that is no task class: only the count has been cleared.  *)
InitUnknownTask ==
    /\ numRStreams' = 0
    /\ built' = 0
    /\ InitFails
    /\ UNCHANGED <<task, taskDt, rStreams, t, env, fleet, platforms, bootstrapped>>

(* init whose parameters are rejected: the new task is in, without its dt. *)
InitBadParams(k) ==
    /\ task' = k
    /\ taskDt' = 0
    /\ numRStreams' = Par[k].own
    /\ built' = 0
    /\ InitFails
    /\ UNCHANGED <<rStreams, t, env, fleet, platforms, bootstrapped>>

(* init whose createObjects throws in the constructor after the b-th; the  *)
(* constructor that throws has taken all of its streams (late) or none.     *)
InitBadObject(k, b, late) ==
    /\ b < AllObjects(k)
    /\ b > 3 => GpsUsable(k)
    /\ task' = k
    /\ taskDt' = Par[k].dt
    /\ numRStreams' = StreamsAfter(k, IF late THEN b + 1 ELSE b)
    /\ env' = BuiltEnv(k, b)
    /\ fleet' = BuiltFleet(b)
    /\ platforms' = BuiltPlatforms(k, b)
    /\ built' = b
    /\ InitFails
    /\ UNCHANGED <<rStreams, t, bootstrapped>>

(* init whose reset throws: r environment objects and the platforms in     *)
(* done have been reset, and resetSeed has already cleared the flag.       *)
InitBadReset(k, r, done) ==
    /\ GpsUsable(k)
    /\ done # {} => r = 3
    /\ task' = k
    /\ taskDt' = Par[k].dt
    /\ numRStreams' = StreamsAfter(k, AllObjects(k))
    /\ rStreams' = StreamsAfter(k, AllObjects(k))
    /\ t' = 0
    /\ env' = ResetEnv(BuiltEnv(k, 3), r)
    /\ fleet' = BuiltFleet(AllObjects(k))
    /\ platforms' = PlacedByTask(k, UnseededPlatforms(BuiltPlatforms(k, AllObjects(k))),
                                 done)
    /\ bootstrapped' = 0
    /\ built' = AllObjects(k)
    /\ InitFails

(* resetSeed: creating 0 streams is an error, and before init there is no  *)
(* seed to read.                                                           *)
ResetSeed ==
    /\ task # NoTask
    /\ numRStreams # 0
    /\ rStreams' = numRStreams
    /\ env' = UnseededEnv(env)
    /\ platforms' = UnseededPlatforms(platforms)
    /\ bootstrapped' = 0
    /\ UNCHANGED <<task, taskDt, numRStreams, t, fleet, failedInits, built>>

(* reset that returns: every environment object, then the task, which      *)
(* places its platforms and so needs that many of them to exist.           *)
Reset ==
    /\ task # NoTask
    /\ Par[task].n <= fleet
    /\ Par[task].own <= rStreams
    /\ \A o \in EnvObjs : env[o].width = 0 \/ InRange(env[o])
    /\ \A i \in 1 .. Par[task].n : ~CannotReset(platforms[i])
    /\ t' = 0
    /\ env' = ResetEnv(env, 3)
    /\ platforms' = PlacedByTask(task, platforms, 1 .. Par[task].n)
    /\ bootstrapped' = 1
    /\ UNCHANGED <<task, taskDt, numRStreams, rStreams, fleet, failedInits, built>>

(* reset that throws after r environment objects and the platforms in      *)
(* done; a platform that cannot be reset (half) may be left half placed.   *)
ResetThrows(r, done, half) ==
    /\ task # NoTask
    /\ \A o \in EnvObjs : EnvOrder[o] <= r =>
                              env[o].made /\ (env[o].width = 0 \/ InRange(env[o]))
    /\ done \cup half # {} => r = 3
    /\ done \cup half \subseteq 1 .. fleet \cap 1 .. Par[task].n
    /\ \A i \in done : ~CannotReset(platforms[i])
    /\ Cardinality(half) <= 1
    /\ t' = 0
    /\ env' = ResetEnv(env, r)
    /\ platforms' = [i \in Slots |-> IF i \in half THEN HalfPlaced(platforms[i])
                                     ELSE PlacedByTask(task, platforms, done)[i]]
    /\ UNCHANGED <<task, taskDt, numRStreams, rStreams, fleet, bootstrapped, failedInits,
                   built>>

(* A caller's own setX on platform i, with a state within the limits.      *)
SetX(i) ==
    /\ i <= fleet
    /\ ~CannotReset(platforms[i])
    /\ platforms' = [platforms EXCEPT ![i] = Placed(@, rStreams > 0)]
    /\ UNCHANGED <<task, taskDt, numRStreams, rStreams, t, env, fleet, bootstrapped,
                   failedInits, built>>

SetXThrows(i) ==
    /\ i <= fleet
    /\ CannotReset(platforms[i])
    /\ platforms' = [platforms EXCEPT ![i] = HalfPlaced(@)]
    /\ UNCHANGED <<task, taskDt, numRStreams, rStreams, t, env, fleet, bootstrapped,
                   failedInits, built>>

(* step(U) that returns, U having one column per platform.  With the dt of *)
(* a half-initialised task (0) the loop is empty and nothing changes.      *)
Step(bad, due) ==
    /\ bootstrapped = 1
    /\ taskDt > 0
    /\ CanStep
    /\ t + taskDt <= MaxT
    /\ t' = t + taskDt
    /\ platforms' = SteppedPlatforms(bad, due)
    /\ UNCHANGED <<task, taskDt, numRStreams, rStreams, env, fleet, bootstrapped,
                   failedInits, built>>

(* step(U) that throws in its j-th tick: a counter, a missing stream, the  *)
(* size or the values of U, or a platform told to treat an invalid state   *)
(* as an error.  The time has been advanced, some platforms have moved.    *)
StepThrows(j, bad, due) ==
    /\ bootstrapped = 1
    /\ j \in 1 .. taskDt
    /\ ~CanStep => j = 1
    /\ \A i \in bad \cup due : EnvCanStep /\ PlatformCanStep(platforms[i])
    /\ t + j <= MaxT
    /\ t' = t + j
    /\ platforms' = SteppedPlatforms(bad, due)
    /\ UNCHANGED <<task, taskDt, numRStreams, rStreams, env, fleet, bootstrapped,
                   failedInits, built>>

Next ==
    \/ \E k \in Tasks : InitSim(k)
    \/ InitUnknownTask
    \/ \E k \in Tasks : InitBadParams(k)
    \/ \E k \in Tasks, b \in 0 .. MaxPlatforms + 2, late \in BOOLEAN :
           InitBadObject(k, b, late)
    \/ \E k \in Tasks, r \in 0 .. 3 : \E done \in SUBSET (1 .. Par[k].n) :
           InitBadReset(k, r, done)
    \/ ResetSeed
    \/ Reset
    \/ \E r \in 0 .. 3, done \in SUBSET (1 .. fleet) : \E half \in SUBSET Halves :
           ResetThrows(r, done, half)
    \/ \E i \in Slots : SetX(i) \/ SetXThrows(i)
    \/ \E bad \in SUBSET (1 .. fleet), due \in SUBSET Equipped : Step(bad, due)
    \/ \E j \in 1 .. taskDt, bad \in SUBSET (1 .. fleet), due \in SUBSET Equipped :
           StepThrows(j, bad, due)

Spec == Init /\ [][Next]_vars

-----------------------------------------------------------------------------
(* Type invariant: the variables hold what QRSim.m and State.m put there.  *)
TypeOK ==
    /\ task \in Tasks \cup {NoTask}
    /\ taskDt \in Nat
    /\ numRStreams \in Nat
    /\ rStreams \in Nat
    /\ t \in Nat
    /\ env \in [EnvObjs -> EnvObject]
    /\ fleet \in 0 .. MaxPlatforms
    /\ platforms \in [Slots -> Platform]
    /\ bootstrapped \in {0, 1}
    /\ failedInits \in 0 .. MaxFailedInits
    /\ built \in 0 .. 3 + MaxPlatforms

\* The latest init went through and left exactly the platforms of its task.
\* What this leaves out: after an init that threw the streams need not exist
\* (rStreams is that of an earlier init) and objects may be new and not reset;
\* after an init of a smaller task the platforms beyond it are stepped but no
\* longer reset.  In either a step may throw although the flag is raised.
InitWentThrough == task # NoTask /\ failedInits = 0
Coherent == InitWentThrough /\ fleet = Par[task].n

(* If the latest init went through and left the fleet of its task, then    *)
(* whatever sequence of resets, setX calls and steps came since, failed    *)
(* ones too, and whatever inits before it, a simulator whose flag says it  *)
(* is bootstrapped can be stepped: no Steppable.step hits its assertion    *)
(* "initialized %d times instead of 1" and no stream is missing.           *)
ReadyToStep == Coherent /\ bootstrapped = 1 => CanStep

\* The objects of the latest init, whether or not it got through.
EnvBuilt       == {o \in EnvObjs : EnvOrder[o] <= built}
PlatformsBuilt == {i \in Slots : i + 3 <= built}

Disjoint(x, y) == x.base + x.width <= y.base \/ y.base + y.width <= x.base
\* Streams of x are among those handed out and none is the task's own.
HandedOut(x) == Par[task].own <= x.base /\ x.base + x.width <= numRStreams

(* Of the objects the latest init constructed, however far it got and      *)
(* whatever was called since, no two share a random stream, none draws     *)
(* from the task's own, and their streams are among those the next         *)
(* resetSeed creates; once an init went through, these are the ones that   *)
(* exist.  It says nothing of the objects that init did not reach or has   *)
(* no use for, which keep the streams of an earlier layout (QRSim.m:285).  *)
StreamsOwned ==
    /\ InitWentThrough => rStreams = numRStreams
    /\ \A o \in EnvBuilt : HandedOut(env[o])
    /\ \A i \in PlatformsBuilt : HandedOut(platforms[i])
    /\ \A o, q \in EnvBuilt : o # q => Disjoint(env[o], env[q])
    /\ \A o \in EnvBuilt, i \in PlatformsBuilt : Disjoint(env[o], platforms[i])
    /\ \A i, j \in PlatformsBuilt : i # j => Disjoint(platforms[i], platforms[j])

(* manual.tex:130, "resetSeed() and reset() calls will lead to identical   *)
(* runs": when stepping is allowed, everything random in the state came    *)
(* from the streams created by the latest resetSeed.                       *)
SeededState ==
    Coherent /\ bootstrapped = 1 =>
        /\ \A o \in EnvObjs : env[o].seeded
        /\ \A i \in 1 .. fleet : platforms[i].seeded

\* A platform that was never placed has no state yet (Pelican.X and eX).
Bare == {i \in 1 .. fleet : platforms[i].boot["platform"] = 0}

(* What is left of calls that threw, for whoever reads the platforms next: *)
(* no call takes a platform away, or leaves one without a state that had   *)
(* one, unless an init built it anew.                                      *)
Left == INSTANCE Loading WITH Size <- [k \in Tasks |-> Par[k].n],
                              Dt <- [k \in Tasks |-> Par[k].dt], bare <- Bare
NothingRolledBack == Left!LoadSpec
=============================================================================
