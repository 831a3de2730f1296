# QRSim in TLA+

QRSim is a MATLAB simulator of small quadrotors: a task loads a scenario, a
controller steps the simulation and asks for a reward, and a TCP interface
offers the same to a C++ client. What makes it hard to get right is less the
physics than the bookkeeping around it: a dozen objects per platform which must
all be re-initialised exactly once before they may step, random streams handed
out by a running count, nested update rates, delay lines and cached readings,
calls that throw half way and leave what they did, coordinates that change zone
and hemisphere, and a wire protocol without sequence numbers. That bookkeeping is
what these modules specify, check and prove.

## The system

| component | state | operations | interacts with |
|---|---|---|---|
| simulator (`sim/QRSim.m`, `sim/core/State.m`) | the shared `State`: time, task, environment, platforms, streams; the flag `bootstrapped` | `init`, `resetSeed`, `reset`, `step`, `reward` | owns and steps everything else |
| steppables (`sim/core/Steppable.m`) | `dt`, guard counter `bootstrapped` | constructor, `step`; `reset` / `setState` of subclasses | asserts its counter is 1, calls `update` if `t` is a multiple of `dt` |
| platforms (`sim/platforms/`) | state vector, `valid`, sensors, turbulence | `setX`, `reset`, `update`, `isValid` | other platforms (collisions), the environment, the camera or plume sensor |
| environment (`sim/enviroment/`) | GPS satellites and noise, mean wind, area with persons or plumes | `reset`, `update` | read by platforms and tasks |
| sensors (`sim/platforms/sensors/`) | noise state, delay line, last output | `setState`, `reset`, `update` | stepped by the platform, the AHARS steps four of them |
| tasks (`scenarios/`, `sim/tasks/`) | parameters, controllers, received samples, reward | `init`, `reset`, `step`, `updateReward`, `reward` | place platforms, reset the area, read findings |
| controllers (`controllers/`) | integral and derivative terms | `computeU`, `reset` | tasks and the server |
| server (`tcp-linux/matlab`, `tcp-linux/java`) | the workspace (`state`, `numUAVs`), one data socket | accept loop, one branch per message | one simulator, one client at a time |
| client (`tcp-linux/src`) | socket, `initialized`, `numUAVs` | `connectTo`, `init`, `reset`, `setState`, `step*`, `disconnect`, `quit` | blocks on replies, 20 s each |
| conversions (`sim/core/functions/*.c`) | none | six functions between geodetic, UTM, Earth-centred and local coordinates, `polyval` | tasks (the origin), GPS receiver, satellite orbits |
| dynamics (`sim/platforms/pelicanODE.c`, `ruku2.m`) | none | derivative of the state vector, two-stage step | called by the platform's `update` |
| plume (`sim/enviroment/area/*Plume*`, `PlumeSensor.m`, `scenarios/plume/`) | sources, puffs, next emissions, references; the sensor's estimate and the platform's copy; samples | `reset`, `update`, `getSamples`, `setSamples`, `reward` | wind, platforms, the agent |
| graphics, gpml | none that feeds back | drawing, library | - |

What makes each correct, in short: no call of `step` ever meets an object that
was initialised zero or two times; no two noise sources share a stream; a seed
that was reset gives the same run; objects are updated when their `dt` says;
no two flying platforms are in collision after a tick; a find is paid once; a
reading is of this episode, of the moment its delay and rate promise, and of the
place the platform is at; coordinates denote the same place after any chain of
conversions; a call over the wire is executed at most once, in order, and returns.
The behaviours a test hardly reaches are listed as `hazards` in `PROJECT.json`,
each at its line, with the properties that watch it.

## Modules

| module | what it is |
|---|---|
| `Loading` | abstract specification: what calls of `init` and `reset` leave behind, thrown or not |
| `QRSim` | life cycle of one simulator object: every call, and every way it throws; implements `Loading` |
| `MCQRSim` | four small tasks for TLC |
| `QRSim_proofs` | theorems about `QRSim`, and that it implements `Loading`, for any set of tasks |
| `Stepping` | the inside of one `QRSim.step`: ticks, dueness, order, collisions |
| `Stepping_proofs` | theorems about `Stepping` for any platforms, sensors and `dt`s |
| `Ledger` | abstract specification: a person is found once, a finding settled once |
| `SearchRescue` | the search and rescue tasks: who is found, what is paid; implements `Ledger` |
| `SearchRescue_proofs` | theorems about `SearchRescue`, and that it implements `Ledger`, for any platforms and persons |
| `Controllers` | what the PID controllers remember, and how far a dropout spreads |
| `Controllers_proofs` | theorems about `Controllers` for any number of platforms |
| `Geodesy` | the six coordinate conversions over an abstract projection |
| `Series` | the unrolled series and the polynomial behind them, with references |
| `Conversions` | a session: columns of coordinates passed from one conversion to the next |
| `Conversions_proofs` | theorems about `Conversions` for any projection, origins and inputs |
| `MCConversions` | a projection, origins and inputs on every boundary for TLC |
| `Dynamics` | thrust and spin in `pelicanODE.c` and `ruku2.m` |
| `Receiver` | the GPS receiver: delay line and solution, over `Geodesy` |
| `Flight` | one platform in the air; composes `Dynamics` and `Receiver` |
| `Flight_proofs` | theorems about `Flight` for any delay, rates and limits |
| `MCFlight` | a flight across the edge of a zone for TLC |
| `Plume` | the puff dispersion tasks: area, sensors, samples, reward |
| `Plume_proofs` | theorems about `Plume` for any time steps, sources and platforms |
| `MCPlume` | how long puffs stay, for TLC |
| `Calls` | abstract specification: what the user of the client may rely on |
| `QRSimTCP` | client, connections, server; implements `Calls`, and its workspace `Loading` |
| `QRSimTCP_proofs` | theorems about `QRSimTCP`, and that it implements both, for any bounds |
| `MCQRSimTCP` | two tasks for TLC |

### Loading and QRSim

`init`, `resetSeed`, `reset`, `setX` and `step` are one action each when they
return, and one or more when they throw, because the source never rolls back:
`InitUnknownTask` (`feval` of the name fails after the stream count was cleared),
`InitBadParams` (the task's parameters are rejected, the new task is already in),
`InitBadObject` (a constructor throws after the first `b` objects), `InitBadReset`,
`ResetThrows`, `SetXThrows`, `StepThrows`. `init` may be called again on the same
object - the manual advises against it, the TCP server does it for every INIT
message - and then assigns into the existing structures, so `fleet` never
shrinks and old platforms stay behind a smaller new task.

A platform is its configuration (class and which parts are noisy), the counter of
each part, where the readable output of its camera or plume sensor comes from,
and the streams it owns as an interval. Counters are only compared with 1, so
2 stands for "2 or more". `AfterSetState` and `AfterReset` are the two halves of
`Pelican.setX`; who counts up (`boot + 1`) and who sets (`boot = 1`) differs from
class to class in the source and is kept (`PartReset`, `ExtraReset`). `seeded` is
a history variable: what is random here came from the streams of the latest
`resetSeed`. `failedInits` is history too, and so is `built`: how many objects the
latest `init` constructed, in its order, before it threw or went through.
`StreamsOwned` is about those objects in every state; the others, which that `init` did
not reach or has no use for, keep the streams of an earlier layout, and those do
overlap with the new ones. `Coherent` - the latest `init` went through and left the fleet
of its task - is what `ReadyToStep` and `SeededState` ask for: after a failed
`init` the streams need not exist and objects may be new and not reset, and
platforms beyond a smaller new task are stepped but no longer reset. State vectors,
forces and noise values are left out; whether a platform leaves its limits or
collides is a choice.

`Loading` is what all this leaves for a caller to see: the task that is in, its `dt`
(none after parameters that were rejected), how many platforms there are, and which
of them are `bare`: built by an `init` that threw, or beyond the task of the next one,
and never placed, so that reading their state throws. `QRSim` implements it object by
object (`Left`, with `Bare` computed from the counters); the server of `QRSimTCP` keeps
the same four values of the simulator in its workspace and implements it, too. The
two modules thereby agree on the simulator without one containing the other.

### Stepping

Time in grains, `DT` of them to a tick, so that a `dt` that is no multiple of
`DT` can be written down. `Accepted` is the constructor's test with its slip;
`IsDue` is `Steppable.step`; `Reached` is what `Pelican.update` gets to before it
finds the new state invalid. A position is one of a few cells in a row; two
platforms in the same cell are closer than the collision distance.

### Ledger and SearchRescue

`found` and `pjf` are the two fields of `BoxWithPersonsArea`; geometry is one
relation (`over`), chosen freely at every move. Steps that a camera cuts short
move the phase between the steps and the updates of the area; that is why
`NoFindLost` is not obvious. `paid`, `dropped` and `skipped` are history. `Ledger`
has one fate per person (hidden, unread, paid, lost) and what was credited;
`Fate` is the mapping.

### Controllers

A platform that drops out gets the estimated state NaN, and whoever flies it - a
task, or the server for the messages VEL and WP - still hands that to `computeU`.
The integrator is NaN from then on, the limits and `scaleControls` let a NaN
through, and the platform that is given it becomes invalid in turn. Numbers are
left out: an integrator is the set of the readings it has summed up, each with
its platform and whether it was taken since that platform was last placed
(`now`), before, or is NaN. One action is one tick: a STEP message is several,
with nothing in between. `served` tells the server from a script, which alone
can call `setX`: parsing a SETSTATE message always throws. `put` is history.

An `init` that throws does so in two places. `InitThrowsBuilding` has built some
platforms anew (`bare`: without a state, so that reading one throws), has replaced the
task, whose controllers are not made yet, and leaves the flag (`ready`) as it was or,
past `resetSeed`, down. `InitThrowsPlacing` threw in its reset, with some of the platforms
placed. In both the server keeps `velpid` and `wppid`, which it makes anew only after
`init` and all `getX` and `getEX` returned (QRSimTCPServer.m.in:66-81): what they remember
is then of platforms that are there no more, or were placed anew. With `m = N` the second
action also stands for an INIT whose `init` returned but which finds a platform it cannot
read, left bare by an earlier one; no tick gets past that platform, so the flag,
which is up there, makes no difference. `Init` is the state after the first `init` that
returned: those before it left the server no controllers. All tasks have `N` platforms;
what a smaller fleet leaves behind is in `QRSim` and `Loading`.

What holds is `DropoutContained`, in tasks that fly their platforms, because each
has a controller of its own; for the server there is only `SharedPoisonTraced`,
because one UAV that drops out takes all others down at the next VEL or WP step
until a RESET or an INIT returns. A reset that throws half way renews the controllers of
the platforms placed so far only, and of a mouse not at all, and an INIT that throws
renews none of the server's; the history `put` - placed since a reset or an init last
returned - is what the properties except for that.

### Geodesy, Series and Conversions

The files of `sim/core/functions` compute one projection, forwards and backwards,
four times over; around it they decide zones, letters, false northings, wraps of
the longitude, what lies on the far side, and the poles. `Geodesy` keeps the
decisions and makes the projection a constant: `Krueger`, from whole degrees to
grid numbers, and `Inverse`, with the one assumption that they invert each other
(`KruegerAssumption`, which also fixes the equator, the meridian and the pole).
Each of the six operators is one column of one C function. `PlaceOf` is what an
Earth-centred position is: latitude, turn of longitude, height.

`Conversions` is a caller with columns of coordinates. `place` remembers what they
denoted when they were given, `coords` is what the latest conversion returned, and
`astray` that a call was made where the code cannot be right:

- `llaToUtm` on the equator: `(y>0) ? y : y+FN` (llaToUtm.c:244) gives a southern
  northing and `getLetter` the northern letter 'N' (line 47), so the way back is
  off by the false northing; the same holds for `nedToEcef` with an origin there;
- `ecefToNed` on a point whose own zone or hemisphere is not the origin's: it takes
  the zone of the point (ecefToNed.c:205) and never looks at the origin's; the
  comparison in ecefToNed.m:22-24 is commented out. The tasks fly at longitude
  -0.21, 14.5 km from the edge of their zone.

Zone 61, which `(int)((lon/6)+31)` makes of longitude 180, is no such case: both ways
agree on it. `SameSheet` and the two disjuncts of `astray` are exactly the cases
TLC found; `PlacesSurvive` proves there is no other. The operators `Sheet`,
`TrueNed` and `Denotes` are the reference.

`Series` has the recurrence (two coefficients to a turn of the loop, another start
when their number is odd) and Horner's scheme on integers and pairs of integers
next to the sums they stand for. With `MAXPOW` 6 the odd start never runs in this build;
it is covered because the constant is what one would change for another accuracy. The derivative accumulators `yr0`, `yi0`, ... are
computed by the code and never used; they are left out.

### Dynamics, Receiver and Flight

`Dynamics` is the part of `pelicanODE.c` with branches: below `LOW_THROTTLE_LIMIT` the
thrust closes a part of what is left to its target; above, it moves by `Rate`
unless the target is nearer than that, and stops at the ceiling the battery sets;
an angular acceleration outward of `MAX_ANGVEL` is cut off. `abs` in line 153 is the
integer function: with `tau1*dt` = 0.94 N the difference counts as 0 up to 1 N,
so that a step may take more than the rate (`WithinAStep`; `pelicanODE.m:102` has no
such cut). `NextThrust` and `NextSpin` put the two stages of `ruku2` around it.

`Receiver` is the delay line: `SetStateGps` makes up `Delay` past positions from the
velocity, `ResetGps` solves the two oldest, `UpdateGps` shifts. A solution is the
position carried to Earth-centred coordinates and back (`Solve`, by `Geodesy`):
receiver and satellite noise are left out, so the least squares solution is exact.

`Flight` is `Pelican.setX` and `Pelican.update` over both. `setX` with 6 numbers zeroes the
angular rates, with 12 or 13 they are the caller's, up to the state limits
(`SpinRange`), which lie above `MAX_ANGVEL` in the configurations: `spun` remembers what the
latest one gave, and `SpinLimited` says how far the rate may be on either side from
there. A tick whose controls are out of their limits throws (`StepThrows`, Pelican.m:326)
after the time has advanced (QRSim.m:176), so that the receiver may miss the update that
was due. The receiver runs `Div` times
slower than the platform; `track` is a history of positions that starts with the
ones `setX` made up, `aligned` says that `setX` came at a time the receiver is due and
that no step has thrown since: with `setX` at any other time the first readings are
younger than the delay by that offset,
since the line is filled as if an update had just taken place, and a missed update makes
them older. `InZone` is the condition
under which the reported position is the position itself: on the near side of the
map of the origin's zone, and in the zone and the hemisphere of the origin. Forces,
attitude and the coupling of thrust and motion are left out: velocity and accelerations
are choices, and of the state limits those on the position and on one angular rate remain.

### Plume

`TaskPlume...PuffDispersion`, their area and the sensor. Time is in time steps of the
simulator; area, sensor and task each have a multiple. A concentration is known
by the puffs it is the sum of, by the wind they drifted with, and by when and in which
episode they were sampled. `ResetEnvironment` is the loop of `QRSim.reset` over the
environment in the order in which `createObjects` filled it (`Created`): the wind draws its
direction, the area asks for the wind as it is by then, so that `DriftsWithWind`
depends on that order (the slip `CreatedAreaFirst` has the area first).
`ResetArea` is `init` of the area as a whole: source positions, locations and
reference samples are draws of that reset, so `references` is the number
of the episode whose draws they are; of the simulation they come from only remains
that the list of puffs is emptied after it. `Leaves` is the age at which a puff of a source
is out of the area, known once the wind is. `Tick` is one step: the area first, then
every platform's sensor, then the cached value that `getPlumeSensorOutput` hands out.
`reset` clears neither that value, nor the sensor's estimate, nor `receivedSamples`;
`ReadingIsRecent` and `ScoredAtLocations` say from when on that no longer matters.
`ListIsPlume` needs puffs that stay at least one time step of the area
(`PlumeAssumption`): a puff emitted and gone between two updates is in the list
until the next one.

### Calls and QRSimTCP

`Calls` has one call at a time, executed at most once and in order, and a call
that returned true was executed. `QRSimTCP` has queues of requests and replies
per connection, a client that may end, reconnect or give up after 20 s, and a
server loop whose branches are the `Serve...` actions: `init` that throws is
answered once where the client waits for two messages, a `step` that throws is
answered twice, `setState` always fails, and a lost client either drops the
connection or leaves the server spinning. `sim` is the workspace: whether `state` and
the two controllers are defined (`loaded`, `flies`), the server's own `numUAVs`, and
the simulator as `Loading` has it. An `init` that throws leaves a part of the new
task in (`HalfLoads`); one that returns after it may still be answered with an error,
for good, since the states it sends back include those of platforms an earlier
one left bare. Ids, `clean`, `executed`, `advanced`, `ret` and `paramsFrom` are history; no
guard reads them. `paramsFrom` is the connection on which the client was last told the
number of UAVs by an `init` that returned true with no stale answer about; a call of `init`
clears it. `ParamsAgree` is about the time in between: an `init` that fails overwrites
`numUAVs` with whatever the caller's variable holds (QRSimTCPClient.cpp:97) and leaves the
client `initialized`, which the model does too and no property excludes. `InOrderAtMostOnce` is the
refinement: `Calls!CallsSpec` under `issued <- call.id`,
`pending <- cpc \in Receiving`, `told <- ret.ok /\ ret.clean`. `NothingRolledBack` is the
other: `Loading!LoadSpec` over the fields of `sim`.

## Runs

| run | expected | what it shows |
|---|---|---|
| `lifecycle` | pass | `TypeOK`, `ReadyToStep`, `StreamsOwned`, `SeededState`, refinement of `Loading` over three tasks of different shape |
| `camera` | violation of `ReadyToStep` | a camera platform cannot be stepped after its second reset |
| `search_seed` | violation of `SeededState` | initial positions no seed controls |
| `tick` | pass | `TypeOK`, `UpdatedOnTime`, `NoValidPairCollides` |
| `search` | pass | `TypeOK`, `EveryFindAccounted`, `NoFindLost`, refinement of `Ledger` |
| `controllers` | pass | `TypeOK`, `MemoryOfThisFlight`, `DropoutContained`, `SharedPoisonTraced` |
| `conversions` | pass | `TypeOK`, `SamePlace`, `Chainable`, `SeriesSummed` |
| `flight` | pass | `TypeOK`, `SpinLimited`, `ReadsDelayed`, `TrueInZone`, and of steps `NeverPastGoal`, `RateLimited` |
| `plume_task` | pass | `TypeOK`, `ListIsPlume`, `DriftsWithWind`, `ReadingIsRecent`, `ScoredAtLocations` |
| `tcp_calls` | pass | `TypeOK`, `CleanPipe`, `InitializedMeansLoaded`, `ParamsAgree`, refinements of `Calls` and `Loading`, `CallsReturn` |
| `tcp_stale` | violation of `StepTrueMeansStepped` | a stale reply taken for the answer |
| `tcp_dt` | violation of `StepsAsAsked` | a task whose `dt` is two ticks simulates twice the time the client asked for |

Four runs end in a counterexample on purpose: each states what a comment or the
manual says and shows that the code does something else; `findings` in
`PROJECT.json` quotes both. Four more disagreements are in the models without a run
of their own: a `dt` below `DT`, which is never a multiple of it, passes the test of the
constructor (`Steppable.m:56` against line 31; `Stepping`, `Accepted`; `UpdatedOnTime` says
that such objects are all that misses updates), a plume reading that survives reset
and `setX` (`PelicanWithPlumeSensor.m:87-91`, `doc/manual.tex:70`; `Plume`, `ReadingIsRecent`
says how long), one person paid to two platforms at once (`BoxWithPersonsArea.m:215`,
`main_searchrescue.m:94-95`; `SearchRescue`, `JustFound`), and an `init` that returns
false although the simulator did initialise (`QRSimTCPClient.h:150`; `QRSimTCP`, the
last case of `ServeInitFails`). For each of the four violated properties a theorem
says how far it does hold (see Proofs).

Operators introduced by "A plausible slip" are not part of the models: each is a
wrong version of the definition after it, with which the property named in
`mutants` no longer holds. They show that no property holds by construction.

### Bounds

- `QRSim`: three tasks (one quiet platform; two noisy ones with GPS, wind and an
  area; a plume task) are enough for growing, shrinking and equal fleets and for
  both kinds of counter; `MaxT = 2` lets a task be stepped and be refused;
  `MaxFailedInits = 1` bounds consecutive failures, any number may occur in a run.
  The proofs remove all three bounds. 36,725 distinct states.
- `Stepping`: two platforms, two sensors, `DT = 4` grains and `dt`s of 3 (accepted although
  below `DT`), 4, 6 (refused), 8 and 12, which do not nest; `MaxT = 24`, the least
  common multiple of the last three, so that every phase occurs; three cells, the last
  out of the limits.
- `SearchRescue`: two platforms and up to two persons show a person shared and a
  person apart; `TaskDt = AreaDt = 2` ticks, so that a step can be cut in the middle.
- `Controllers`: three platforms, so that the mouse can have lost one cat or both
  and the server's loop has a first and a last UAV; one shared controller, as the
  two of the server have nothing to do with each other. Nothing is counted, so
  there is no other bound. 107,962 distinct states.
- `Conversions`: `MaxLam = 9`, three degrees more than half a zone, so that the sheet
  of an origin reaches into the zones beside it; two columns to a call; origins in
  both hemispheres, on the equator, near a zone edge, on both sides of the date
  line and near a pole; inputs on every boundary the code tests, some out of range;
  one to five coefficients, so that both starts of the recurrence run. With whole
  degrees and own zones, the wraps of `FromMeridian` never come into play (a point is
  within three degrees of its own meridian): they are kept as the code has them.
- `Flight`: the edge of the zone is in the middle of the three positions; `Delay = 1`
  and `Div = 2` give a line that is shorter than what it looks back over; three
  commands: below the limit, with the target below the ceiling and above it;
  `Newton = 3` over `Rate = 2`, as 1 N is over 0.94 N. `setX` may give a rate of 2, beyond
  `MaxSpin = 0` and what one step adds to it (1), so that the cut-off meets rates within,
  just above and well above its limit; nothing exceeds `SpinRange = 2` then, as
  nothing but a caller takes the rate that far. 98,453 distinct states.
- `Plume`: two platforms, one source, two episodes of six steps; the time steps 3, 2
  and 3 nest in neither order; `MaxGap = 2` so that emissions fall in every phase.
  1,571,990 distinct states.
- `QRSimTCP`: two connections (one waits while the other is served), three calls
  (init, a call that goes wrong, the one that meets its leftovers), two server
  processes, `Waiting = 1` for the code's 30 attempts, which only delays the exit.
  330,325 distinct states.

### Fairness

Only `QRSimTCP` states any: a blocked `recv` ends, because data is there, the
peer is gone, or `SO_RCVTIMEO` has run out. Nothing is assumed of the server,
of the network or of the user. The other runs check safety only. Deadlock is
checked in all of them.

## Proofs

`QRSim_proofs` proves, for every set of tasks, every number of platforms and
without bound on time or failures, from `ParAssumption` alone:

- `TypeCorrect`: `Spec => []TypeOK`.
- `StreamsNeverShared`: `Spec => []StreamsOwned`. Disjointness alone is not
  inductive: it does not say where the next object would go. The strengthening
  `Construction` says that each of the first `built` objects of an `init`, whether it threw
  or not, stands at the stream count its constructor found (`EnvBase`,
  `PlatformBase`), which every later call preserves, and that the count has passed the
  last of them; disjointness is then arithmetic on those bases (`EnvLayout`,
  `PlatformLayout`, `AtDisjoint`, `MulMono`). `Layout` adds for an `init` that went through
  that these are all objects of its task and that the streams exist.
- `AlwaysReadyToStep`: `Spec => []ReadyToStep` if no task has a camera (with one
  it is false, run `camera`). Strengthening `Counters`: a failed reset leaves the
  flag of the reset before raised, so the counters have to be 1 whenever an init
  has gone through, whether the flag is up or not.
- `AlwaysSeeded`: `Spec => []SeededState` if a task that draws its positions owns
  a stream (with the search and rescue tasks it is false, run `search_seed`).
  Strengthening `Seeded`: the same over the platforms of the task only, whatever
  others an earlier task left behind.
- `LoadingImplemented`: `Spec => NothingRolledBack`, a step simulation with one case for
  every action. A platform is bare if its own counter is 0 (`Bare`); `BareIs`,
  `BuiltBare` and `PlacedBare` say what building and placing do to that set.

`Stepping_proofs` proves, from `SteppingAssumption` and for every `dt` the
constructors accept:

- `TypeCorrect`: `Spec => []TypeOK`. Strengthening `InTime`: a step that is
  running ends by the bound it was admitted under, and past `Tick` a tick has
  gone by.
- `ValidPairsApart`: `Spec => []NoValidPairCollides`. The property speaks of
  whole ticks; `MovedApart` says it of the platforms stepped so far. The latest
  to move has looked at all others, and those that moved before it stay put.
- `ClocksOnTime`: `Spec => []UpdatedOnTime`. Strengthening `Clocks`: every object
  is current at the time it has had the chance to see (`EnvSeen`, `Seen`), which
  is the tick before until its turn comes. A platform that dropped out keeps its
  own clock, or `setX` could not make it on time again. What is left is
  arithmetic: a tick jumps no multiple of a `dt` (`NextMultiple`, `StillOnTime`),
  and a part that is due is due in all it is nested in (`DueTogether`). The least
  `dt` of the sensors exists by well-foundedness (`LeastNatural`). `AcceptedIs` says
  what the constructor's test lets through: the multiples of `DT`, and every `dt`
  below it.

`SearchRescue_proofs` proves, for any platforms, persons and `dt`s its assumption
admits:

- `TypeCorrect`: `Spec => []TypeOK`.
- `FindsAccounted`: `Spec => []EveryFindAccounted`, by accounting: what an update
  finds is new (`JustFoundIsNew`) and paying moves persons between two of three
  disjoint sets.
- `OnlySkippersLose`: `Spec => []NoFindLost`. Strengthening `ReadInTime`: with a
  find unread and no reward skipped, the running step ends before the area is
  updated next.
- `LedgerKept`: `Spec => SettledOnce`, the refinement of `Ledger`. The account is what makes
  it work: an update may mark only the hidden (`UpdateFinds`), and a reward pays
  exactly the unread (`RewardPays`).

`Controllers_proofs` proves, for any number of platforms and shared controllers:
`TypeCorrect` (`Spec => []TypeOK`), `MemoryForgets` (`[]MemoryOfThisFlight`),
`DropoutsStayHome` (`[]DropoutContained`) and `SharedPoisonHasSource`
(`[]SharedPoisonTraced`). Each property is inductive next to the types. `Groups`
sorts the actions by what they do to the memories (all new; some platforms placed, or
built and not placed; none placed), calls that throw among them, so that each argument has
three cases.

`Conversions_proofs` proves, from `KruegerAssumption` and `ConversionsAssumption`, for
every projection, any origins and any inputs: `TypeCorrect` (`Spec => []TypeOK`) and
`PlacesSurvive` (`Spec => []SamePlace`). The place alone is not inductive: two
coordinates may denote a place and only one of them be fit for the next conversion.
`Faithful` adds what each system's coordinates are in range of (`Fit`). The argument is
one lemma per conversion (`UtmDenotes`, ...), each about one column, over lemmas on
the far side, on wraps modulo 360, and on projecting and unprojecting a sheet;
`ColumnsConverted` lifts it to all columns.

`ResultsChain` (`[]Chainable`) is about ranges, and must hold of coordinates that have gone
astray, too, of which `Faithful` says nothing: `Ranges` is inductive next to the types,
one lemma per conversion again.

`SumsRight` (`[]SeriesSummed`) is about recursive functions, for any number of terms.
Such a function has to be shown to exist first: `Recursion` does so, from `Induction`,
which is itself proved from the least element of a set of numbers and not taken from the
library, whose schema has an operator parameter. `SineIs`, `SumIs`, `TurnsAre` and others
then say that each is what it is defined as. `ClenshawSums` carries a loop invariant
through the recurrence, two coefficients to a turn, from either start: one turn leaves
the sum alone, as the two terms it takes off the series are in the two factors
(`OneTurn`). `HornerSums` does the same for the polynomial.

`Flight_proofs` proves, from `DynamicsAssumption`, `KruegerAssumption`,
`ReceiverAssumption` and `FlightAssumption`: `TypeCorrect`, `SpinStaysLimited`
(`[]SpinLimited`), `ReportsAreDelayed` (`[]ReadsDelayed`), and of every step
`ThrustNeverOvershoots` (`NeverPastGoal`) and `ThrustRateBounded` (`RateLimited`).
Strengthening `LineIsTrack`: the line holds the track at the times the receiver was
due, `phase` ago, `phase + Div` ago, and so on. A rate beyond the limit is not taken
further, and one within it not beyond what a step adds, for every bound that is at least
the limit (`SpinStep`): applied to the limit and to what `setX` gave, this is `SpinLimited`. The
two step properties follow
from arithmetic on the two stages, by the branches each may take. `ReportsAreTrue`
(`[]TrueInZone`) adds to `ReadsDelayed` that `ecefToNed` takes back what `nedToEcef` did
with a position in `InZone`; `ReceiverAssumption` asks no more of the origin than that it
is a UTM position.

`Plume_proofs` proves, from `PlumeAssumption`: `TypeCorrect`, `PuffsAreThePlume`
(`[]ListIsPlume`), `WindBeforePuffs` (`[]DriftsWithWind`), `ReadingsAreRecent`
(`[]ReadingIsRecent`) and `ScoresAreOfThisEpisode` (`[]ScoredAtLocations`).
That the wind comes before the area in `Created` is all `WindFirst` needs to compute what the
loop of a reset leaves. Strengthenings: `Emissions` (everything emitted was emitted before the latest update
of the area, and no next emission is), `Readings` (a reading taken when a sensor was
due had the list of that moment) and `Episodes` (samples and references are of this
episode or an earlier one, and of this one once the agent has answered).

`QRSimTCP_proofs` proves, from `TCPAssumption`, for any tasks and any number of calls,
connections and server processes: `TypeCorrect`, `CleanPipeHolds` (`[]CleanPipe`),
`InitializedMeansLoadedHolds`, `ParamsAgreeHolds` and the refinement,
`CallsImplemented` (`Spec => InOrderAtMostOnce`). None of the properties is inductive.
`Inductive` (`Spec => []IInv`) adds four layers to the types:

- `ClientShape`, `Loaded`, `DownEmpty`: what the client waits for is of the call it
  makes, its socket is the latest connection, parameters travel only once there is a
  simulator, and nothing is queued for a process that is gone.
- `BacklogOrdered`, `RequestsOrdered`, `RequestsNew`: requests lie in the order of their
  issue over all connections, and what the server can still read is younger than what it
  executed. This is why a request left behind on an old connection cannot overtake.
- `Pipe`: a clean connection of a living client holds at most the request of the current
  call, or no more replies to it than the client still reads; the latest execution is
  then that of this call, and parameters on the way are those of the simulator.
- `Agreed`: from an init that was told of itself to the next call of one, no `init` is among
  the requests the server can still read, whatever else an earlier connection left, and
  the server's number of UAVs is the one the client was told.

`ServeCases` brings the branches of the server loop under one form (`Reply`), so that
each layer has one case for all of them. The refinement is a step simulation: a request
taken is `Execute` by `RequestsNew`, a true answer is `Return` by `Pipe`.
`WorkspaceImplemented` (`Spec => NothingRolledBack`) is the other refinement; what the types say of
the workspace (`Sims`: only platforms there are can be bare) suffices for it.

Two theorems say how far the two promises reach that the code breaks.
`CleanStepsAreTrue`: a step that returned true was simulated, on every connection where no
answer came late or twice. `AdvancedBefore` and `StatesTrue` (a STATE message on its way
to the client that waits for a step is of that step) carry it.
`UnitStepsAsAsked`: with tasks of one tick (those of `sim/tasks`; all of `scenarios` have fifty) it was
simulated for the time asked, or for none
where an `init` had left the task without its `dt` (`AllOrNothing`).

Each is laid out the same way: initial states, one step per action, a lemma per
conjunct the action can disturb, and PTL at the end.

Model-checked only: `CallsReturn`, liveness under fairness, which the prover does not
do. Every other property of a passing run is proved. Of the four
violated ones, three are proved under the condition that excludes the cause:
`ReadyToStep` without cameras, `SeededState` for tasks that draw from their own streams,
`StepTrueMeansStepped` on clean connections; of `StepsAsAsked` only what
`UnitStepsAsAsked` says.

Five hazards have no property. Three are outside the models: rounding of long sums of
floating point steps (`Steppable.m:77`; time is exact in the models), a message split over
two `recv`s (`QRSimTCPClient.cpp:380`; a message is one element of a queue), and the factors
the observation model of the camera caches (`GPwrapper.m:105`; see the plan). Two are in the
models and go wrong there as in the code: the number of UAVs after an `init` that failed
(`QRSimTCPClient.cpp:97`), and one person paid to two platforms in one reward
(`BoxWithPersonsArea.m:215`), which `EveryFindAccounted` does not tell from one payment.
Three properties except the very case of a hazard and so say how far it reaches:
`ScoredAtLocations` rewards asked before new samples, `ReadsDelayed` steps that throw while
the receiver is due, `StreamsOwned` platforms the latest `init` has no use for.

## Not modelled

- Continuous mathematics: forces, rotations and attitude in `pelicanODE.c`, the wind and
  turbulence filters, noise values, the projection itself (the values of `Krueger`,
  Newton's iterations, the accuracy of the series), the fit of the orbits and the
  search in their file. Rounding: an angle is a whole degree, so the sign of a
  rounding error on the date line or at a pole decides nothing here.
- Graphics; the vendored gpml; the checks of argument counts and dimensions in the
  C functions, whose callers all pass three rows.
- Where puffs are, and the areas and tasks of plumes without puffs
  (`GaussianPlumeArea`, `GaussianDispersionPlumeArea`), whose state is data drawn once.
- The Gaussian processes of the camera's observation model (`GPObsModel.m`,
  `GPwrapper.m`), and the terminal reward of the cats and mouse task.
- The control laws, set points and derivative terms of the controllers, and
  `AnglesHeightPID`, which no task uses. `TaskPlumeMultiSourceGaussianDispersion`
  gives an invalid platform a velocity of two rows (line 152), so that there
  every step throws once one has dropped out; the other tasks give it three.
- Rounding of `t` and of `rem(t, dt)`: time is exact here.
- In `QRSimTCP`: a message split over two `recv`s, SIGPIPE, calls before the
  first `connectTo`, the three command types of `step` (they share everything
  but the controller), a RESET whose value is false, a client whose `dt` is no
  multiple of the time step (refused locally).
- In `SearchRescue`: where persons are and what the terrain looks like.

## Plan

1. Done: `QRSim`, `Stepping`, `Calls` / `QRSimTCP`, `SearchRescue`, `Controllers`,
   `Geodesy` / `Series` / `Conversions`, `Dynamics` / `Receiver` / `Flight`, `Plume`;
   proofs about all of them; the abstract specifications `Loading` and `Ledger`.
2. `ObsModel`: sample, likelihood and update of the two Gaussian processes
   (`GPObsModel.m`, `GPwrapper.m`); the cached factors must belong to the frame.
3. The cats and mouse task: its terminal reward, placement that gives up.
