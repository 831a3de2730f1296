------------------------------- MODULE Plume -------------------------------
(***************************************************************************)
(* The puff dispersion tasks: the area that emits and drops puffs in its   *)
(* own time step (GaussianPuffDispersionPlumeArea.m), the sensor that      *)
(* samples it in another (PlumeSensor.m), the platform that hands out the  *)
(* sensor's latest value (PelicanWithPlumeSensor.m), and the task that     *)
(* pays for the samples an agent returns.                                  *)
(*                                                                         *)
(* Time is counted in time steps of the simulator; concentrations are      *)
(* known by the puffs they are the sum of.                                 *)
(***************************************************************************)
EXTENDS Naturals

CONSTANTS
    Platforms,   \* the platforms
    Sources,     \* the sources
    Life,        \* how long a puff of a source stays in the area
    AreaDt,      \* dt of the area
    SensorDt,    \* dt of the plume sensor
    TaskDt,      \* dt of the task
    None,        \* no samples, no score
    MaxGap,      \* bound: longest time between emissions
    MaxT,        \* bound: length of an episode
    MaxEpisodes  \* bound: resets

ASSUME PlumeAssumption ==
    /\ {AreaDt, SensorDt, TaskDt} \subseteq Nat \ {0}
    /\ Life \in [Sources -> Nat] /\ \A s \in Sources : Life[s] >= AreaDt
    /\ {MaxGap, MaxT, MaxEpisodes} \subseteq Nat \ {0}

VARIABLES
    t,        \* simState.t
    episode,  \* number of the latest reset
    wind,     \* the episode the direction of the wind was drawn in, 0 for none
    area,     \* puffs, next emissions; the draws its parts were made from
    sensor,   \* estimatedConc of each platform's sensor
    output,   \* plumeSensorOutput of each platform
    valid,    \* Pelican.valid
    received, \* receivedSamples of the task: the episode they answer
    score,    \* history: the latest reward
    emitted,  \* history: all puffs of this episode
    placed,   \* history: when each platform was last placed
    answered  \* history: has the agent returned samples since the reset?

vars == <<t, episode, wind, area, sensor, output, valid, received, score,
          emitted, placed, answered>>

Puff    == [source : Sources, time : Nat]
Reading == [episode : Nat, vmean : Nat, at : Nat, puffs : SUBSET Puff]
NoReading == [episode |-> 0, vmean |-> 0, at |-> 0, puffs |-> {}]

-----------------------------------------------------------------------------
\* Plausible slips: the puffs of the reference simulation are not emptied; the
\* reference samples are only computed once.
ResetAreaKeeping(e, w, next) ==
    [episode |-> e, vmean |-> w, references |-> e,
     puffs |-> {[source |-> s, time |-> 1] : s \in Sources}, next |-> next]
ResetAreaLazy(e, w, next) == [episode |-> e, vmean |-> w, references |-> 1,
                              puffs |-> {}, next |-> next]

\* init of the area, in the wind w that it asks for: locations, reference samples
\* and puffs all follow vmean.  computeReferenceSamples leaves the puffs of a long
\* simulation; init empties the list and draws the first emissions anew.
ResetArea(e, w, next) == [episode |-> e, vmean |-> w, references |-> e,
                          puffs |-> {}, next |-> next]

\* A plausible slip: the area is created before the wind.
CreatedAreaFirst == <<"gpsspacesegment", "area", "wind">>

\* The order in which createObjects fills the environment.
Created == <<"gpsspacesegment", "wind", "area">>

\* The wind draws its direction; the area asks the wind as it is by then.
ResetObject(env, name, e, next) ==
    CASE name = "wind" -> [env EXCEPT !.wind = e]
      [] name = "area" -> [env EXCEPT !.area = ResetArea(e, env.wind, next)]
      [] OTHER -> env

\* The loop over the fields of the environment, in the order they came to be in.
ResetEnvironment(env, e, next) ==
    LET Turn(k, so_far) == ResetObject(so_far, Created[k], e, next)
    IN Turn(3, Turn(2, Turn(1, env)))

FirstEmissions == [Sources -> 1 .. MaxGap]

\* A first init has returned: its objects are new, and have been reset.
Init == /\ t = 0 /\ episode = 1
        /\ \E next \in FirstEmissions :
              LET env == ResetEnvironment([wind |-> 0, area |-> None], 1, next)
              IN wind = env.wind /\ area = env.area
        /\ sensor = [i \in Platforms |-> NoReading]
        /\ output = [i \in Platforms |-> NoReading]
        /\ valid = [i \in Platforms |-> TRUE]
        /\ received = None /\ score = None
        /\ emitted = {} /\ answered = FALSE
        /\ placed = [i \in Platforms |-> 0]

AtRest == t % TaskDt = 0

\* QRSim.reset: the sensor and its cached value, and the samples of the agent,
\* stay what they were.
Reset == /\ AtRest /\ episode < MaxEpisodes
         /\ t' = 0 /\ episode' = episode + 1
         /\ \E next \in FirstEmissions :
               LET env == ResetEnvironment([wind |-> wind, area |-> area], episode', next)
               IN wind' = env.wind /\ area' = env.area
         /\ valid' = [i \in Platforms |-> TRUE]
         /\ emitted' = {} /\ answered' = FALSE
         /\ placed' = [i \in Platforms |-> 0]
         /\ UNCHANGED <<sensor, output, received, score>>

\* setX on one platform; its sensor is reset and keeps its value.
SetX(i) == /\ AtRest
           /\ valid' = [valid EXCEPT ![i] = TRUE]
           /\ placed' = [placed EXCEPT ![i] = t]
           /\ UNCHANGED <<t, episode, wind, area, sensor, output, received, score,
                          emitted, answered>>

-----------------------------------------------------------------------------
\* propagateToTime: puffs that have left are removed, then every source emits
\* what is due before the time now, and draws the time of its next puff.
Leaves(q, now) == now - q.time > Life[q.source]

Due(next, now) == {q \in [source : Sources, time : 0 .. now] :
                      q.time >= next[q.source] /\ q.time < now}

Emits(new, next, now) ==
    \A s \in Sources :
        next[s] < now => [source |-> s, time |-> next[s]] \in new

\* A plausible slip: the time of the next puff is not drawn.
PropagatedForever(a, now, new, next) ==
    [a EXCEPT !.puffs = {q \in a.puffs : ~Leaves(q, now)} \cup new]

Propagated(a, now, new, next) ==
    [a EXCEPT !.puffs = {q \in a.puffs : ~Leaves(q, now)} \cup new,
              !.next = [s \in Sources |-> IF @[s] < now THEN next[s] ELSE @[s]]]

UpdateArea(now) ==
    \E new \in SUBSET Due(area.next, now), next \in [Sources -> now .. now + MaxGap] :
        /\ Emits(new, area.next, now)
        /\ area' = Propagated(area, now, new, next)
        /\ emitted' = emitted \cup new

\* getSamples: at the current time, of the puffs in the list.
Sample(a, now) == [episode |-> a.episode, vmean |-> a.vmean, at |-> now, puffs |-> a.puffs]

\* A plausible slip: the sensor is stepped before the area.
MeasuredFirst(i, now) == IF now % SensorDt = 0 THEN Sample(area, now) ELSE sensor[i]

\* PlumeSensor.update, when it is due.
Measured(i, now) == IF now % SensorDt = 0 THEN Sample(area', now) ELSE sensor[i]

\* One time step: the area first, then the platforms.  A platform that stays
\* valid steps its sensor and caches its value.
Tick ==
    /\ t < MaxT
    /\ t' = t + 1
    /\ IF t' % AreaDt = 0 THEN UpdateArea(t') ELSE UNCHANGED <<area, emitted>>
    /\ \E up \in SUBSET {i \in Platforms : valid[i]} :
          /\ valid' = [i \in Platforms |-> i \in up]
          /\ sensor' = [i \in Platforms |-> IF i \in up THEN Measured(i, t')
                                            ELSE sensor[i]]
          /\ output' = [i \in Platforms |-> IF i \in up THEN sensor'[i] ELSE output[i]]
    /\ UNCHANGED <<episode, wind, received, score, placed, answered>>

\* The agent asks for the locations and returns samples for them.
SetSamples == /\ AtRest
              /\ received' = area.episode /\ answered' = TRUE
              /\ UNCHANGED <<t, episode, wind, area, sensor, output, valid, score,
                             emitted, placed>>

\* reward: there must be samples, be they old; a penalty if a platform is down.
Reward == /\ AtRest /\ received # None
          /\ score' = [of |-> received, against |-> area.references,
                       penalty |-> \E i \in Platforms : ~valid[i],
                       answered |-> answered]
          /\ UNCHANGED <<t, episode, wind, area, sensor, output, valid, received,
                         emitted, placed, answered>>

Next == Reset \/ (\E i \in Platforms : SetX(i)) \/ Tick \/ SetSamples \/ Reward

Spec == Init /\ [][Next]_vars

-----------------------------------------------------------------------------
\* The plume there really is at a time: what has been emitted and not left.
Truth(now) == {q \in emitted : q.time < now /\ ~Leaves(q, now)}

LatestUpdate(now, dt) == now - (now % dt)

\* Types of the state; the next emission of a source is never overdue when the
\* area has been updated.
TypeOK ==
    /\ t \in 0 .. MaxT /\ episode \in 1 .. MaxEpisodes /\ wind \in 1 .. MaxEpisodes
    /\ area \in [episode : 1 .. MaxEpisodes, vmean : 0 .. MaxEpisodes,
                 references : 1 .. MaxEpisodes, puffs : SUBSET Puff, next : [Sources -> Nat]]
    /\ sensor \in [Platforms -> Reading] /\ output \in [Platforms -> Reading]
    /\ valid \in [Platforms -> BOOLEAN] /\ placed \in [Platforms -> Nat]
    /\ received \in 1 .. MaxEpisodes \cup {None}
    /\ answered \in BOOLEAN
    /\ emitted \subseteq Puff
    /\ \A s \in Sources : area.next[s] >= LatestUpdate(t, AreaDt)

\* The list of puffs is the plume as it was when the area was last due: no puff
\* of the reference simulation or of an earlier episode, none forgotten, none
\* kept that has left.
ListIsPlume == area.puffs = Truth(LatestUpdate(t, AreaDt))

\* The plume drifts with the wind the helicopters fly in: the one its locations,
\* references and puffs follow is that of the latest draw, also after resets, and
\* so it is for what a platform hands out, once its sensor has been due since the
\* platform was placed.
DriftsWithWind ==
    /\ area.vmean = wind
    /\ \A i \in Platforms :
          (valid[i] /\ LatestUpdate(t, SensorDt) > placed[i]) => output[i].vmean = wind

\* Once a platform's sensor has been due since the platform was placed, what the
\* platform hands out is of this episode, was taken when the sensor was last due,
\* and lacks no puff that was emitted before the area was due before that - though
\* reset clears neither the sensor nor the cached value.
ReadingIsRecent ==
    \A i \in Platforms :
        LET due == LatestUpdate(t, SensorDt) IN
        (valid[i] /\ due > placed[i]) =>
            /\ output[i].episode = episode /\ output[i].at = due
            /\ output[i].puffs \subseteq {q \in emitted : q.time < due}
            /\ {q \in emitted : q.time < LatestUpdate(due, AreaDt) /\ ~Leaves(q, due)}
                  \subseteq output[i].puffs

\* A score compares samples and references for the same locations - if the
\* agent has returned samples since the reset.  (If not, those of an earlier
\* episode are taken: reset does not clear them.)
ScoredAtLocations ==
    (score # None /\ score.answered) => score.penalty \/ score.of = score.against
=============================================================================
