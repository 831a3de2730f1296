---------------------------- MODULE Plume_proofs ----------------------------
(***************************************************************************)
(* Theorems about Plume, for any number of platforms and sources, any time *)
(* steps of the area, the sensor and the task, and puffs of any age not    *)
(* below the time step of the area.                                        *)
(***************************************************************************)
EXTENDS Plume, TLAPS

LEMMA Constants ==
    /\ AreaDt \in Nat \ {0} /\ SensorDt \in Nat \ {0} /\ TaskDt \in Nat \ {0}
    /\ Life \in [Sources -> Nat] /\ \A s \in Sources : Life[s] >= AreaDt
    /\ MaxGap \in Nat \ {0} /\ MaxT \in Nat \ {0} /\ MaxEpisodes \in Nat \ {0}
  BY PlumeAssumption

-----------------------------------------------------------------------------
(* Arithmetic: the latest multiple of a time step.                         *)

LEMMA DivMod ==
    ASSUME NEW d \in Nat \ {0}, NEW a \in Nat
    PROVE  a \div d \in Nat /\ a % d \in 0 .. d - 1 /\ a = d * (a \div d) + (a % d)
  OBVIOUS

LEMMA ModUnique ==
    ASSUME NEW d \in Nat \ {0}, NEW a \in Nat, NEW q \in Nat, NEW r \in 0 .. d - 1,
           a = d * q + r
    PROVE  a % d = r
  OBVIOUS

\* From one time step to the next an object is due, or its latest update is the
\* same.
LEMMA Clock ==
    ASSUME NEW d \in Nat \ {0}, NEW n \in Nat
    PROVE  /\ LatestUpdate(0, d) = 0
           /\ LatestUpdate(n, d) \in 0 .. n
           /\ (n + 1) % d = 0 => /\ LatestUpdate(n + 1, d) = n + 1
                                 /\ LatestUpdate(n, d) = n + 1 - d
           /\ (n + 1) % d # 0 => LatestUpdate(n + 1, d) = LatestUpdate(n, d)
<1> DEFINE q == n \div d
           r == n % d
<1>1. q \in Nat /\ r \in 0 .. d - 1 /\ n = d * q + r
  BY DivMod
<1>2. 0 % d = 0
  <2>1. 0 = d * 0 + 0 /\ 0 \in 0 .. d - 1 /\ 0 \in Nat
    OBVIOUS
  <2>2. QED
    BY ONLY <2>1, ModUnique, d \in Nat \ {0}
<1>3. LatestUpdate(n, d) \in 0 .. n
  <2>1. d * q \in Nat
    BY <1>1, Z3
  <2>2. QED
    BY <1>1, <2>1 DEF LatestUpdate
<1>4. CASE r = d - 1
  <2>1. /\ n + 1 = d * (q + 1) + 0 /\ n + 1 \in Nat /\ q + 1 \in Nat
        /\ 0 \in 0 .. d - 1
    BY <1>1, <1>4, Z3
  <2>2. (n + 1) % d = 0
    BY ONLY <2>1, ModUnique, d \in Nat \ {0}
  <2>3. QED
    BY <1>1, <1>2, <1>3, <1>4, <2>2 DEF LatestUpdate
<1>5. CASE r # d - 1
  <2>1. n + 1 = d * q + (r + 1) /\ n + 1 \in Nat /\ r + 1 \in 0 .. d - 1
    BY <1>1, <1>5
  <2>2. (n + 1) % d = r + 1
    BY ONLY <1>1, <2>1, ModUnique, d \in Nat \ {0}
  <2>3. QED
    BY <1>1, <1>2, <1>3, <2>2 DEF LatestUpdate
<1>6. QED
  BY <1>4, <1>5

-----------------------------------------------------------------------------
(* The loop of reset over the environment.                                 *)

\* The wind comes before the area, so the area is reset in the wind that was just
\* drawn, whatever wind and area were there before.
LEMMA WindFirst ==
    ASSUME NEW w, NEW a, NEW e, NEW next
    PROVE  LET env == ResetEnvironment([wind |-> w, area |-> a], e, next)
           IN env.wind = e /\ env.area = ResetArea(e, e, next)
<1> DEFINE env0 == [wind |-> w, area |-> a]
<1>1. ResetObject(env0, Created[1], e, next) = env0
  BY DEF Created, ResetObject
<1>2. ResetObject(env0, Created[2], e, next) = [wind |-> e, area |-> a]
  BY DEF Created, ResetObject
<1>3. ResetObject([wind |-> e, area |-> a], Created[3], e, next)
        = [wind |-> e, area |-> ResetArea(e, e, next)]
  BY DEF Created, ResetObject
<1>4. ResetEnvironment(env0, e, next) = [wind |-> e, area |-> ResetArea(e, e, next)]
  BY <1>1, <1>2, <1>3 DEF ResetEnvironment
<1>5. QED
  BY <1>4

-----------------------------------------------------------------------------
\* The inductive invariant.  Types; what the area keeps of this episode; what
\* the agent has returned; and for the readings, that the sensor and the cached
\* value agree and that no update of the area is missing between the two clocks.
Parts ==
    /\ t \in Nat /\ episode \in Nat /\ wind \in 1 .. MaxEpisodes
    /\ area \in [episode : 1 .. MaxEpisodes, vmean : 0 .. MaxEpisodes,
                 references : 1 .. MaxEpisodes, puffs : SUBSET Puff, next : [Sources -> Nat]]
    /\ sensor \in [Platforms -> Reading] /\ output \in [Platforms -> Reading]
    /\ valid \in [Platforms -> BOOLEAN] /\ placed \in [Platforms -> Nat]
    /\ received \in 1 .. MaxEpisodes \cup {None}
    /\ answered \in BOOLEAN
    /\ emitted \subseteq Puff

Bounds == t <= MaxT /\ episode \in 1 .. MaxEpisodes

Emissions ==
    /\ \A s \in Sources : area.next[s] >= LatestUpdate(t, AreaDt)
    /\ \A q \in emitted : q.time < LatestUpdate(t, AreaDt)

Episodes == /\ area.episode = episode /\ area.references = episode
            /\ area.vmean = episode /\ wind = episode
            /\ answered => received = episode

Readings ==
    /\ LatestUpdate(LatestUpdate(t, SensorDt), AreaDt) <= LatestUpdate(t, AreaDt)
    /\ \A i \in Platforms :
          (valid[i] /\ LatestUpdate(t, SensorDt) > placed[i]) => sensor[i] = output[i]

IInv == Parts /\ Bounds /\ Emissions /\ Episodes /\ ListIsPlume /\ Readings
        /\ ReadingIsRecent /\ ScoredAtLocations /\ DriftsWithWind

-----------------------------------------------------------------------------
LEMMA InitEstablishes == Init => IInv
<1> SUFFICES ASSUME Init PROVE IInv
  OBVIOUS
<1>1. LatestUpdate(0, AreaDt) = 0 /\ LatestUpdate(0, SensorDt) = 0
  BY Clock, Constants
<1>2. PICK next \in FirstEmissions : area = ResetArea(1, 1, next) /\ wind = 1
  BY WindFirst DEF Init
<1>3. Parts /\ Bounds
  <2>1. Bounds /\ t \in Nat /\ episode \in Nat /\ wind \in 1 .. MaxEpisodes
    BY <1>2, Constants DEF Init, Bounds
  <2>2. area \in [episode : 1 .. MaxEpisodes, vmean : 0 .. MaxEpisodes,
                 references : 1 .. MaxEpisodes, puffs : SUBSET Puff, next : [Sources -> Nat]]
    BY <1>2, Constants DEF ResetArea, FirstEmissions
  <2>3. NoReading \in Reading
    BY DEF NoReading, Reading
  <2>4. QED
    BY <2>1, <2>2, <2>3 DEF Init, Parts
<1>4. Emissions /\ Readings /\ ReadingIsRecent /\ DriftsWithWind
  BY <1>1, <1>2 DEF Init, Emissions, Readings, ReadingIsRecent, DriftsWithWind, ResetArea,
                    FirstEmissions
<1>5. Episodes /\ ScoredAtLocations
  BY <1>2 DEF Init, Episodes, ScoredAtLocations, ResetArea
<1>6. ListIsPlume
  BY <1>1, <1>2 DEF Init, ListIsPlume, Truth, ResetArea
<1>7. QED
  BY <1>3, <1>4, <1>5, <1>6 DEF IInv

LEMMA ResetPreserves == IInv /\ Reset => IInv'
<1> SUFFICES ASSUME IInv, Reset PROVE IInv'
  OBVIOUS
<1>1. LatestUpdate(0, AreaDt) = 0 /\ LatestUpdate(0, SensorDt) = 0
  BY Clock, Constants
<1>2. PICK next \in FirstEmissions : area' = ResetArea(episode', episode', next) /\ wind' = episode'
  BY WindFirst DEF Reset
<1>3. t' = 0 /\ episode' = episode + 1 /\ wind' = episode' /\ episode' \in 1 .. MaxEpisodes
  BY <1>2, Constants DEF Reset, IInv, Bounds
<1>4. Parts' /\ Bounds'
  <2>1. Bounds' /\ t' \in Nat /\ episode' \in Nat /\ wind' \in 1 .. MaxEpisodes
    BY <1>3, Constants DEF Bounds
  <2>2. area' \in [episode : 1 .. MaxEpisodes, vmean : 0 .. MaxEpisodes,
                  references : 1 .. MaxEpisodes, puffs : SUBSET Puff, next : [Sources -> Nat]]
    BY <1>2, <1>3 DEF ResetArea, FirstEmissions
  <2>3. QED
    BY <2>1, <2>2 DEF Reset, Parts, IInv
<1>5. Emissions' /\ Readings' /\ ReadingIsRecent' /\ DriftsWithWind'
  BY <1>1, <1>2, <1>3
     DEF Reset, Emissions, Readings, ReadingIsRecent, DriftsWithWind, ResetArea, FirstEmissions
<1>6. Episodes' /\ ScoredAtLocations'
  BY <1>2, <1>3 DEF Reset, Episodes, ScoredAtLocations, ResetArea, IInv
<1>7. ListIsPlume'
  BY <1>1, <1>2, <1>3 DEF Reset, ListIsPlume, Truth, ResetArea
<1>8. QED
  BY <1>4, <1>5, <1>6, <1>7 DEF IInv

\* setX: the readings of that platform are too old to be vouched for.
LEMMA SetXPreserves == ASSUME NEW i \in Platforms PROVE IInv /\ SetX(i) => IInv'
<1> SUFFICES ASSUME IInv, SetX(i) PROVE IInv'
  OBVIOUS
<1>1. t \in Nat /\ LatestUpdate(t, SensorDt) <= t
  <2>1. t \in Nat
    BY DEF IInv, Parts
  <2>2. LatestUpdate(t, SensorDt) \in 0 .. t
    BY <2>1, Clock, Constants
  <2>3. QED
    BY <2>1, <2>2
<1>2. UNCHANGED <<t, episode, wind, area, sensor, output, received, score, emitted, answered>>
  BY DEF SetX
<1>3. Parts' /\ Bounds' /\ Emissions' /\ Episodes' /\ ListIsPlume' /\ ScoredAtLocations'
  BY <1>2 DEF IInv, SetX, Parts, Bounds, Emissions, Episodes, ListIsPlume, Truth,
              ScoredAtLocations
<1>4. ASSUME NEW j \in Platforms, valid'[j], LatestUpdate(t, SensorDt) > placed'[j]
      PROVE  valid[j] /\ LatestUpdate(t, SensorDt) > placed[j]
  <2>1. LatestUpdate(t, SensorDt) \in 0 .. t
    BY <1>1, Clock, Constants
  <2>2. j # i
    BY <1>1, <1>4, <2>1 DEF SetX, IInv, Parts
  <2>3. QED
    BY <1>4, <2>2 DEF SetX, IInv, Parts
<1>5. Readings'
  BY <1>2, <1>4 DEF IInv, Readings
<1>6. ReadingIsRecent'
  BY <1>2, <1>4 DEF IInv, ReadingIsRecent
<1>7. DriftsWithWind'
  BY <1>2, <1>4 DEF IInv, DriftsWithWind
<1>8. QED
  BY <1>3, <1>5, <1>6, <1>7 DEF IInv

\* What the agent and the task do leaves the plume and its readings alone.
LEMMA AgentPreserves == IInv /\ (SetSamples \/ Reward \/ UNCHANGED vars) => IInv'
<1> SUFFICES ASSUME IInv, SetSamples \/ Reward \/ UNCHANGED vars PROVE IInv'
  OBVIOUS
<1>1. UNCHANGED <<t, episode, wind, area, sensor, output, valid, emitted, placed>>
  BY DEF SetSamples, Reward, vars
<1>2. Bounds' /\ Emissions' /\ ListIsPlume' /\ Readings' /\ ReadingIsRecent' /\ DriftsWithWind'
  BY <1>1 DEF IInv, Bounds, Emissions, ListIsPlume, Truth, Readings, ReadingIsRecent,
              DriftsWithWind
<1>3. Parts' /\ Episodes'
  <2>1. /\ received' \in 1 .. MaxEpisodes \cup {None} /\ answered' \in BOOLEAN
        /\ answered' => received' = episode
    <3>1. received \in 1 .. MaxEpisodes \cup {None} /\ answered \in BOOLEAN
      BY DEF IInv, Parts
    <3>2. /\ episode \in 1 .. MaxEpisodes /\ area.episode = episode
          /\ answered => received = episode
      BY DEF IInv, Bounds, Episodes
    <3>3. CASE SetSamples
      BY <3>2, <3>3 DEF SetSamples
    <3>4. CASE Reward \/ UNCHANGED vars
      BY <3>1, <3>2, <3>4 DEF Reward, vars
    <3>5. QED
      BY <3>3, <3>4
  <2>2. QED
    BY <1>1, <2>1 DEF IInv, Parts, Episodes
<1>4. ScoredAtLocations'
  BY <1>1 DEF IInv, ScoredAtLocations, Episodes, SetSamples, Reward, vars
<1>5. QED
  BY <1>2, <1>3, <1>4 DEF IInv
-----------------------------------------------------------------------------
(* One time step.                                                          *)

\* The two clocks of a tick.
LEMMA TickClocks ==
    ASSUME IInv, Tick
    PROVE  /\ t \in Nat /\ t' = t + 1 /\ t' \in Nat /\ t' <= MaxT
           /\ \A d \in {AreaDt, SensorDt} :
                 /\ LatestUpdate(t, d) \in 0 .. t
                 /\ t' % d = 0 => /\ LatestUpdate(t', d) = t'
                                  /\ LatestUpdate(t, d) = t' - d
                 /\ t' % d # 0 => LatestUpdate(t', d) = LatestUpdate(t, d)
<1>1. t \in Nat /\ t' = t + 1 /\ t < MaxT
  BY DEF IInv, Parts, Tick
<1>2. ASSUME NEW d \in {AreaDt, SensorDt}
      PROVE  /\ LatestUpdate(t, d) \in 0 .. t
             /\ t' % d = 0 => LatestUpdate(t', d) = t' /\ LatestUpdate(t, d) = t' - d
             /\ t' % d # 0 => LatestUpdate(t', d) = LatestUpdate(t, d)
  <2>1. d \in Nat \ {0}
    BY Constants
  <2>2. QED
    BY <1>1, <2>1, Clock
<1>3. QED
  BY <1>1, <1>2, Constants

\* What an update of the area does to the puffs and the times of the next ones.
LEMMA AreaUpdated ==
    ASSUME IInv, Tick, t' % AreaDt = 0
    PROVE  \E new \in SUBSET Puff :
              /\ \A q \in new : q.time >= LatestUpdate(t, AreaDt) /\ q.time < t'
              /\ area'.puffs = {q \in area.puffs : ~Leaves(q, t')} \cup new
              /\ emitted' = emitted \cup new
              /\ area'.next \in [Sources -> Nat]
              /\ \A s \in Sources : area'.next[s] >= t'
              /\ area' = [area EXCEPT !.puffs = area'.puffs, !.next = area'.next]
<1>1. PICK new \in SUBSET Due(area.next, t'), next \in [Sources -> t' .. t' + MaxGap] :
         area' = Propagated(area, t', new, next) /\ emitted' = emitted \cup new
  BY DEF Tick, UpdateArea
<1>2. t' \in Nat /\ area.next \in [Sources -> Nat]
  BY TickClocks DEF IInv, Parts
<1>3. \A q \in new : q \in Puff /\ q.time >= LatestUpdate(t, AreaDt) /\ q.time < t'
  <2> SUFFICES ASSUME NEW q \in new
               PROVE  q \in Puff /\ q.time >= LatestUpdate(t, AreaDt) /\ q.time < t'
    OBVIOUS
  <2>1. q \in [source : Sources, time : 0 .. t'] /\ q.time >= area.next[q.source] /\ q.time < t'
    BY <1>1 DEF Due
  <2>2. area.next[q.source] >= LatestUpdate(t, AreaDt) /\ q.source \in Sources
    BY <2>1 DEF IInv, Emissions
  <2>3. LatestUpdate(t, AreaDt) \in Nat
    BY TickClocks
  <2>4. q.time \in Nat /\ area.next[q.source] \in Nat
    BY <1>2, <2>1, <2>2
  <2>5. q.time >= LatestUpdate(t, AreaDt)
    BY <2>1, <2>2, <2>3, <2>4
  <2>6. QED
    BY <1>2, <2>1, <2>5 DEF Puff
<1>4. area'.puffs = {q \in area.puffs : ~Leaves(q, t')} \cup new
  BY <1>1 DEF Propagated, IInv, Parts
<1>5. area'.next = [s \in Sources |-> IF area.next[s] < t' THEN next[s] ELSE area.next[s]]
  BY <1>1 DEF Propagated, IInv, Parts
<1>6. area' = [area EXCEPT !.puffs = area'.puffs, !.next = area'.next]
  BY <1>1 DEF Propagated, IInv, Parts
<1>7. \A s \in Sources : area'.next[s] \in Nat /\ area'.next[s] >= t'
  BY <1>2, <1>5, Constants
<1>8. area'.next \in [Sources -> Nat]
  BY <1>5, <1>7
<1>9. new \in SUBSET Puff
  BY <1>3
<1>10. QED
  BY <1>1, <1>3, <1>4, <1>6, <1>7, <1>8, <1>9

LEMMA TickKeepsEmissions ==
    ASSUME IInv, Tick
    PROVE  /\ Emissions' /\ ListIsPlume' /\ Bounds' /\ Episodes' /\ ScoredAtLocations'
           /\ emitted \subseteq emitted' /\ emitted' \subseteq Puff
           /\ \A q \in emitted' \ emitted : q.time >= LatestUpdate(t, AreaDt)
           /\ area' \in [episode : 1 .. MaxEpisodes, vmean : 0 .. MaxEpisodes,
                         references : 1 .. MaxEpisodes, puffs : SUBSET Puff,
                         next : [Sources -> Nat]]
           /\ LatestUpdate(t, AreaDt) <= LatestUpdate(t', AreaDt)
<1>0. /\ t \in Nat /\ t' \in Nat /\ LatestUpdate(t, AreaDt) \in 0 .. t /\ t' = t + 1
      /\ emitted \subseteq Puff /\ area.puffs = Truth(LatestUpdate(t, AreaDt))
      /\ area \in [episode : 1 .. MaxEpisodes, vmean : 0 .. MaxEpisodes,
                   references : 1 .. MaxEpisodes, puffs : SUBSET Puff,
                   next : [Sources -> Nat]]
  BY TickClocks DEF IInv, Parts, ListIsPlume
<1>1. /\ area'.episode = area.episode /\ area'.vmean = area.vmean
      /\ area'.references = area.references
  <2>1. CASE t' % AreaDt = 0
    BY <1>0, <2>1, AreaUpdated
  <2>2. CASE t' % AreaDt # 0
    BY <2>2 DEF Tick
  <2>3. QED
    BY <2>1, <2>2
<1>2. Bounds' /\ Episodes' /\ ScoredAtLocations'
  <2>1. Bounds'
    BY TickClocks DEF Tick, IInv, Bounds
  <2>2. Episodes' /\ ScoredAtLocations'
    BY <1>1 DEF Tick, IInv, Episodes, ScoredAtLocations
  <2>3. QED
    BY <2>1, <2>2
<1>3. CASE t' % AreaDt # 0
  <2>1. LatestUpdate(t', AreaDt) = LatestUpdate(t, AreaDt) /\ area' = area /\ emitted' = emitted
    BY <1>3, TickClocks DEF Tick
  <2>2. Emissions' /\ ListIsPlume'
    BY <2>1 DEF IInv, Emissions, ListIsPlume, Truth
  <2>3. QED
    BY <1>0, <1>2, <2>1, <2>2
<1>4. CASE t' % AreaDt = 0
  <2>1. PICK new \in SUBSET Puff :
              /\ \A q \in new : q.time >= LatestUpdate(t, AreaDt) /\ q.time < t'
              /\ area'.puffs = {q \in area.puffs : ~Leaves(q, t')} \cup new
              /\ emitted' = emitted \cup new
              /\ area'.next \in [Sources -> Nat]
              /\ \A s \in Sources : area'.next[s] >= t'
              /\ area' = [area EXCEPT !.puffs = area'.puffs, !.next = area'.next]
    BY <1>4, AreaUpdated
  <2>2. LatestUpdate(t', AreaDt) = t' /\ LatestUpdate(t, AreaDt) = t' - AreaDt
    BY <1>4, TickClocks
  <2>3. \A q \in emitted : q.time < LatestUpdate(t, AreaDt)
    BY DEF IInv, Emissions
  <2>4. emitted \subseteq Puff /\ emitted' \subseteq Puff
    BY <1>0, <2>1
  <2>5. Emissions'
    <3>1. \A q \in emitted' : q.time < t'
      <4> SUFFICES ASSUME NEW q \in emitted' PROVE q.time < t'
        OBVIOUS
      <4>1. q.time \in Nat
        BY <2>4 DEF Puff
      <4>2. QED
        BY <1>0, <2>1, <2>3, <4>1
    <3>2. QED
      BY <2>1, <2>2, <3>1 DEF Emissions
  <2>6. ASSUME NEW q \in Puff
        PROVE  q \in area'.puffs <=> q \in emitted' /\ q.time < t' /\ ~Leaves(q, t')
    <3>0. q.time \in Nat /\ q.source \in Sources /\ Life[q.source] \in Nat
          /\ Life[q.source] >= AreaDt
      BY <2>6, Constants DEF Puff
    <3>1. CASE q \in new
      <4>1. t' - q.time <= AreaDt
        BY <1>0, <2>1, <2>2, <3>0, <3>1, Constants
      <4>2. ~Leaves(q, t')
        BY <1>0, <3>0, <4>1, Constants DEF Leaves
      <4>3. QED
        BY <2>1, <3>1, <4>2
    <3>2. CASE q \notin new /\ q \in emitted
      <4>1. q.time < LatestUpdate(t, AreaDt) /\ q.time < t'
        BY <1>0, <2>3, <3>0, <3>2
      <4>2. ~Leaves(q, t') => ~Leaves(q, LatestUpdate(t, AreaDt))
        BY <1>0, <3>0 DEF Leaves
      <4>3. q \in area.puffs <=> ~Leaves(q, LatestUpdate(t, AreaDt))
        BY <1>0, <3>2, <4>1 DEF Truth
      <4>4. QED
        BY <2>1, <3>2, <4>1, <4>2, <4>3
    <3>3. CASE q \notin new /\ q \notin emitted
      BY <1>0, <2>1, <3>3 DEF Truth
    <3>4. QED
      BY <3>1, <3>2, <3>3
  <2>7. area'.puffs \subseteq Puff
    BY <1>0, <2>1
  <2>8. ListIsPlume'
    <3>1. area'.puffs = {q \in emitted' : q.time < t' /\ ~Leaves(q, t')}
      BY <2>4, <2>6, <2>7
    <3>2. QED
      BY <2>2, <3>1 DEF ListIsPlume, Truth
  <2>9. area' \in [episode : 1 .. MaxEpisodes, vmean : 0 .. MaxEpisodes,
                   references : 1 .. MaxEpisodes, puffs : SUBSET Puff,
                   next : [Sources -> Nat]]
    BY <1>0, <2>1, <2>7
  <2>10. LatestUpdate(t, AreaDt) <= LatestUpdate(t', AreaDt)
    BY <1>0, <2>2
  <2>11. QED
    BY <1>2, <2>1, <2>4, <2>5, <2>8, <2>9, <2>10
<1>5. QED
  BY <1>3, <1>4
\* A reading taken now has the puffs of the list, and none that is needed is
\* missing from it.
LEMMA FreshReading ==
    ASSUME IInv, Tick
    PROVE  LET o == Sample(area', t') IN
           /\ o \in Reading /\ o.episode = episode' /\ o.at = t' /\ o.vmean = wind'
           /\ o.puffs \subseteq {q \in emitted' : q.time < t'}
           /\ {q \in emitted' : q.time < LatestUpdate(t', AreaDt) /\ ~Leaves(q, t')}
                 \subseteq o.puffs
<1>1. /\ t' \in Nat /\ LatestUpdate(t', AreaDt) \in 0 .. t' /\ emitted' \subseteq Puff
      /\ area'.puffs = {q \in emitted' : q.time < LatestUpdate(t', AreaDt)
                                         /\ ~Leaves(q, LatestUpdate(t', AreaDt))}
      /\ area'.episode = episode' /\ area'.episode \in Nat
      /\ area'.vmean = wind' /\ area'.vmean \in Nat
  <2>1. t' \in Nat
    BY TickClocks
  <2>2. LatestUpdate(t', AreaDt) \in 0 .. t'
    BY <2>1, Clock, Constants
  <2>3. /\ ListIsPlume' /\ Episodes' /\ emitted' \subseteq Puff
        /\ area'.episode \in 1 .. MaxEpisodes /\ area'.vmean \in 0 .. MaxEpisodes
    BY TickKeepsEmissions
  <2>4. QED
    BY <2>1, <2>2, <2>3, Constants DEF ListIsPlume, Truth, Episodes
<1>2. area'.puffs = {q \in emitted' : q.time < LatestUpdate(t', AreaDt)
                                         /\ ~Leaves(q, LatestUpdate(t', AreaDt))}
  BY <1>1
<1>3. area'.puffs \subseteq {q \in emitted' : q.time < t'}
  <2> SUFFICES ASSUME NEW q \in area'.puffs PROVE q \in emitted' /\ q.time < t'
    OBVIOUS
  <2>1. q \in emitted' /\ q.time < LatestUpdate(t', AreaDt)
    BY <1>2
  <2>2. q.time \in Nat
    BY <1>1, <2>1 DEF Puff
  <2>3. QED
    BY <1>1, <2>1, <2>2
<1>4. {q \in emitted' : q.time < LatestUpdate(t', AreaDt) /\ ~Leaves(q, t')}
         \subseteq area'.puffs
  <2> SUFFICES ASSUME NEW q \in emitted', q.time < LatestUpdate(t', AreaDt), ~Leaves(q, t')
               PROVE  ~Leaves(q, LatestUpdate(t', AreaDt))
    BY <1>2
  <2>1. q.time \in Nat /\ Life[q.source] \in Nat
    BY <1>1, Constants DEF Puff
  <2>2. QED
    BY <1>1, <2>1 DEF Leaves
<1>5. area'.puffs \in SUBSET Puff
  BY <1>1, <1>3
<1>6. QED
  BY <1>1, <1>3, <1>4, <1>5 DEF Sample, Reading

LEMMA TickPreserves == IInv /\ Tick => IInv'
<1> SUFFICES ASSUME IInv, Tick PROVE IInv'
  OBVIOUS
<1>0. area'.vmean = wind'
  BY TickKeepsEmissions DEF Episodes
<1>1. /\ Emissions' /\ ListIsPlume' /\ Bounds' /\ Episodes' /\ ScoredAtLocations'
      /\ emitted \subseteq emitted' /\ emitted' \subseteq Puff
      /\ \A q \in emitted' \ emitted : q.time >= LatestUpdate(t, AreaDt)
      /\ area' \in [episode : 1 .. MaxEpisodes, vmean : 0 .. MaxEpisodes,
                    references : 1 .. MaxEpisodes, puffs : SUBSET Puff,
                    next : [Sources -> Nat]]
      /\ LatestUpdate(t, AreaDt) <= LatestUpdate(t', AreaDt)
  BY TickKeepsEmissions
<1> DEFINE due == LatestUpdate(t, SensorDt)
<1>2. PICK up \in SUBSET {i \in Platforms : valid[i]} :
          /\ valid' = [i \in Platforms |-> i \in up]
          /\ sensor' = [i \in Platforms |-> IF i \in up THEN Measured(i, t') ELSE sensor[i]]
          /\ output' = [i \in Platforms |-> IF i \in up THEN sensor'[i] ELSE output[i]]
  BY DEF Tick
<1>3. /\ sensor \in [Platforms -> Reading] /\ output \in [Platforms -> Reading]
      /\ placed \in [Platforms -> Nat] /\ placed' = placed
  BY DEF IInv, Parts, Tick
<1>4. \A i \in Platforms : Measured(i, t') \in Reading
  BY <1>3, FreshReading DEF Measured
<1>5. sensor' \in [Platforms -> Reading]
  BY <1>2, <1>3, <1>4
<1>6. output' \in [Platforms -> Reading]
  BY <1>2, <1>3, <1>5
<1>7. Parts'
  <2>1. t' \in Nat /\ UNCHANGED <<episode, wind, received, placed, answered>>
    BY TickClocks DEF Tick
  <2>2. valid' \in [Platforms -> BOOLEAN]
    BY <1>2
  <2>3. QED
    BY <1>1, <1>5, <1>6, <2>1, <2>2 DEF IInv, Parts
<1>8. /\ t \in Nat /\ t' \in Nat /\ due \in Nat
      /\ LatestUpdate(t, AreaDt) \in Nat /\ LatestUpdate(t', AreaDt) \in Nat
      /\ LatestUpdate(due, AreaDt) \in Nat
  <2>1. t \in Nat /\ t' \in Nat
    BY TickClocks
  <2>2. due \in Nat /\ LatestUpdate(t, AreaDt) \in Nat /\ LatestUpdate(t', AreaDt) \in Nat
    BY <2>1, Clock, Constants
  <2>3. LatestUpdate(due, AreaDt) \in Nat
    BY <2>2, Clock, Constants
  <2>4. QED
    BY <2>1, <2>2, <2>3
<1>9. LatestUpdate(due, AreaDt) <= LatestUpdate(t, AreaDt)
  BY DEF IInv, Readings
<1>10. ASSUME NEW i \in Platforms, valid'[i]
       PROVE  i \in up /\ valid[i] /\ output'[i] = sensor'[i] /\ sensor'[i] = Measured(i, t')
  BY <1>2, <1>10
<1>11. CASE t' % SensorDt = 0
  <2>1. LatestUpdate(t', SensorDt) = t'
    BY <1>11, TickClocks
  <2>2. ASSUME NEW i \in Platforms, valid'[i] PROVE output'[i] = Sample(area', t')
    BY <1>10, <1>11, <2>2 DEF Measured
  <2>3. Readings'
    BY <1>8, <1>10, <2>1 DEF Readings
  <2>4. ReadingIsRecent'
    BY <2>1, <2>2, FreshReading DEF ReadingIsRecent
  <2>5. DriftsWithWind'
    BY <1>0, <2>1, <2>2, FreshReading DEF DriftsWithWind
  <2>6. QED
    BY <1>1, <1>7, <2>3, <2>4, <2>5 DEF IInv
<1>12. CASE t' % SensorDt # 0
  <2>1. LatestUpdate(t', SensorDt) = due
    BY <1>12, TickClocks
  <2>2. LatestUpdate(due, AreaDt) <= LatestUpdate(t', AreaDt)
    BY <1>1, <1>8, <1>9
  <2>3. Readings'
    BY <1>10, <2>1, <2>2 DEF Readings
  <2>4. ASSUME NEW i \in Platforms, valid'[i], due > placed'[i]
        PROVE  /\ output'[i] = output[i] /\ output[i].vmean = wind'
               /\ output[i].episode = episode' /\ output[i].at = due
               /\ output[i].puffs \subseteq {q \in emitted' : q.time < due}
               /\ {q \in emitted' : q.time < LatestUpdate(due, AreaDt) /\ ~Leaves(q, due)}
                     \subseteq output[i].puffs
    <3>1. valid[i] /\ due > placed[i] /\ output'[i] = sensor[i]
      BY <1>3, <1>10, <1>12, <2>4 DEF Measured
    <3>2. sensor[i] = output[i]
      BY <3>1 DEF IInv, Readings
    <3>3. /\ output[i].episode = episode /\ output[i].at = due /\ output[i].vmean = wind
          /\ output[i].puffs \subseteq {q \in emitted : q.time < due}
          /\ {q \in emitted : q.time < LatestUpdate(due, AreaDt) /\ ~Leaves(q, due)}
                \subseteq output[i].puffs
      BY <3>1 DEF IInv, ReadingIsRecent, DriftsWithWind
    <3>4. ASSUME NEW q \in emitted', q.time < LatestUpdate(due, AreaDt)
          PROVE  q \in emitted
      <4>1. q.time \in Nat
        BY <1>1 DEF Puff
      <4>2. q.time < LatestUpdate(t, AreaDt)
        BY <1>8, <1>9, <3>4, <4>1
      <4>3. QED
        BY <1>1, <1>8, <4>1, <4>2
    <3>5. QED
      BY <1>1, <3>1, <3>2, <3>3, <3>4 DEF Tick
  <2>5. ReadingIsRecent'
    BY <2>1, <2>4 DEF ReadingIsRecent
  <2>6. DriftsWithWind'
    BY <1>0, <2>1, <2>4 DEF DriftsWithWind
  <2>7. QED
    BY <1>1, <1>7, <2>3, <2>5, <2>6 DEF IInv
<1>13. QED
  BY <1>11, <1>12

-----------------------------------------------------------------------------
LEMMA Inductive == Spec => []IInv
<1>1. IInv /\ [Next]_vars => IInv'
  BY ResetPreserves, SetXPreserves, TickPreserves, AgentPreserves DEF Next
<1>2. QED
  BY InitEstablishes, <1>1, PTL DEF Spec

\* Types; and the next puff of a source is never overdue: propagateToTime
\* (GaussianPuffDispersionPlumeArea.m) draws its time whenever it emits one.
THEOREM TypeCorrect == Spec => []TypeOK
<1>1. IInv => TypeOK
  BY DEF IInv, Parts, Bounds, Emissions, TypeOK
<1>2. QED
  BY Inductive, <1>1, PTL

\* The list of puffs is the plume since the reset, as it was when the area was
\* last due: propagateToTime forgets none and keeps none that has left, init
\* empties the list after the reference simulation.  The time step of the area
\* must not exceed the life of a puff: one that was due and had left again
\* between two updates would be listed until the next.
THEOREM PuffsAreThePlume == Spec => []ListIsPlume
<1>1. IInv => ListIsPlume
  BY DEF IInv
<1>2. QED
  BY Inductive, <1>1, PTL

\* Locations, reference samples and puffs, and what a platform hands out of them
\* once its sensor has been due, follow the wind the helicopters fly in: reset goes
\* through the environment in the order of its creation, the wind before the area
\* (QRSim.m), and no reading of an earlier episode is left by then.
THEOREM WindBeforePuffs == Spec => []DriftsWithWind
<1>1. IInv => DriftsWithWind
  BY DEF IInv
<1>2. QED
  BY Inductive, <1>1, PTL

\* What getPlumeSensorOutput hands out is of this episode and of the latest time
\* the sensor was due, though reset clears neither the sensor nor the cached value,
\* for a platform placed before that time.
THEOREM ReadingsAreRecent == Spec => []ReadingIsRecent
<1>1. IInv => ReadingIsRecent
  BY DEF IInv
<1>2. QED
  BY Inductive, <1>1, PTL

\* reward compares samples and references for the same locations, if the agent
\* has returned samples since the reset.
THEOREM ScoresAreOfThisEpisode == Spec => []ScoredAtLocations
<1>1. IInv => ScoredAtLocations
  BY DEF IInv
<1>2. QED
  BY Inductive, <1>1, PTL
=============================================================================
