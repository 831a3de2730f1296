---------------------------- MODULE SearchRescue ----------------------------
(***************************************************************************)
(* The search and rescue tasks (scenarios/searchrescue): the area that     *)
(* notices which person a platform hovers over                             *)
(* (sim/enviroment/area/BoxWithPersonsArea.m), the task's reward, and the  *)
(* platforms with a camera that fly there.                                 *)
(*                                                                         *)
(* The area keeps two sets: "found", for the rest of the episode, and      *)
(* "pjf", the persons just found, which the next update overwrites and the *)
(* next reward hands out and clears.  Geometry is reduced to one relation: *)
(* which persons a platform is both close enough to and slow enough for.   *)
(***************************************************************************)
EXTENDS Naturals, FiniteSets

CONSTANTS
    N,        \* number of platforms
    People,   \* the persons that may be there
    Counts,   \* how many of them an episode may have (numpersonsrange)
    TaskDt,   \* dt of the task, in ticks
    AreaDt    \* dt of the area, in ticks

\* All search and rescue tasks give the area the dt of the task.
ASSUME SearchAssumption ==
    /\ {N, TaskDt, AreaDt} \subseteq Nat \ {0}
    /\ AreaDt % TaskDt = 0
    /\ IsFiniteSet(People)
    /\ Counts \subseteq Nat \ {0}

Uavs == 1 .. N

VARIABLES
    persons,  \* the persons of this episode
    found,    \* BoxWithPersonsArea.found, as a set
    pjf,      \* BoxWithPersonsArea.pjf: pairs of a platform and a person
    over,     \* the persons each platform's state makes it find
    valid,    \* Pelican.valid of each platform
    boot,     \* guard counter of each camera (2: two or more)
    t,        \* simState.t in ticks, modulo AreaDt
    left,     \* ticks left of the step that is running
    paid,     \* history: how often each person was counted in a reward
    dropped,  \* history: the persons whose finding was never read
    skipped   \* history: has a step begun with findings unread?

vars == <<persons, found, pjf, over, valid, boot, t, left, paid, dropped, skipped>>

-----------------------------------------------------------------------------
In(pairs) == {x[2] : x \in pairs}

\* A plausible slip: the persons found earlier are not looked up.
JustFoundAnew(o) == {x \in Uavs \X persons : x[2] \in o[x[1]]}

\* BoxWithPersonsArea.update, with the platforms where they are.  It does not
\* ask whether a platform is valid.
JustFound(o) == {x \in Uavs \X persons : x[2] \in o[x[1]] \ found}

\* A plausible slip: the area is updated in every tick.
IsDueAlways(time) == TRUE

\* Steppable.step updates the area if t is a multiple of its dt.
IsDue(time) == time % AreaDt = 0

UpdateArea ==
    IF IsDue(t + 1)
    THEN /\ pjf' = JustFound(over)
         /\ found' = found \cup In(JustFound(over))
         /\ dropped' = dropped \cup In(pjf)
    ELSE UNCHANGED <<pjf, found, dropped>>

\* A plausible slip: the marks of the episode before are not cleared.
NewPersonsKeepFound ==
    /\ persons' \in {p \in SUBSET People : Cardinality(p) \in Counts}
    /\ pjf' = {}
    /\ paid' = [p \in People |-> 0]
    /\ dropped' = {}
    /\ skipped' = FALSE
    /\ UNCHANGED found

\* The area's init: new persons, nobody found.
NewPersons == /\ persons' \in {p \in SUBSET People : Cardinality(p) \in Counts}
              /\ found' = {}
              /\ pjf' = {}
              /\ paid' = [p \in People |-> 0]
              /\ dropped' = {}
              /\ skipped' = FALSE

\* The task's reset puts the platforms at 45 m, out of reach of anyone.
PlacedFarAway == /\ over' = [i \in Uavs |-> {}]
                 /\ valid' = [i \in Uavs |-> TRUE]

-----------------------------------------------------------------------------
Init == /\ persons \in {p \in SUBSET People : Cardinality(p) \in Counts}
        /\ found = {} /\ pjf = {}
        /\ over = [i \in Uavs |-> {}]
        /\ valid = [i \in Uavs |-> TRUE]
        /\ boot = [i \in Uavs |-> 1]
        /\ t = 0 /\ left = 0
        /\ paid = [p \in People |-> 0] /\ dropped = {} /\ skipped = FALSE

(* QRSim.init builds new cameras, QRSim.reset keeps those there are, whose *)
(* counters setX does not clear.                                           *)
InitAgain ==
    /\ left = 0
    /\ NewPersons /\ PlacedFarAway
    /\ boot' = [i \in Uavs |-> 1]
    /\ t' = 0
    /\ UNCHANGED left

Reset ==
    /\ left = 0
    /\ NewPersons /\ PlacedFarAway
    /\ boot' = [i \in Uavs |-> 2]
    /\ t' = 0
    /\ UNCHANGED left

(* A caller's setX, which may put a platform right over some persons.      *)
SetX(i, o) ==
    /\ left = 0
    /\ o \subseteq persons
    /\ over' = [over EXCEPT ![i] = o]
    /\ valid' = [valid EXCEPT ![i] = TRUE]
    /\ boot' = [boot EXCEPT ![i] = 2]
    /\ UNCHANGED <<persons, found, pjf, t, left, paid, dropped, skipped>>

(* QRSim.step: TaskDt ticks.                                               *)
BeginStep ==
    /\ left = 0
    /\ left' = TaskDt
    /\ skipped' = (skipped \/ pjf # {})
    /\ UNCHANGED <<persons, found, pjf, over, valid, boot, t, paid, dropped>>

\* Platform i moves, and may drop out; one that has dropped out stays put.
MovesTo(i, o, v) == /\ o[i] \subseteq persons
                    /\ v[i] => valid[i]
                    /\ ~valid[i] => o[i] = over[i]
StaysPut(i, o, v) == o[i] = over[i] /\ v[i] = valid[i]

\* A camera whose counter is not 1 refuses to step; it is only asked to when
\* its platform is valid after the move.
Refuses(i, v) == v[i] /\ boot[i] # 1

(* A tick: the area is updated before the platforms move.                  *)
Tick(o, v) ==
    /\ left > 0
    /\ UpdateArea
    /\ \A i \in Uavs : MovesTo(i, o, v) /\ ~Refuses(i, v)
    /\ over' = o /\ valid' = v
    /\ t' = (t + 1) % AreaDt
    /\ left' = left - 1
    /\ UNCHANGED <<persons, boot, paid, skipped>>

(* A tick in which the camera of platform i refuses: the platforms after   *)
(* it do not move, and the step is over.                                   *)
TickThrows(i, o, v) ==
    /\ left > 0
    /\ UpdateArea
    /\ \A j \in 1 .. i : MovesTo(j, o, v)
    /\ \A j \in 1 .. i - 1 : ~Refuses(j, v)
    /\ Refuses(i, v)
    /\ \A j \in i + 1 .. N : StaysPut(j, o, v)
    /\ over' = o /\ valid' = v
    /\ t' = (t + 1) % AreaDt
    /\ left' = 0
    /\ UNCHANGED <<persons, boot, paid, skipped>>

\* A plausible slip: the findings are left for the next reward.
CollectAgain == /\ paid' = [p \in People |-> paid[p] + Cardinality({i \in Uavs : <<i, p>> \in pjf})]
                /\ UNCHANGED pjf

\* getPersonsJustFound: hand out, and clear; every pair adds 1 to the reward.
Collect == /\ paid' = [p \in People |-> paid[p] + Cardinality({i \in Uavs : <<i, p>> \in pjf})]
           /\ pjf' = {}

(* reward: a penalty, and nothing collected, unless all are valid.         *)
Reward ==
    /\ left = 0
    /\ \A i \in Uavs : valid[i]
    /\ Collect
    /\ UNCHANGED <<persons, found, over, valid, boot, t, left, dropped, skipped>>

Next ==
    \/ InitAgain \/ Reset
    \/ \E i \in Uavs, o \in SUBSET People : SetX(i, o)
    \/ BeginStep
    \/ \E o \in [Uavs -> SUBSET persons], v \in [Uavs -> BOOLEAN] :
           Tick(o, v) \/ \E i \in Uavs : TickThrows(i, o, v)
    \/ Reward

Spec == Init /\ [][Next]_vars

-----------------------------------------------------------------------------
(* Type invariant: the area, the task and the platforms that fly there.    *)
TypeOK ==
    /\ persons \subseteq People
    /\ found \subseteq persons
    /\ pjf \subseteq Uavs \X persons
    /\ over \in [Uavs -> SUBSET persons]
    /\ valid \in [Uavs -> BOOLEAN]
    /\ boot \in [Uavs -> 1 .. 2]
    /\ t \in 0 .. AreaDt - 1
    /\ left \in 0 .. TaskDt
    /\ paid \in [People -> Nat]
    /\ dropped \subseteq persons
    /\ skipped \in BOOLEAN

Paid == {p \in People : paid[p] > 0}

(* Every person the area has marked as found has been counted in a reward, *)
(* or waits to be, or its finding went unread, and only one of the three:  *)
(* no finding is paid in two rewards, whatever steps, failed steps, setX   *)
(* and penalties come between.                                             *)
EveryFindAccounted ==
    /\ found = Paid \cup In(pjf) \cup dropped
    /\ Paid \cap In(pjf) = {} /\ Paid \cap dropped = {} /\ In(pjf) \cap dropped = {}

(* Who asks for the reward after every step (as main_searchrescue.m does)  *)
(* and gets one loses no finding, even when steps are cut short and the    *)
(* updates of the area no longer fall on the last tick of a step.          *)
NoFindLost == dropped # {} => skipped

\* What has become of every person.
Fate == [p \in People |-> IF p \notin persons THEN "absent"
                          ELSE IF p \in Paid THEN "paid"
                          ELSE IF p \in In(pjf) THEN "unread"
                          ELSE IF p \in dropped THEN "lost"
                          ELSE "hidden"]

(* A person is found once, and a finding settled once, whoever steps, sets *)
(* platforms down, resets or asks for rewards in whatever order: nothing   *)
(* but a new episode takes back that it was paid, for how much, or lost.   *)
Promise == INSTANCE Ledger WITH fate <- Fate, credit <- paid
SettledOnce == Promise!LedgerSpec
=============================================================================
