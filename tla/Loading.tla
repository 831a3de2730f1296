------------------------------ MODULE Loading ------------------------------
(***************************************************************************)
(* What a caller may find in the simulator after calls of init and reset,  *)
(* whatever they threw: which task is in, with which dt, how many          *)
(* platforms there are and which of them nobody has placed yet.  There is  *)
(* no rollback, no platform ever goes away, and a platform that was not    *)
(* placed has no state to read.  QRSim does this object by object; the     *)
(* server of QRSimTCP believes it of the simulator in its workspace.       *)
(***************************************************************************)
EXTENDS Naturals

CONSTANTS
    Tasks,   \* the tasks that can be loaded
    NoTask,  \* none yet
    Size,    \* Size[k]: number of platforms of task k
    Dt       \* Dt[k]: its dt, in ticks

VARIABLES
    task,    \* the task that is in
    taskDt,  \* its dt, 0 as long as it was given none
    fleet,   \* number of platforms there are
    bare     \* those of them that were never placed

loadVars == <<task, taskDt, fleet, bare>>

Larger(a, b) == IF a < b THEN b ELSE a
Own == IF task = NoTask THEN {} ELSE 1 .. Size[task]

LoadInit == task = NoTask /\ taskDt = 0 /\ fleet = 0 /\ bare = {}

\* init returns: the task's own platforms are placed, what else there is stays.
Load(k) == /\ task' = k
           /\ taskDt' = Dt[k]
           /\ fleet' = Larger(fleet, Size[k])
           /\ bare' = bare \ (1 .. Size[k])

\* init throws before the task has its dt: the new task flies the old platforms.
LoadRejected(k) == task' = k /\ taskDt' = 0 /\ UNCHANGED <<fleet, bare>>

\* init throws with m platforms built; it begins to place them when all are.
LoadBreaks(k, m, done) ==
    /\ done # {} => m = Size[k]
    /\ task' = k
    /\ taskDt' = Dt[k]
    /\ fleet' = Larger(fleet, m)
    /\ bare' = (bare \cup (1 .. m)) \ done

\* reset, to its end or not, places platforms of the task; setX any one.
Place(done) == bare' = bare \ done /\ UNCHANGED <<task, taskDt, fleet>>

\* The process that holds the simulator ends.
Discard == LoadInit'

LoadNext ==
    \/ \E k \in Tasks : Load(k) \/ LoadRejected(k)
    \/ \E k \in Tasks : \E m \in 0 .. Size[k] : \E done \in SUBSET (1 .. m) :
           LoadBreaks(k, m, done)
    \/ \E done \in SUBSET Own : Place(done)
    \/ \E i \in bare : Place({i})
    \/ Discard

LoadSpec == LoadInit /\ [][LoadNext]_loadVars
=============================================================================
