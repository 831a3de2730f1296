---------------------------- MODULE Controllers ----------------------------
(***************************************************************************)
(* The PID controllers, which outlive the flights they steer: what their   *)
(* integrators remember, and how a platform that drops out spreads.        *)
(*                                                                         *)
(* A platform that leaves its limits or collides is invalid, and its       *)
(* estimated state becomes NaN (Pelican.m:466).  The tasks that fly their  *)
(* platforms, and the TCP server, go on handing that state to computeU,    *)
(* whose integrator is then NaN for ever, and so is every control it       *)
(* computes: limit compares, and a NaN compares with nothing.  Such a      *)
(* control passes the assertion of scaleControls in the same way and makes *)
(* the state of the platform it is given to NaN.                           *)
(*                                                                         *)
(* Numbers are left out.  An integrator is the set of the readings summed  *)
(* up in it, a reading being whose it is and whether it was taken since    *)
(* that platform was last placed, before, or is NaN.                       *)
(***************************************************************************)
EXTENDS Naturals

CONSTANTS
    N,          \* number of platforms
    Shared      \* the server's controllers, velpid and wppid, for all UAVs

ASSUME NAssumption == N \in Nat \ {0}

Platforms == 1 .. N
\* Who computes the controls: the caller, the search and the plume tasks from
\* velocities, or the cats and mouse task, which also flies the mouse itself.
Tasks  == {"direct", "velocity", "chase"}
Mouse  == N
Cats   == Platforms \ {Mouse}

Readings == [of : Platforms, from : {"now", "before", "nan"}]

VARIABLES
    served,     \* whether the caller is the TCP server, or a script
    task,       \* which of the three the loaded task is
    ready,      \* the simulator's flag: after a resetSeed it waits for a reset
    valid,      \* platforms{i}.valid; else its eX is NaN, or there is none
    bare,       \* platforms built anew by an init that threw, not placed since
    made,       \* platforms for which the task has made a controller
    velPIDs,    \* the integrators of the task's controllers, one per platform
    shared,     \* the integrators of velpid and wppid
    put         \* history: placed since a reset or init last returned

vars == <<served, task, ready, valid, bare, made, velPIDs, shared, put>>

-----------------------------------------------------------------------------
(* Readings and controllers.                                               *)

Reading(p) == [of |-> p, from |-> IF valid[p] THEN "now" ELSE "nan"]

\* computeU of a NaN reading or with a NaN in the integrator: controls of NaN.
Poisoned(memory) == \E r \in memory : r.from = "nan"

\* The platforms in S are placed anew: what was read of them is of the past.
Aged(memory, S) ==
    {[of   |-> r.of,
      from |-> IF r.from = "now" /\ r.of \in S THEN "before" ELSE r.from] : r \in memory}

\* The server computes the controls of the UAVs in turn, with one controller.
\* A bare platform has no state to be read, computeU throws.
Readable == {p \in Platforms : (1 .. p) \cap bare = {}}
Asked(c, p) == shared[c] \cup {Reading(q) : q \in 1 .. p}
NaNFromServer(c) == {p \in Platforms : Poisoned(Asked(c, p))}

\* The mouse flees from the cats that have a reading; from none of them, in
\* the direction 0/0.
FleeingFrom == IF valid[Mouse] THEN {c \in Cats : valid[c]} ELSE {}

\* A plausible slip: the mouse is only flown while all cats have a reading.
MouseReadingStrict ==
    [of |-> Mouse, from |-> IF FleeingFrom = Cats THEN "now" ELSE "nan"]

MouseReading == [of |-> Mouse, from |-> IF FleeingFrom = {} THEN "nan" ELSE "now"]

\* A plausible slip: one controller for all, as in the server.
FedOfAll(p) == {Reading(q) : q \in Platforms}

\* What the task feeds the controller of platform p.
Fed(p) == {IF task = "chase" /\ p = Mouse THEN MouseReading ELSE Reading(p)}

\* task.step as far as the controllers of the platforms in S.
TaskFeeds(S) == [p \in Platforms |-> IF p \in S THEN velPIDs[p] \cup Fed(p)
                                     ELSE velPIDs[p]]

\* A command of the wrong size throws at the first platform that would use it,
\* a valid one; the mouse comes first and uses none.
FlownByTask == IF task = "chase" THEN {Mouse} ELSE {}
FedBeforeThrow == {p \in Platforms : \A q \in 1 .. p : ~valid[q]} \cup FlownByTask

\* A task without all its controllers throws at the first that is missing.
WithPIDs == IF FlownByTask \subseteq made THEN {p \in Platforms : 1 .. p \subseteq made}
            ELSE {}

\* Platforms 1..n are updated with their controls, NaN for those in nan; those
\* in bad leave their limits or collide.  An invalid platform ignores its own.
Updated(n, nan, bad) ==
    [p \in Platforms |-> valid[p] /\ (p <= n => p \notin nan \cup bad)]

-----------------------------------------------------------------------------
(* An init has returned, the first one.  Those before it that threw left no *)
(* controllers to the server, and nothing the first one did not renew.     *)
Init == /\ served \in BOOLEAN
        /\ task \in Tasks
        /\ ready = TRUE
        /\ bare = {}
        /\ made = Platforms
        /\ valid = [p \in Platforms |-> TRUE]
        /\ velPIDs = [p \in Platforms |-> {}]
        /\ shared = [c \in Shared |-> {}]
        /\ put = {}

(* init that returns, and the rest of an INIT message: a new task, new     *)
(* platforms and, in the server, new controllers.                          *)
InitTask(k) ==
    /\ task' = k
    /\ ready' = TRUE
    /\ valid' = [p \in Platforms |-> TRUE]
    /\ bare' = {}
    /\ made' = Platforms
    /\ velPIDs' = [p \in Platforms |-> {}]
    /\ shared' = [c \in Shared |-> {}]
    /\ put' = {}
    /\ UNCHANGED served

(* init that throws before its reset: the new task is in and has made no   *)
(* controller, m platforms are built anew.  The server keeps its own, and  *)
(* the flag of an earlier reset stays up unless resetSeed was reached.     *)
InitThrowsBuilding(k, m) ==
    /\ task' = k
    /\ ready' \in IF m = N THEN {ready, FALSE} ELSE {ready}
    /\ valid' = [p \in Platforms |-> valid[p] /\ p > m]
    /\ bare' = bare \cup (1 .. m)
    /\ made' = {}
    /\ velPIDs' = [p \in Platforms |-> {}]
    /\ UNCHANGED <<served, shared, put>>

(* A tick whose controls come from the caller; when n < N it throws at the *)
(* step of platform n + 1, for one that is bare always.                    *)
StepDirect(n, bad) ==
    /\ ready
    /\ task = "direct"
    /\ 1 .. n \subseteq Readable
    /\ valid' = Updated(n, {}, bad)
    /\ UNCHANGED <<served, task, ready, bare, made, velPIDs, shared, put>>

(* A tick of a task that computes the controls itself.                     *)
StepTask(n, bad) ==
    /\ ready
    /\ task # "direct"
    /\ WithPIDs = Platforms
    /\ velPIDs' = TaskFeeds(Platforms)
    /\ valid' = Updated(n, {p \in Platforms : Poisoned(velPIDs'[p])}, bad)
    /\ UNCHANGED <<served, task, ready, bare, made, shared, put>>

(* The same with a command of the wrong size, or a controller missing.     *)
StepTaskThrows ==
    /\ ready
    /\ task # "direct"
    /\ \/ velPIDs' = TaskFeeds(WithPIDs \cap FedBeforeThrow)
       \/ /\ WithPIDs # Platforms
          /\ velPIDs' = TaskFeeds(WithPIDs)
    /\ UNCHANGED <<served, task, ready, valid, bare, made, shared, put>>

(* A STEP message of type VEL or WP, one tick of it.                       *)
StepShared(c, n, bad) ==
    /\ served
    /\ ready
    /\ task = "direct"
    /\ Readable = Platforms
    /\ shared' = [shared EXCEPT ![c] = Asked(c, N)]
    /\ valid' = Updated(n, NaNFromServer(c), bad)
    /\ UNCHANGED <<served, task, ready, bare, made, velPIDs, put>>

(* The same when a platform is bare, when qrsim.step refuses as it waits   *)
(* for a reset, or to a task that takes velocities: five rows are the      *)
(* wrong size.  An environment object may throw before the task is stepped. *)
StepSharedThrows(c) ==
    /\ served
    /\ shared' = [shared EXCEPT ![c] = @ \cup {Reading(p) : p \in Readable}]
    /\ \/ /\ Readable # Platforms \/ ~ready \/ task # "direct"
          /\ UNCHANGED velPIDs
       \/ /\ Readable = Platforms /\ ready /\ task # "direct"
          /\ velPIDs' = TaskFeeds(WithPIDs \cap FedBeforeThrow)
    /\ UNCHANGED <<served, task, ready, valid, bare, made, put>>

\* A plausible slip: the server resets the simulator only.
KeptShared == [c \in Shared |-> Aged(shared[c], Platforms)]

\* velpid.reset(), wppid.reset().
ResetShared == [c \in Shared |-> {}]

\* A plausible slip: the controllers are made once, in the task's init.
KeptPIDs(done, placed) == [p \in Platforms |-> Aged(velPIDs[p], placed)]

\* The platforms in placed are, and those in done have new controllers.
RenewedPIDs(done, placed) == [p \in Platforms |-> IF p \in done THEN {}
                                                  ELSE Aged(velPIDs[p], placed)]

(* reset that returns, called by the server for a RESET message: the task  *)
(* places all its platforms and makes new controllers.                     *)
Reset ==
    /\ ready' = TRUE
    /\ valid' = [p \in Platforms |-> TRUE]
    /\ bare' = {}
    /\ made' = Platforms
    /\ velPIDs' = RenewedPIDs(Platforms, Platforms)
    /\ shared' = ResetShared
    /\ put' = {}
    /\ UNCHANGED <<served, task>>

\* What task k's reset has placed when m platforms have got their controllers:
\* the mouse is placed before the cats and gets its controller after them.
PlacedFirst(k, m) == (1 .. m) \cup IF k = "chase" THEN {Mouse} ELSE {}

\* Where the reset of task k may throw: no place is left for cat m + 1 or, after
\* all platforms, in the reset of the search area.
GivesUp(k, m) == k = "chase" => m + 1 \in Cats

(* reset that throws in task.reset.                                        *)
ResetThrows(m) ==
    /\ GivesUp(task, m)
    /\ valid' = [p \in Platforms |-> valid[p] \/ p \in PlacedFirst(task, m)]
    /\ bare' = bare \ PlacedFirst(task, m)
    /\ made' = made \cup (1 .. m)
    /\ velPIDs' = RenewedPIDs(1 .. m, PlacedFirst(task, m))
    /\ shared' = [c \in Shared |-> Aged(shared[c], PlacedFirst(task, m))]
    /\ put' = put \cup PlacedFirst(task, m)
    /\ UNCHANGED <<served, task, ready>>

(* init that throws in its reset: the same, with all platforms built anew. *)
(* velpid and wppid are made when init and all getX and getEX returned.    *)
(* With m = N also an INIT message whose init returned, but a platform that *)
(* is not of this task cannot be read, being bare: no tick gets past it.   *)
InitThrowsPlacing(k, m) ==
    /\ GivesUp(k, m) \/ m = N
    /\ task' = k
    /\ ready' = FALSE
    /\ valid' = [p \in Platforms |-> p \in PlacedFirst(k, m)]
    /\ bare' = Platforms \ PlacedFirst(k, m)
    /\ made' = 1 .. m
    /\ velPIDs' = [p \in Platforms |-> {}]
    /\ shared' = [c \in Shared |-> Aged(shared[c], PlacedFirst(k, m))]
    /\ put' = put \cup PlacedFirst(k, m)
    /\ UNCHANGED served

(* setX by a script: no controller is told.  The server has no such action, *)
(* as parsing a SETSTATE message always throws.                            *)
SetX(p) ==
    /\ ~served
    /\ valid' = [valid EXCEPT ![p] = TRUE]
    /\ bare' = bare \ {p}
    /\ velPIDs' = [velPIDs EXCEPT ![p] = Aged(@, {p})]
    /\ put' = put \cup {p}
    /\ UNCHANGED <<served, task, ready, made, shared>>

Next ==
    \/ \E k \in Tasks :
           \/ InitTask(k)
           \/ \E m \in 0 .. N : InitThrowsBuilding(k, m) \/ InitThrowsPlacing(k, m)
    \/ \E n \in 0 .. N, bad \in SUBSET Platforms :
           \/ StepDirect(n, bad)
           \/ StepTask(n, bad)
           \/ \E c \in Shared : StepShared(c, n, bad)
    \/ StepTaskThrows
    \/ \E c \in Shared : StepSharedThrows(c)
    \/ Reset
    \/ \E m \in 0 .. N : ResetThrows(m)
    \/ \E p \in Platforms : SetX(p)

Spec == Init /\ [][Next]_vars

-----------------------------------------------------------------------------
(* Type invariant: the platforms and what the controllers remember; a task *)
(* that gets its controls from the caller has no controllers to feed.      *)
TypeOK ==
    /\ served \in BOOLEAN
    /\ task \in Tasks
    /\ ready \in BOOLEAN
    /\ valid \in [Platforms -> BOOLEAN]
    /\ made \subseteq Platforms
    /\ bare \subseteq Platforms \ made
    /\ \A p \in bare : ~valid[p]
    /\ velPIDs \in [Platforms -> SUBSET Readings]
    /\ \A p \in Platforms : \A r \in velPIDs[p] : r.of = p /\ task # "direct"
    /\ shared \in [Shared -> SUBSET Readings]
    /\ ~served => \A c \in Shared : shared[c] = {}
    /\ put \subseteq Platforms

(* No controller steers a platform by what it read in an earlier flight,   *)
(* whatever dropped out, threw or was put elsewhere before: the one way an *)
(* integrator still holds a reading of an earlier flight is that the       *)
(* platform was placed by setX, or by a reset or init that then threw, and *)
(* no reset or init has returned since.                                    *)
MemoryOfThisFlight ==
    /\ \A p \in Platforms : \A r \in velPIDs[p] : r.from = "before" => p \in put
    /\ \A c \in Shared : \A r \in shared[c] : r.from = "before" => r.of \in put

(* A dropout stays where it is: in a task that flies its platforms, one    *)
(* that has dropped out never makes the controls of another one NaN, and a *)
(* platform that flies has a clean controller unless it was put there      *)
(* without a reset.  The one exception is the mouse, and only once it has  *)
(* no cat left to flee from.                                               *)
DropoutContained ==
    \A p \in Platforms \ put :
        valid[p] /\ Poisoned(velPIDs[p]) =>
            /\ task = "chase" /\ p = Mouse
            /\ \A c \in Cats \ put : ~valid[c]

(* A NaN in the server's controllers, which takes every UAV down at the    *)
(* next VEL or WP step, has its cause on board: some UAV has dropped out   *)
(* since the last RESET or INIT that returned, and is out or bare, or was  *)
(* put back by a RESET or INIT that threw.                                 *)
SharedPoisonTraced ==
    \A c \in Shared : \A r \in shared[c] :
        r.from = "nan" => ~valid[r.of] \/ r.of \in put
=============================================================================
