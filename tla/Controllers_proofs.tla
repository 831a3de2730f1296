------------------------- MODULE Controllers_proofs -------------------------
(***************************************************************************)
(* Theorems about Controllers, for any number of platforms and of shared   *)
(* controllers: types, no memory of earlier flights, dropouts contained in *)
(* the tasks that fly their platforms, and the cause of a NaN in the       *)
(* controllers of the server.                                              *)
(***************************************************************************)
EXTENDS Controllers, TLAPS

LEMMA PlatformsAre == N \in Nat \ {0} /\ Mouse \in Platforms
  BY NAssumption DEF Platforms, Mouse

-----------------------------------------------------------------------------
(* What the operators on memories return.                                  *)

(* Every reading of an aged memory was there before, as it is or, if it was *)
(* of a platform placed anew, still of this flight.                        *)
LEMMA AgedReadings ==
    ASSUME NEW memory \in SUBSET Readings, NEW S, NEW r \in Aged(memory, S)
    PROVE  /\ r \in Readings
           /\ \E q \in memory :
                  /\ r.of = q.of
                  /\ \/ r.from = q.from /\ ~(q.from = "now" /\ q.of \in S)
                     \/ r.from = "before" /\ q.from = "now" /\ q.of \in S
<1>1. PICK q \in memory :
          r = [of |-> q.of,
               from |-> IF q.from = "now" /\ q.of \in S THEN "before" ELSE q.from]
  BY DEF Aged
<1>2. q \in Readings /\ q.of \in Platforms /\ q.from \in {"now", "before", "nan"}
  BY DEF Readings
<1>3. CASE q.from = "now" /\ q.of \in S
  <2>1. r = [of |-> q.of, from |-> "before"]
    BY <1>1, <1>3
  <2>2. r.of = q.of /\ r.from = "before" /\ r \in Readings
    BY <1>2, <2>1 DEF Readings
  <2>3. QED
    BY <1>3, <2>2
<1>4. CASE ~(q.from = "now" /\ q.of \in S)
  <2>1. r = [of |-> q.of, from |-> q.from]
    BY <1>1, <1>4
  <2>2. r.of = q.of /\ r.from = q.from /\ r \in Readings
    BY <1>2, <2>1 DEF Readings
  <2>3. QED
    BY <1>4, <2>2
<1>5. QED
  BY <1>3, <1>4

(* A reading is NaN exactly if the platform is out.                        *)
LEMMA NewReading ==
    ASSUME NEW p \in Platforms
    PROVE  /\ Reading(p) \in Readings /\ Reading(p).of = p
           /\ Reading(p).from # "before"
           /\ Reading(p).from = "nan" <=> ~valid[p]
<1>1. CASE valid[p]
  BY <1>1 DEF Reading, Readings
<1>2. CASE ~valid[p]
  BY <1>2 DEF Reading, Readings
<1>3. QED
  BY <1>1, <1>2

(* What a task feeds a controller is a new reading of its own platform,    *)
(* and NaN only if that platform is out or is a mouse that no cat chases.  *)
LEMMA FedReading ==
    ASSUME NEW p \in Platforms, NEW r \in Fed(p)
    PROVE  /\ r \in Readings /\ r.of = p /\ r.from # "before"
           /\ r.from = "nan" /\ valid[p] =>
                  task = "chase" /\ p = Mouse /\ \A c \in Cats : ~valid[c]
<1>1. CASE task = "chase" /\ p = Mouse
  <2>1. r = MouseReading
    BY <1>1 DEF Fed
  <2>2. CASE FleeingFrom = {}
    <3>1. r = [of |-> Mouse, from |-> "nan"]
      BY <2>1, <2>2 DEF MouseReading
    <3>2. r \in Readings /\ r.of = p /\ r.from = "nan"
      BY <1>1, <3>1, PlatformsAre DEF Readings
    <3>3. valid[p] => \A c \in Cats : ~valid[c]
      BY <1>1, <2>2 DEF FleeingFrom
    <3>4. QED
      BY <1>1, <3>2, <3>3
  <2>3. CASE FleeingFrom # {}
    <3>1. r = [of |-> Mouse, from |-> "now"]
      BY <2>1, <2>3 DEF MouseReading
    <3>2. r \in Readings /\ r.of = p /\ r.from = "now"
      BY <1>1, <3>1, PlatformsAre DEF Readings
    <3>3. QED
      BY <3>2
  <2>4. QED
    BY <2>2, <2>3
<1>2. CASE ~(task = "chase" /\ p = Mouse)
  <2>1. r = Reading(p)
    BY <1>2 DEF Fed
  <2>2. QED
    BY <2>1, NewReading
<1>3. QED
  BY <1>1, <1>2

-----------------------------------------------------------------------------
(* The actions in three groups, by what they do to the memories.            *)

\* Everything is new.
Fresh == /\ served' = served
         /\ task' \in Tasks
         /\ ready' = TRUE
         /\ valid' = [p \in Platforms |-> TRUE]
         /\ bare' = {}
         /\ made' = Platforms
         /\ velPIDs' = [p \in Platforms |-> {}]
         /\ shared' = [c \in Shared |-> {}]
         /\ put' = {}

\* The platforms in S are placed, those in done get new controllers; with a
\* new task no controllers are kept.
Placing(done, S) ==
    /\ S \subseteq Platforms
    /\ served' = served
    /\ task' \in Tasks
    /\ task' = task \/ Platforms \subseteq done
    /\ ready' \in BOOLEAN
    /\ valid' \in [Platforms -> BOOLEAN]
    /\ \A p \in Platforms : valid'[p] => valid[p] \/ p \in S
    /\ made' \subseteq Platforms
    /\ bare' \subseteq Platforms \ made'
    /\ \A p \in bare' : ~valid'[p]
    /\ velPIDs' = [p \in Platforms |-> IF p \in done THEN {} ELSE Aged(velPIDs[p], S)]
    /\ shared' = [c \in Shared |-> Aged(shared[c], S)]
    /\ put' = put \cup S

\* No platform is placed; the task's controllers may be fed, and so may the
\* server's.
Flying ==
    /\ valid' \in [Platforms -> BOOLEAN]
    /\ \A p \in Platforms : valid'[p] => valid[p]
    /\ velPIDs' \in [Platforms -> SUBSET Readings]
    /\ \A p \in Platforms : velPIDs'[p] \subseteq velPIDs[p] \cup Fed(p)
    /\ velPIDs' # velPIDs => task # "direct"
    /\ shared' \in [Shared -> SUBSET Readings]
    /\ \A c \in Shared : shared'[c] \subseteq shared[c] \cup {Reading(p) : p \in Platforms}
    /\ ~served => shared' = shared
    /\ UNCHANGED <<served, task, ready, bare, made, put>>

LEMMA FeedsType ==
    ASSUME TypeOK, NEW S
    PROVE  /\ TaskFeeds(S) \in [Platforms -> SUBSET Readings]
           /\ \A p \in Platforms : TaskFeeds(S)[p] \subseteq velPIDs[p] \cup Fed(p)
<1>1. ASSUME NEW p \in Platforms
      PROVE  velPIDs[p] \in SUBSET Readings /\ Fed(p) \in SUBSET Readings
  BY <1>1, FedReading DEF TypeOK
<1>2. QED
  BY <1>1 DEF TaskFeeds

LEMMA AskedType ==
    ASSUME TypeOK, NEW c \in Shared
    PROVE  LET new == [shared EXCEPT ![c] = Asked(c, N)]
           IN  /\ new \in [Shared -> SUBSET Readings]
               /\ \A d \in Shared : new[d] \subseteq shared[d] \cup {Reading(p) : p \in Platforms}
<1>1. Asked(c, N) = shared[c] \cup {Reading(p) : p \in Platforms}
  BY DEF Asked, Platforms
<1>2. {Reading(p) : p \in Platforms} \in SUBSET Readings
  BY NewReading
<1>3. shared \in [Shared -> SUBSET Readings]
  BY DEF TypeOK
<1>4. QED
  BY <1>1, <1>2, <1>3

\* The same of the readings up to the first bare platform.
LEMMA ReadableType ==
    ASSUME TypeOK, NEW c \in Shared
    PROVE  LET new == [shared EXCEPT ![c] = @ \cup {Reading(p) : p \in Readable}]
           IN  /\ new \in [Shared -> SUBSET Readings]
               /\ \A d \in Shared : new[d] \subseteq shared[d] \cup {Reading(p) : p \in Platforms}
<1>1. Readable \subseteq Platforms
  BY DEF Readable
<1>2. {Reading(p) : p \in Platforms} \in SUBSET Readings
  BY NewReading
<1>3. {Reading(p) : p \in Readable} \subseteq {Reading(p) : p \in Platforms}
  BY <1>1
<1>4. shared \in [Shared -> SUBSET Readings]
  BY DEF TypeOK
<1>5. QED
  BY <1>2, <1>3, <1>4

LEMMA UpdatedType ==
    ASSUME TypeOK, NEW n \in 0 .. N, NEW nan, NEW bad
    PROVE  /\ Updated(n, nan, bad) \in [Platforms -> BOOLEAN]
           /\ \A p \in Platforms : Updated(n, nan, bad)[p] => valid[p]
  BY DEF Updated, TypeOK

LEMMA PlacedFirstType ==
    ASSUME NEW k, NEW m \in 0 .. N
    PROVE  /\ 1 .. m \subseteq Platforms
           /\ 1 .. m \subseteq PlacedFirst(k, m)
           /\ PlacedFirst(k, m) \subseteq Platforms
<1>1. 1 .. m \subseteq Platforms
  BY PlatformsAre DEF Platforms
<1>2. QED
  BY <1>1, PlatformsAre DEF PlacedFirst

\* Where no platform is placed, nothing gets old.
LEMMA NoneAged ==
    ASSUME TypeOK
    PROVE  /\ \A p \in Platforms : Aged(velPIDs[p], {}) = velPIDs[p]
           /\ shared = [c \in Shared |-> Aged(shared[c], {})]
<1>1. ASSUME NEW memory \in SUBSET Readings PROVE Aged(memory, {}) = memory
  <2>1. \A r \in memory : [of |-> r.of, from |-> IF r.from = "now" /\ r.of \in {}
                                               THEN "before" ELSE r.from] = r
    BY DEF Readings
  <2>2. QED
    BY <2>1 DEF Aged
<1>2. velPIDs \in [Platforms -> SUBSET Readings] /\ shared \in [Shared -> SUBSET Readings]
  BY DEF TypeOK
<1>3. \A c \in Shared : Aged(shared[c], {}) = shared[c]
  BY <1>1, <1>2
<1>4. QED
  BY <1>1, <1>2, <1>3

LEMMA Groups ==
    ASSUME TypeOK, [Next]_vars
    PROVE  Fresh \/ Flying \/ \E done, S : Placing(done, S)
<1>1. ASSUME NEW k \in Tasks, InitTask(k) PROVE Fresh
  BY <1>1 DEF InitTask, Fresh
<1>2. ASSUME NEW n \in 0 .. N, NEW bad \in SUBSET Platforms, StepDirect(n, bad) PROVE Flying
  BY <1>2, UpdatedType DEF StepDirect, Flying, TypeOK
<1>3. ASSUME NEW n \in 0 .. N, NEW bad \in SUBSET Platforms, StepTask(n, bad) PROVE Flying
  BY <1>3, UpdatedType, FeedsType DEF StepTask, Flying, TypeOK
<1>4. ASSUME NEW c \in Shared, NEW n \in 0 .. N, NEW bad \in SUBSET Platforms,
             StepShared(c, n, bad)
      PROVE  Flying
  BY <1>4, UpdatedType, AskedType DEF StepShared, Flying, TypeOK
<1>5. ASSUME StepTaskThrows PROVE Flying
  BY <1>5, FeedsType DEF StepTaskThrows, Flying, TypeOK
<1>6. ASSUME NEW c \in Shared, StepSharedThrows(c) PROVE Flying
  BY <1>6, FeedsType, ReadableType DEF StepSharedThrows, Flying, TypeOK
<1>7. ASSUME Reset PROVE Fresh
  BY <1>7 DEF Reset, RenewedPIDs, ResetShared, Fresh, TypeOK
<1>8. ASSUME NEW m \in 0 .. N, ResetThrows(m)
      PROVE  Placing(1 .. m, PlacedFirst(task, m))
  <2>1. /\ 1 .. m \subseteq Platforms
        /\ 1 .. m \subseteq PlacedFirst(task, m)
        /\ PlacedFirst(task, m) \subseteq Platforms
    BY PlacedFirstType
  <2>2. /\ made' \subseteq Platforms
        /\ bare' \subseteq Platforms \ made'
        /\ \A p \in bare' : ~valid'[p]
    BY <1>8, <2>1 DEF ResetThrows, TypeOK
  <2>3. QED
    BY <1>8, <2>1, <2>2 DEF ResetThrows, RenewedPIDs, Placing, TypeOK
<1>9. ASSUME NEW k \in Tasks, NEW m \in 0 .. N, InitThrowsBuilding(k, m)
      PROVE  Placing(Platforms, {})
  <2>1. 1 .. m \subseteq Platforms
    BY PlacedFirstType
  <2>2. /\ made' \subseteq Platforms
        /\ bare' \subseteq Platforms \ made'
    BY <1>9, <2>1 DEF InitThrowsBuilding, TypeOK
  <2>3. ASSUME NEW p \in bare' PROVE ~valid'[p]
    <3>1. p \in Platforms /\ (p \in bare \/ p \in 1 .. m)
      BY <1>9, <2>1 DEF InitThrowsBuilding, TypeOK
    <3>2. valid'[p] = (valid[p] /\ p > m)
      BY <1>9, <3>1 DEF InitThrowsBuilding
    <3>3. CASE p \in bare
      BY <3>2, <3>3 DEF TypeOK
    <3>4. CASE p \in 1 .. m
      <4>1. ~(p > m)
        BY <3>4, NAssumption
      <4>2. QED
        BY <3>2, <4>1, Zenon
    <3>5. QED
      BY <3>1, <3>3, <3>4
  <2>4. velPIDs' = [p \in Platforms |-> IF p \in Platforms THEN {} ELSE Aged(velPIDs[p], {})]
    BY <1>9 DEF InitThrowsBuilding
  <2>5. shared' = [c \in Shared |-> Aged(shared[c], {})]
    BY <1>9, NoneAged DEF InitThrowsBuilding
  <2>6. /\ valid' \in [Platforms -> BOOLEAN]
        /\ \A p \in Platforms : valid'[p] => valid[p]
        /\ ready' \in BOOLEAN /\ put' = put /\ served' = served /\ task' \in Tasks
    BY <1>9 DEF InitThrowsBuilding, TypeOK
  <2>7. QED
    BY <2>2, <2>3, <2>4, <2>5, <2>6 DEF Placing
<1>10. ASSUME NEW k \in Tasks, NEW m \in 0 .. N, InitThrowsPlacing(k, m)
       PROVE  Placing(Platforms, PlacedFirst(k, m))
  <2>1. /\ 1 .. m \subseteq Platforms
        /\ 1 .. m \subseteq PlacedFirst(k, m)
        /\ PlacedFirst(k, m) \subseteq Platforms
    BY PlacedFirstType
  <2>2. velPIDs' = [p \in Platforms |-> IF p \in Platforms THEN {}
                                        ELSE Aged(velPIDs[p], PlacedFirst(k, m))]
    BY <1>10 DEF InitThrowsPlacing
  <2>3. /\ made' \subseteq Platforms
        /\ bare' \subseteq Platforms \ made'
        /\ \A p \in bare' : ~valid'[p]
    <3>1. /\ made' = 1 .. m
          /\ bare' = Platforms \ PlacedFirst(k, m)
          /\ valid' = [p \in Platforms |-> p \in PlacedFirst(k, m)]
      BY <1>10 DEF InitThrowsPlacing
    <3>2. ASSUME NEW p \in bare' PROVE ~valid'[p]
      <4>1. p \in Platforms /\ p \notin PlacedFirst(k, m)
        BY <3>1
      <4>2. valid'[p] = (p \in PlacedFirst(k, m))
        BY <3>1, <4>1, Zenon
      <4>3. QED
        BY <4>1, <4>2, Zenon
    <3>3. QED
      BY <2>1, <3>1, <3>2
  <2>4. /\ valid' \in [Platforms -> BOOLEAN]
        /\ \A p \in Platforms : valid'[p] => p \in PlacedFirst(k, m)
    <3>1. valid' = [p \in Platforms |-> p \in PlacedFirst(k, m)]
      BY <1>10 DEF InitThrowsPlacing
    <3>2. \A p \in Platforms : valid'[p] = (p \in PlacedFirst(k, m))
      BY <3>1, Zenon
    <3>3. valid' \in [Platforms -> BOOLEAN]
      BY <3>1
    <3>4. QED
      BY <3>2, <3>3, Zenon
  <2>5. QED
    BY <1>10, <2>1, <2>2, <2>3, <2>4 DEF InitThrowsPlacing, Placing
<1>11. ASSUME NEW p \in Platforms, SetX(p) PROVE Placing({}, {p})
  <2>1. ASSUME NEW q \in Platforms, q # p PROVE Aged(velPIDs[q], {p}) = velPIDs[q]
    <3>1. \A r \in velPIDs[q] : r \in Readings /\ r.of # p
      BY <2>1 DEF TypeOK
    <3>2. \A r \in velPIDs[q] : [of |-> r.of, from |-> IF r.from = "now" /\ r.of \in {p}
                                                      THEN "before" ELSE r.from] = r
      BY <3>1 DEF Readings
    <3>3. QED
      BY <3>2 DEF Aged
  <2>2. velPIDs' = [q \in Platforms |-> IF q \in {} THEN {} ELSE Aged(velPIDs[q], {p})]
    BY <1>11, <2>1 DEF SetX, TypeOK
  <2>3. /\ valid' \in [Platforms -> BOOLEAN]
        /\ \A q \in Platforms : valid'[q] => valid[q] \/ q \in {p}
        /\ \A q \in bare' : ~valid'[q]
    BY <1>11 DEF SetX, TypeOK
  <2>4. shared' = [c \in Shared |-> Aged(shared[c], {p})]
    <3>1. \A c \in Shared : shared[c] = {} /\ Aged(shared[c], {p}) = {}
      BY <1>11 DEF SetX, Aged, TypeOK
    <3>2. QED
      BY <1>11, <3>1 DEF SetX, TypeOK
  <2>5. QED
    BY <1>11, <2>2, <2>3, <2>4 DEF SetX, Placing, TypeOK
<1>12. ASSUME UNCHANGED vars PROVE Flying
  BY <1>12 DEF vars, Flying, TypeOK
<1>13. QED
  BY <1>1, <1>2, <1>3, <1>4, <1>5, <1>6, <1>7, <1>8, <1>9, <1>10, <1>11, <1>12 DEF Next

-----------------------------------------------------------------------------
(* Types.                                                                  *)

LEMMA TypeOKInit == Init => TypeOK
  BY DEF Init, TypeOK

LEMMA TypeOKNext == TypeOK /\ [Next]_vars => TypeOK'
<1> SUFFICES ASSUME TypeOK, [Next]_vars PROVE TypeOK'
  OBVIOUS
<1>1. CASE Fresh
  BY <1>1 DEF Fresh, TypeOK
<1>2. ASSUME NEW done, NEW S, Placing(done, S) PROVE TypeOK'
  <2>1. ASSUME NEW p \in Platforms
        PROVE  /\ velPIDs'[p] \in SUBSET Readings
               /\ \A r \in velPIDs'[p] : r.of = p /\ task' # "direct"
    <3>1. velPIDs'[p] = {} \/ velPIDs'[p] = Aged(velPIDs[p], S)
      BY <1>2 DEF Placing
    <3>2. velPIDs[p] \in SUBSET Readings
      BY DEF TypeOK
    <3>3. \A r \in Aged(velPIDs[p], S) : r \in Readings /\ \E q \in velPIDs[p] : r.of = q.of
      BY <3>2, AgedReadings
    <3>4. task' = task \/ velPIDs'[p] = {}
      BY <1>2 DEF Placing
    <3>5. QED
      BY <3>1, <3>3, <3>4 DEF TypeOK
  <2>2. ASSUME NEW c \in Shared PROVE Aged(shared[c], S) \in SUBSET Readings
    BY AgedReadings DEF TypeOK
  <2>3. velPIDs' \in [Platforms -> SUBSET Readings]
    BY <1>2, <2>1 DEF Placing
  <2>4. shared' \in [Shared -> SUBSET Readings]
    BY <1>2, <2>2 DEF Placing
  <2>5. /\ served' \in BOOLEAN /\ task' \in Tasks
        /\ valid' \in [Platforms -> BOOLEAN] /\ put' \subseteq Platforms
        /\ ready' \in BOOLEAN /\ made' \subseteq Platforms
        /\ bare' \subseteq Platforms \ made' /\ \A p \in bare' : ~valid'[p]
    BY <1>2 DEF Placing, TypeOK
  <2>6. ASSUME ~served', NEW c \in Shared PROVE shared'[c] = {}
    BY <1>2, <2>6 DEF Placing, TypeOK, Aged
  <2>7. QED
    BY <2>1, <2>3, <2>4, <2>5, <2>6 DEF TypeOK
<1>3. CASE Flying
  <2>1. ASSUME NEW p \in Platforms, NEW r \in velPIDs'[p]
        PROVE  r.of = p /\ task' # "direct"
    <3>1. r \in velPIDs[p] \/ r \in Fed(p)
      BY <1>3 DEF Flying
    <3>2. r.of = p
      BY <3>1, FedReading DEF TypeOK
    <3>3. velPIDs' = velPIDs \/ task # "direct"
      BY <1>3 DEF Flying
    <3>4. QED
      BY <1>3, <3>2, <3>3 DEF Flying, TypeOK
  <2>2. QED
    BY <1>3, <2>1 DEF Flying, TypeOK
<1>4. QED
  BY <1>1, <1>2, <1>3, Groups

(* The state of the controllers and the platforms is well typed, and the   *)
(* controllers of a task remember their own platform only.                 *)
THEOREM TypeCorrect == Spec => []TypeOK
<1>1. QED
  BY TypeOKInit, TypeOKNext, PTL DEF Spec

-----------------------------------------------------------------------------
(* The three safety properties, each inductive next to the types.          *)

LEMMA MemoryNext ==
    ASSUME TypeOK, MemoryOfThisFlight, [Next]_vars PROVE MemoryOfThisFlight'
<1>1. CASE Fresh
  BY <1>1 DEF Fresh, MemoryOfThisFlight
<1>2. ASSUME NEW done, NEW S, Placing(done, S) PROVE MemoryOfThisFlight'
  <2>1. ASSUME NEW p \in Platforms, NEW r \in velPIDs'[p], r.from = "before"
        PROVE  p \in put'
    <3>1. r \in Aged(velPIDs[p], S)
      BY <1>2, <2>1 DEF Placing
    <3>2. PICK q \in velPIDs[p] : q.from = "before" \/ q.of \in S
      BY <2>1, <3>1, AgedReadings DEF TypeOK
    <3>3. q.of = p
      BY DEF TypeOK
    <3>4. QED
      BY <1>2, <3>2, <3>3 DEF Placing, MemoryOfThisFlight
  <2>2. ASSUME NEW c \in Shared, NEW r \in shared'[c], r.from = "before"
        PROVE  r.of \in put'
    <3>1. r \in Aged(shared[c], S)
      BY <1>2 DEF Placing
    <3>2. PICK q \in shared[c] : r.of = q.of /\ (q.from = "before" \/ q.of \in S)
      BY <2>2, <3>1, AgedReadings DEF TypeOK
    <3>3. QED
      BY <1>2, <3>2 DEF Placing, MemoryOfThisFlight
  <2>3. QED
    BY <2>1, <2>2 DEF MemoryOfThisFlight
<1>3. CASE Flying
  <2>1. ASSUME NEW p \in Platforms, NEW r \in velPIDs'[p], r.from = "before"
        PROVE  p \in put'
    <3>1. r \in velPIDs[p] \/ r \in Fed(p)
      BY <1>3 DEF Flying
    <3>2. r \in velPIDs[p]
      BY <2>1, <3>1, FedReading
    <3>3. QED
      BY <1>3, <2>1, <3>2 DEF Flying, MemoryOfThisFlight
  <2>2. ASSUME NEW c \in Shared, NEW r \in shared'[c], r.from = "before"
        PROVE  r.of \in put'
    <3>1. r \in shared[c] \/ \E p \in Platforms : r = Reading(p)
      BY <1>3 DEF Flying
    <3>2. r \in shared[c]
      BY <2>2, <3>1, NewReading
    <3>3. QED
      BY <1>3, <2>2, <3>2 DEF Flying, MemoryOfThisFlight
  <2>3. QED
    BY <2>1, <2>2 DEF MemoryOfThisFlight
<1>4. QED
  BY <1>1, <1>2, <1>3, Groups

(* Whatever resets and inits threw on the way, a controller of a task or of *)
(* the server only remembers an earlier flight of a platform that was       *)
(* placed since a reset or init last returned.                              *)
THEOREM MemoryForgets == Spec => []MemoryOfThisFlight
<1>1. Init => MemoryOfThisFlight
  BY DEF Init, MemoryOfThisFlight
<1>2. TypeOK /\ MemoryOfThisFlight /\ [Next]_vars => MemoryOfThisFlight'
  BY MemoryNext
<1>3. QED
  BY <1>1, <1>2, TypeCorrect, PTL DEF Spec

LEMMA ContainedNext ==
    ASSUME TypeOK, DropoutContained, [Next]_vars PROVE DropoutContained'
<1>1. CASE Fresh
  BY <1>1 DEF Fresh, DropoutContained, Poisoned
<1>2. ASSUME NEW done, NEW S, Placing(done, S),
             NEW p \in Platforms \ put', valid'[p], Poisoned(velPIDs'[p])
      PROVE  task' = "chase" /\ p = Mouse /\ \A c \in Cats \ put' : ~valid'[c]
  <2>1. p \notin put /\ p \notin S /\ valid[p]
    BY <1>2 DEF Placing
  <2>2. Poisoned(velPIDs[p])
    <3>1. PICK r \in velPIDs'[p] : r.from = "nan"
      BY <1>2 DEF Poisoned
    <3>2. r \in Aged(velPIDs[p], S)
      BY <1>2 DEF Placing
    <3>3. \E q \in velPIDs[p] : q.from = "nan"
      BY <3>1, <3>2, AgedReadings DEF TypeOK
    <3>4. QED
      BY <3>3 DEF Poisoned
  <2>3. task = "chase" /\ p = Mouse /\ \A c \in Cats \ put : ~valid[c]
    BY <2>1, <2>2 DEF DropoutContained
  <2>4. ASSUME NEW c \in Cats \ put' PROVE ~valid'[c]
    BY <1>2, <2>3 DEF Placing, Cats
  <2>5. task' = task
    <3>1. velPIDs'[p] # {}
      BY <1>2 DEF Poisoned
    <3>2. QED
      BY <1>2, <3>1 DEF Placing
  <2>6. QED
    BY <2>3, <2>4, <2>5
<1>3. ASSUME Flying,
             NEW p \in Platforms \ put', valid'[p], Poisoned(velPIDs'[p])
      PROVE  task' = "chase" /\ p = Mouse /\ \A c \in Cats \ put' : ~valid'[c]
  <2>1. p \notin put /\ valid[p]
    BY <1>3 DEF Flying
  <2>2. PICK r \in velPIDs'[p] : r.from = "nan"
    BY <1>3 DEF Poisoned
  <2>3. r \in velPIDs[p] \/ r \in Fed(p)
    BY <1>3, <2>2 DEF Flying
  <2>4. task = "chase" /\ p = Mouse /\ \A c \in Cats \ put : ~valid[c]
    <3>1. CASE r \in velPIDs[p]
      BY <2>1, <2>2, <3>1 DEF DropoutContained, Poisoned
    <3>2. CASE r \in Fed(p)
      BY <2>1, <2>2, <3>2, FedReading
    <3>3. QED
      BY <2>3, <3>1, <3>2
  <2>5. ASSUME NEW c \in Cats \ put' PROVE ~valid'[c]
    BY <1>3, <2>4 DEF Flying, Cats
  <2>6. QED
    BY <1>3, <2>4, <2>5 DEF Flying
<1>4. QED
  BY <1>1, <1>2, <1>3, Groups DEF DropoutContained

(* In a task that flies its platforms a dropout never makes the controls   *)
(* of another platform NaN, but for a mouse with no cat left.              *)
THEOREM DropoutsStayHome == Spec => []DropoutContained
<1>1. Init => DropoutContained
  BY DEF Init, DropoutContained, Poisoned
<1>2. TypeOK /\ DropoutContained /\ [Next]_vars => DropoutContained'
  BY ContainedNext
<1>3. QED
  BY <1>1, <1>2, TypeCorrect, PTL DEF Spec

LEMMA TracedNext ==
    ASSUME TypeOK, SharedPoisonTraced, [Next]_vars PROVE SharedPoisonTraced'
<1>1. CASE Fresh
  BY <1>1 DEF Fresh, SharedPoisonTraced
<1>2. ASSUME NEW done, NEW S, Placing(done, S),
             NEW c \in Shared, NEW r \in shared'[c], r.from = "nan"
      PROVE  ~valid'[r.of] \/ r.of \in put'
  <2>1. r \in Aged(shared[c], S)
    BY <1>2 DEF Placing
  <2>2. PICK q \in shared[c] : r.of = q.of /\ q.from = "nan" /\ r \in Readings
    BY <1>2, <2>1, AgedReadings DEF TypeOK
  <2>3. r.of \in Platforms
    BY <2>2 DEF Readings
  <2>4. QED
    BY <1>2, <2>2, <2>3 DEF Placing, SharedPoisonTraced
<1>3. ASSUME Flying, NEW c \in Shared, NEW r \in shared'[c], r.from = "nan"
      PROVE  ~valid'[r.of] \/ r.of \in put'
  <2>1. r \in shared[c] \/ \E p \in Platforms : r = Reading(p)
    BY <1>3 DEF Flying
  <2>2. ~valid[r.of] \/ r.of \in put
    BY <1>3, <2>1, NewReading DEF SharedPoisonTraced
  <2>3. r \in Readings
    BY <1>3 DEF Flying
  <2>4. r.of \in Platforms
    BY <2>3 DEF Readings
  <2>5. QED
    BY <1>3, <2>2, <2>4 DEF Flying
<1>4. QED
  BY <1>1, <1>2, <1>3, Groups DEF SharedPoisonTraced

(* A NaN in a controller of the server comes from a UAV that is out or     *)
(* bare, or was until a RESET or INIT that threw put it back.              *)
THEOREM SharedPoisonHasSource == Spec => []SharedPoisonTraced
<1>1. Init => SharedPoisonTraced
  BY DEF Init, SharedPoisonTraced
<1>2. TypeOK /\ SharedPoisonTraced /\ [Next]_vars => SharedPoisonTraced'
  BY TracedNext
<1>3. QED
  BY <1>1, <1>2, TypeCorrect, PTL DEF Spec
=============================================================================
