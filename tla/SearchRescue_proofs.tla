------------------------ MODULE SearchRescue_proofs ------------------------
(***************************************************************************)
(* Theorems about SearchRescue, for any number of platforms and persons    *)
(* and any dt's of the task and the area: types, the accounting of the     *)
(* persons found, and that a finding is only lost to a caller who skips a   *)
(* reward.                                                                 *)
(***************************************************************************)
EXTENDS SearchRescue, FiniteSetTheorems, TLAPS

\* What the provers need of the assumption on the constants.
LEMMA Constants ==
    /\ N \in Nat \ {0} /\ TaskDt \in Nat \ {0} /\ AreaDt \in Nat \ {0}
    /\ TaskDt <= AreaDt
    /\ IsFiniteSet(Uavs)
<1>1. N \in Nat \ {0} /\ TaskDt \in Nat \ {0} /\ AreaDt \in Nat \ {0}
  BY SearchAssumption
<1>2. AreaDt % TaskDt = 0
  BY SearchAssumption
<1>3. TaskDt <= AreaDt
  BY <1>1, <1>2, SMT
<1>4. IsFiniteSet(Uavs)
  BY <1>1, FS_Interval DEF Uavs
<1>5. QED
  BY <1>1, <1>3, <1>4

(* A person is among the findings exactly if some platform found it.       *)
LEMMA Found ==
    ASSUME NEW S, NEW pairs \in SUBSET (Uavs \X S)
    PROVE  /\ In(pairs) \subseteq S
           /\ \A p : p \in In(pairs) <=> \E i \in Uavs : <<i, p>> \in pairs
<1>1. \A x \in pairs : x = <<x[1], x[2]>> /\ x[1] \in Uavs /\ x[2] \in S
  OBVIOUS
<1>2. \A p : p \in In(pairs) <=> \E x \in pairs : p = x[2]
  BY DEF In
<1>3. ASSUME NEW p PROVE p \in In(pairs) <=> \E i \in Uavs : <<i, p>> \in pairs
  <2>1. ASSUME p \in In(pairs) PROVE \E i \in Uavs : <<i, p>> \in pairs
    <3>1. PICK x \in pairs : p = x[2]
      BY <1>2, <2>1
    <3>2. <<x[1], p>> \in pairs /\ x[1] \in Uavs
      BY <1>1, <3>1
    <3>3. QED
      BY <3>2
  <2>2. ASSUME NEW i \in Uavs, <<i, p>> \in pairs PROVE p \in In(pairs)
    <3>1. p = <<i, p>>[2]
      OBVIOUS
    <3>2. QED
      BY <1>2, <2>2, <3>1
  <2>3. QED
    BY <2>1, <2>2
<1>4. QED
  BY <1>1, <1>2, <1>3

(* Counting the platforms that found a person.                             *)
Finders(p) == {i \in Uavs : <<i, p>> \in pjf}

LEMMA FinderCount ==
    ASSUME TypeOK, NEW p \in People
    PROVE  /\ Cardinality(Finders(p)) \in Nat
           /\ Cardinality(Finders(p)) > 0 <=> p \in In(pjf)
<1>1. IsFiniteSet(Finders(p))
  BY Constants, FS_Subset DEF Finders
<1>2. Cardinality(Finders(p)) \in Nat
  BY <1>1, FS_CardinalityType
<1>3. Cardinality(Finders(p)) = 0 <=> Finders(p) = {}
  BY <1>1, FS_EmptySet
<1>4. pjf \in SUBSET (Uavs \X persons)
  BY DEF TypeOK
<1>5. Finders(p) = {} <=> p \notin In(pjf)
  BY <1>4, Found DEF Finders
<1>6. QED
  BY <1>2, <1>3, <1>5

(* What an update of the area adds has not been found before.              *)
LEMMA JustFoundIsNew ==
    ASSUME TypeOK
    PROVE  /\ JustFound(over) \subseteq Uavs \X persons
           /\ In(JustFound(over)) \subseteq persons \ found
<1>1. JustFound(over) \in SUBSET (Uavs \X persons)
  BY DEF JustFound
<1>2. \A x \in JustFound(over) : x[2] \in persons /\ x[2] \notin found
  BY DEF JustFound
<1>3. QED
  BY <1>1, <1>2 DEF In

-----------------------------------------------------------------------------
(* Types.                                                                  *)

LEMMA TypeOKInit == Init => TypeOK
<1> SUFFICES ASSUME Init PROVE TypeOK
  OBVIOUS
<1>1. /\ persons \subseteq People /\ found = {} /\ pjf = {} /\ dropped = {}
      /\ paid \in [People -> Nat] /\ skipped \in BOOLEAN
  BY DEF Init
<1>2. /\ over \in [Uavs -> SUBSET persons] /\ valid \in [Uavs -> BOOLEAN]
      /\ boot \in [Uavs -> 1 .. 2]
  BY DEF Init
<1>3. t \in 0 .. AreaDt - 1 /\ left \in 0 .. TaskDt
  BY Constants DEF Init
<1>4. QED
  BY <1>1, <1>2, <1>3 DEF TypeOK

LEMMA UpdateType ==
    ASSUME TypeOK, UpdateArea, persons' = persons
    PROVE  /\ found' \subseteq persons /\ dropped' \subseteq persons
           /\ pjf' \subseteq Uavs \X persons
<1>1. In(pjf) \subseteq persons
  BY Found DEF TypeOK
<1>2. QED
  BY <1>1, JustFoundIsNew DEF UpdateArea, TypeOK

LEMMA TypeOKNext == TypeOK /\ [Next]_vars => TypeOK'
<1> SUFFICES ASSUME TypeOK, [Next]_vars PROVE TypeOK'
  OBVIOUS
<1> USE Constants
<1>1. CASE InitAgain \/ Reset
  <2>1. NewPersons /\ PlacedFarAway /\ t' = 0 /\ UNCHANGED left
    BY <1>1 DEF InitAgain, Reset
  <2>2. /\ persons' \subseteq People /\ found' = {} /\ pjf' = {} /\ dropped' = {}
        /\ paid' \in [People -> Nat] /\ skipped' \in BOOLEAN
    BY <2>1 DEF NewPersons
  <2>3. over' \in [Uavs -> SUBSET persons'] /\ valid' \in [Uavs -> BOOLEAN]
    BY <2>1 DEF PlacedFarAway
  <2>4. boot' \in [Uavs -> 1 .. 2]
    BY <1>1 DEF InitAgain, Reset
  <2>5. t' \in 0 .. AreaDt - 1 /\ left' \in 0 .. TaskDt
    BY <2>1 DEF TypeOK
  <2>6. QED
    BY <2>2, <2>3, <2>4, <2>5 DEF TypeOK
<1>2. ASSUME NEW i \in Uavs, NEW o \in SUBSET People, SetX(i, o) PROVE TypeOK'
  BY <1>2 DEF SetX, TypeOK
<1>3. CASE BeginStep
  BY <1>3 DEF BeginStep, TypeOK
<1>4. ASSUME NEW o \in [Uavs -> SUBSET persons], NEW v \in [Uavs -> BOOLEAN],
             Tick(o, v) \/ \E i \in Uavs : TickThrows(i, o, v)
      PROVE  TypeOK'
  <2>1. UpdateArea /\ persons' = persons
    BY <1>4 DEF Tick, TickThrows
  <2>2. found' \subseteq persons /\ dropped' \subseteq persons /\ pjf' \subseteq Uavs \X persons
    BY <2>1, UpdateType
  <2>3. t' = (t + 1) % AreaDt /\ left' \in {0, left - 1} /\ left > 0
    BY <1>4 DEF Tick, TickThrows
  <2>4. t' \in 0 .. AreaDt - 1 /\ left' \in 0 .. TaskDt
    BY <2>3 DEF TypeOK
  <2>5. over' = o /\ valid' = v /\ UNCHANGED <<boot, paid, skipped>>
    BY <1>4 DEF Tick, TickThrows
  <2>6. QED
    BY <2>1, <2>2, <2>4, <2>5 DEF TypeOK
<1>5. CASE Reward
  <2>1. paid' = [p \in People |-> paid[p] + Cardinality(Finders(p))]
    BY <1>5 DEF Reward, Collect, Finders
  <2>2. paid' \in [People -> Nat]
    BY <2>1, FinderCount DEF TypeOK
  <2>3. QED
    BY <1>5, <2>2 DEF Reward, Collect, TypeOK
<1>6. CASE UNCHANGED vars
  BY <1>6 DEF vars, TypeOK
<1>7. QED
  BY <1>1, <1>2, <1>3, <1>4, <1>5, <1>6 DEF Next

(* Whatever calls are made, the area, the task and the platforms stay within *)
(* their types: in particular nobody is found who is not there.             *)
THEOREM TypeCorrect == Spec => []TypeOK
  BY TypeOKInit, TypeOKNext, PTL DEF Spec

-----------------------------------------------------------------------------
(* Accounting.                                                             *)

(* An update keeps the account: what is new joins the findings, what was   *)
(* unread is dropped.                                                      *)
LEMMA UpdateAccounts ==
    ASSUME TypeOK, EveryFindAccounted, UpdateArea, UNCHANGED <<persons, paid>>
    PROVE  EveryFindAccounted'
<1>1. CASE IsDue(t + 1)
  <2>1. In(JustFound(over)) \cap found = {}
    BY JustFoundIsNew
  <2>2. /\ In(pjf') = In(JustFound(over))
        /\ found' = found \cup In(JustFound(over))
        /\ dropped' = dropped \cup In(pjf)
        /\ Paid' = Paid
    BY <1>1 DEF UpdateArea, Paid
  <2>3. QED
    BY <2>1, <2>2 DEF EveryFindAccounted
<1>2. CASE ~IsDue(t + 1)
  BY <1>2 DEF UpdateArea, EveryFindAccounted, Paid
<1>3. QED
  BY <1>1, <1>2

(* A reward pays exactly the findings that were waiting.                   *)
LEMMA RewardAccounts == TypeOK /\ EveryFindAccounted /\ Reward => EveryFindAccounted'
<1> SUFFICES ASSUME TypeOK, EveryFindAccounted, Reward PROVE EveryFindAccounted'
  OBVIOUS
<1>1. paid' = [p \in People |-> paid[p] + Cardinality(Finders(p))]
  BY DEF Reward, Collect, Finders
<1>2. \A p \in People : paid'[p] > 0 <=> paid[p] > 0 \/ p \in In(pjf)
  BY <1>1, FinderCount DEF TypeOK
<1>3. In(pjf) \subseteq People
  BY Found DEF TypeOK
<1>4. Paid' = Paid \cup In(pjf)
  BY <1>2, <1>3 DEF Paid
<1>5. In(pjf') = {}
  BY DEF Reward, Collect, In
<1>6. QED
  BY <1>4, <1>5 DEF Reward, EveryFindAccounted

LEMMA AccountInit == Init => EveryFindAccounted
  BY DEF Init, EveryFindAccounted, Paid, In

LEMMA AccountNext == TypeOK /\ EveryFindAccounted /\ [Next]_vars => EveryFindAccounted'
<1> SUFFICES ASSUME TypeOK, EveryFindAccounted, [Next]_vars PROVE EveryFindAccounted'
  OBVIOUS
<1>1. CASE InitAgain \/ Reset
  BY <1>1 DEF InitAgain, Reset, NewPersons, EveryFindAccounted, Paid, In
<1>2. CASE \/ \E i \in Uavs, o \in SUBSET People : SetX(i, o)
           \/ BeginStep \/ UNCHANGED vars
  <2>1. UNCHANGED <<found, pjf, paid, dropped>>
    BY <1>2 DEF SetX, BeginStep, vars
  <2>2. QED
    BY <2>1 DEF EveryFindAccounted, Paid
<1>3. ASSUME NEW o, NEW v, Tick(o, v) \/ \E i \in Uavs : TickThrows(i, o, v)
      PROVE  EveryFindAccounted'
  BY <1>3, UpdateAccounts DEF Tick, TickThrows
<1>4. CASE Reward
  BY <1>4, RewardAccounts
<1>5. QED
  BY <1>1, <1>2, <1>3, <1>4 DEF Next

(* Every person marked as found is paid for in one reward, waits to be, or  *)
(* was overwritten unread: with any number of platforms over any number of *)
(* persons, and whatever the camera or the caller breaks off.              *)
THEOREM FindsAccounted == Spec => []EveryFindAccounted
<1>1. Init => TypeOK /\ EveryFindAccounted
  BY TypeOKInit, AccountInit
<1>2. TypeOK /\ EveryFindAccounted /\ [Next]_vars => (TypeOK /\ EveryFindAccounted)'
  BY TypeOKNext, AccountNext
<1>3. QED
  BY <1>1, <1>2, PTL DEF Spec

-----------------------------------------------------------------------------
(* Losses.                                                                 *)

(* Findings that nobody has had the chance to read are those of the step   *)
(* that is running, or has just been cut short: it ends before the area is *)
(* updated again.                                                          *)
ReadInTime == pjf # {} /\ ~skipped => t + left < AreaDt

LEMMA NextUpdate ==
    ASSUME TypeOK, left > 0
    PROVE  /\ IsDue(t + 1) <=> t + 1 = AreaDt
           /\ (t + 1) % AreaDt = IF t + 1 = AreaDt THEN 0 ELSE t + 1
<1>1. t \in Nat /\ t + 1 <= AreaDt /\ AreaDt \in Nat \ {0}
  BY Constants DEF TypeOK
<1>2. CASE t + 1 = AreaDt
  <2>1. (t + 1) % AreaDt = 0
    BY <1>1, <1>2
  <2>2. QED
    BY <1>2, <2>1 DEF IsDue
<1>3. CASE t + 1 < AreaDt
  <2>1. (t + 1) % AreaDt = t + 1
    BY <1>1, <1>3
  <2>2. QED
    BY <1>1, <1>3, <2>1 DEF IsDue
<1>4. QED
  BY <1>1, <1>2, <1>3

LEMMA LossInit == Init => ReadInTime /\ NoFindLost
  BY DEF Init, ReadInTime, NoFindLost

LEMMA LossNext ==
    TypeOK /\ ReadInTime /\ NoFindLost /\ [Next]_vars => (ReadInTime /\ NoFindLost)'
<1> SUFFICES ASSUME TypeOK, ReadInTime, NoFindLost, [Next]_vars
             PROVE  (ReadInTime /\ NoFindLost)'
  OBVIOUS
<1>1. CASE InitAgain \/ Reset
  BY <1>1 DEF InitAgain, Reset, NewPersons, ReadInTime, NoFindLost
<1>2. CASE (\E i \in Uavs, o \in SUBSET People : SetX(i, o)) \/ UNCHANGED vars
  BY <1>2 DEF SetX, vars, ReadInTime, NoFindLost
<1>3. CASE BeginStep
  BY <1>3 DEF BeginStep, ReadInTime, NoFindLost
<1>4. ASSUME NEW o, NEW v, Tick(o, v) \/ \E i \in Uavs : TickThrows(i, o, v)
      PROVE  (ReadInTime /\ NoFindLost)'
  <2>1. /\ left > 0 /\ UpdateArea /\ skipped' = skipped
        /\ t' = (t + 1) % AreaDt /\ (left' = 0 \/ left' = left - 1)
    BY <1>4 DEF Tick, TickThrows
  <2>2. t \in Nat /\ t + 1 <= AreaDt /\ left \in Nat /\ left <= AreaDt /\ AreaDt \in Nat
    BY Constants DEF TypeOK
  <2>3. CASE t + 1 = AreaDt
    <3>1. t' = 0 /\ dropped' = dropped \cup In(pjf)
      BY <2>1, <2>3, NextUpdate DEF UpdateArea
    <3>2. t' + left' < AreaDt
      BY <2>1, <2>2, <3>1
    <3>3. pjf # {} => skipped
      BY <2>1, <2>2, <2>3 DEF ReadInTime
    <3>4. pjf = {} => dropped' = dropped
      BY <3>1 DEF In
    <3>5. QED
      BY <2>1, <3>2, <3>3, <3>4 DEF ReadInTime, NoFindLost
  <2>4. CASE t + 1 # AreaDt
    <3>1. t' = t + 1 /\ pjf' = pjf /\ dropped' = dropped
      BY <2>1, <2>4, NextUpdate DEF UpdateArea
    <3>2. ASSUME pjf' # {}, ~skipped' PROVE t' + left' < AreaDt
      <4>1. t + left < AreaDt
        BY <2>1, <3>1, <3>2 DEF ReadInTime
      <4>2. CASE left' = 0
        BY <2>2, <2>4, <3>1, <4>2
      <4>3. CASE left' = left - 1
        BY <2>2, <3>1, <4>1, <4>3
      <4>4. QED
        BY <2>1, <4>2, <4>3
    <3>3. dropped' # {} => skipped'
      BY <2>1, <3>1 DEF NoFindLost
    <3>4. QED
      BY <3>2, <3>3 DEF ReadInTime, NoFindLost
  <2>5. QED
    BY <2>3, <2>4
<1>5. CASE Reward
  BY <1>5 DEF Reward, Collect, ReadInTime, NoFindLost
<1>6. QED
  BY <1>1, <1>2, <1>3, <1>4, <1>5 DEF Next

(* For every dt of the area that is a multiple of that of the task, a       *)
(* caller who takes the reward after every step loses no finding.          *)
THEOREM OnlySkippersLose == Spec => []NoFindLost
<1> DEFINE Inv == TypeOK /\ ReadInTime /\ NoFindLost
<1>1. Init => Inv
  BY TypeOKInit, LossInit
<1>2. Inv /\ [Next]_vars => Inv'
  BY TypeOKNext, LossNext
<1>3. QED
  BY <1>1, <1>2, PTL DEF Spec

-----------------------------------------------------------------------------
(* The ledger.                                                             *)

(* The five fates, of one person, now and in the next state.               *)
LEMMA FateOf ==
    ASSUME NEW p \in People
    PROVE  Fate[p] = IF p \notin persons THEN "absent"
                     ELSE IF paid[p] > 0 THEN "paid"
                     ELSE IF p \in In(pjf) THEN "unread"
                     ELSE IF p \in dropped THEN "lost"
                     ELSE "hidden"
  BY DEF Fate, Paid

LEMMA NextFateOf ==
    ASSUME NEW p \in People
    PROVE  Fate'[p] = IF p \notin persons' THEN "absent"
                      ELSE IF paid'[p] > 0 THEN "paid"
                      ELSE IF p \in In(pjf') THEN "unread"
                      ELSE IF p \in dropped' THEN "lost"
                      ELSE "hidden"
  BY DEF Fate, Paid, In

LEMMA FateDomain == Fate = [p \in People |-> Fate[p]] /\ Fate' = [p \in People |-> Fate'[p]]
  BY DEF Fate

(* What an account that is in order says of one person.                    *)
LEMMA OneAccount ==
    ASSUME TypeOK, EveryFindAccounted, NEW p \in People
    PROVE  /\ p \in found <=> paid[p] > 0 \/ p \in In(pjf) \/ p \in dropped
           /\ ~(paid[p] > 0 /\ p \in In(pjf)) /\ ~(paid[p] > 0 /\ p \in dropped)
           /\ ~(p \in In(pjf) /\ p \in dropped)
           /\ p \in found => p \in persons
<1>1. p \in Paid <=> paid[p] > 0
  BY DEF Paid
<1>2. found \subseteq persons
  BY DEF TypeOK
<1> QED BY <1>1, <1>2 DEF EveryFindAccounted

(* Another episode opens another ledger.                                   *)
LEMMA EpisodeOpens == InitAgain \/ Reset => Promise!Opens
<1> SUFFICES ASSUME NewPersons PROVE Promise!Opens
  BY DEF InitAgain, Reset
<1>1. paid' = [p \in People |-> 0] /\ In(pjf') = {} /\ dropped' = {}
  BY DEF NewPersons, In
<1>2. \A p \in People : Fate'[p] \in {"absent", "hidden"}
  BY <1>1, NextFateOf
<1>3. Fate' \in [People -> {"absent", "hidden"}]
  BY <1>2, FateDomain
<1> QED BY <1>1, <1>3 DEF Promise!Opens, Promise!LedgerInit

(* An update of the area finds who was hidden, and loses what is unread.   *)
LEMMA UpdateFinds ==
    ASSUME TypeOK, EveryFindAccounted, UpdateArea, IsDue(t + 1), UNCHANGED <<persons, paid>>
    PROVE  Promise!Finds(In(JustFound(over)))
<1> DEFINE S == In(JustFound(over))
<1>1. pjf' = JustFound(over) /\ dropped' = dropped \cup In(pjf)
  BY DEF UpdateArea
<1>2. S \subseteq persons \ found
  BY JustFoundIsNew
<1>3. In(pjf') = S
  BY <1>1
<1> HIDE DEF S
<1>4. ASSUME NEW p \in People
      PROVE  /\ p \in S => Fate[p] = "hidden"
             /\ Fate'[p] = IF p \in S THEN "unread"
                           ELSE IF Fate[p] = "unread" THEN "lost" ELSE Fate[p]
  <2>1. p \in S => p \in persons /\ p \notin found
    BY <1>2
  <2>2. Fate'[p] = IF p \notin persons THEN "absent"
                   ELSE IF paid[p] > 0 THEN "paid"
                   ELSE IF p \in S THEN "unread"
                   ELSE IF p \in dropped \cup In(pjf) THEN "lost"
                   ELSE "hidden"
    BY <1>1, <1>3, NextFateOf
  <2> QED BY <2>1, <2>2, FateOf, OneAccount
<1>5. \A p \in S : p \in People
  BY <1>2 DEF TypeOK
<1>6. Promise!Finds(S)
  BY <1>4, <1>5, FateDomain DEF Promise!Finds
<1> QED BY <1>6 DEF S

(* A reward pays for what is unread, and for nothing else.                 *)
LEMMA RewardPays ==
    ASSUME TypeOK, EveryFindAccounted, Reward
    PROVE  Promise!Pays
<1>1. /\ paid' = [p \in People |-> paid[p] + Cardinality(Finders(p))]
      /\ UNCHANGED <<persons, dropped>>
  BY DEF Reward, Collect, Finders
<1>2. In(pjf') = {}
  BY DEF Reward, Collect, In
<1>3. ASSUME NEW p \in People
      PROVE  /\ paid[p] \in Nat /\ paid'[p] \in Nat
             /\ p \in In(pjf) => paid'[p] > 0
             /\ p \notin In(pjf) => paid'[p] = paid[p]
  <2>1. paid[p] \in Nat
    BY DEF TypeOK
  <2>2. /\ Cardinality(Finders(p)) \in Nat
        /\ Cardinality(Finders(p)) > 0 <=> p \in In(pjf)
    BY FinderCount
  <2>3. paid'[p] = paid[p] + Cardinality(Finders(p))
    BY <1>1
  <2> QED BY <2>1, <2>2, <2>3
<1>4. ASSUME NEW p \in People
      PROVE  /\ Fate[p] = "unread" <=> p \in In(pjf)
             /\ Fate'[p] = IF Fate[p] = "unread" THEN "paid" ELSE Fate[p]
  <2>1. p \in In(pjf) => p \in persons /\ paid[p] = 0 /\ p \notin dropped
    BY <1>3, OneAccount
  <2>2. Fate'[p] = IF p \notin persons THEN "absent"
                   ELSE IF paid'[p] > 0 THEN "paid"
                   ELSE IF p \in dropped THEN "lost"
                   ELSE "hidden"
    BY <1>1, <1>2, NextFateOf
  <2>3. CASE p \in In(pjf)
    BY <1>3, <2>1, <2>2, <2>3, FateOf
  <2>4. CASE p \notin In(pjf)
    BY <1>3, <2>2, <2>4, FateOf
  <2> QED BY <2>3, <2>4
<1>5. paid' \in [People -> Nat]
  BY <1>1, <1>3
<1>6. Fate' = [p \in People |-> IF Fate[p] = "unread" THEN "paid" ELSE Fate[p]]
  BY <1>4, FateDomain
<1> QED BY <1>3, <1>4, <1>5, <1>6 DEF Promise!Pays

(* Every step is one of the ledger or leaves it alone.                     *)
LEMMA LedgerStep ==
    ASSUME TypeOK, EveryFindAccounted, [Next]_vars
    PROVE  [Promise!LedgerNext]_(Promise!ledgerVars)
<1>1. ASSUME UNCHANGED <<persons, pjf, paid, dropped>>
      PROVE  UNCHANGED Promise!ledgerVars
  BY <1>1 DEF Promise!ledgerVars, Fate, Paid, In
<1>2. CASE InitAgain \/ Reset
  BY <1>2, EpisodeOpens DEF Promise!LedgerNext
<1>3. CASE \/ \E i \in Uavs, o \in SUBSET People : SetX(i, o)
           \/ BeginStep \/ UNCHANGED vars
  BY <1>1, <1>3 DEF SetX, BeginStep, vars
<1>4. ASSUME NEW o, NEW v, Tick(o, v) \/ \E i \in Uavs : TickThrows(i, o, v)
      PROVE  [Promise!LedgerNext]_(Promise!ledgerVars)
  <2>1. UpdateArea /\ UNCHANGED <<persons, paid>>
    BY <1>4 DEF Tick, TickThrows
  <2>2. CASE IsDue(t + 1)
    <3>1. In(JustFound(over)) \in SUBSET People
      BY JustFoundIsNew DEF TypeOK
    <3> QED BY <2>1, <2>2, <3>1, UpdateFinds DEF Promise!LedgerNext
  <2>3. CASE ~IsDue(t + 1)
    BY <1>1, <2>1, <2>3 DEF UpdateArea
  <2> QED BY <2>2, <2>3
<1>5. CASE Reward
  BY <1>5, RewardPays DEF Promise!LedgerNext
<1> QED BY <1>2, <1>3, <1>4, <1>5 DEF Next

LEMMA LedgerOpens == Init => Promise!LedgerInit
<1> SUFFICES ASSUME Init PROVE Promise!LedgerInit
  OBVIOUS
<1>1. paid = [p \in People |-> 0] /\ In(pjf) = {} /\ dropped = {}
  BY DEF Init, In
<1>2. \A p \in People : Fate[p] \in {"absent", "hidden"}
  BY <1>1, FateOf
<1> QED BY <1>1, <1>2, FateDomain DEF Promise!LedgerInit

(* The tasks keep a ledger: with any number of platforms over any number   *)
(* of persons, and whatever is broken off, no finding is settled twice and *)
(* nothing but another episode changes what was paid for it.               *)
THEOREM LedgerKept == Spec => SettledOnce
<1>1. Init => Promise!LedgerInit
  BY LedgerOpens
<1>2. TypeOK /\ EveryFindAccounted /\ [Next]_vars =>
          [Promise!LedgerNext]_(Promise!ledgerVars)
  BY LedgerStep
<1> QED BY <1>1, <1>2, TypeCorrect, FindsAccounted, PTL
        DEF Spec, SettledOnce, Promise!LedgerSpec
=============================================================================
