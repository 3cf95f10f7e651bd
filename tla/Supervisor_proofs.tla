-------------------------- MODULE Supervisor_proofs --------------------------
(***************************************************************************)
(* What the recovery policy promises for any limits, periods and number of  *)
(* crashes: the types, the budgets, the second observation and the grace.   *)
(* The proofs follow the attempts from the decision in fault() to the file. *)
(***************************************************************************)
EXTENDS Supervisor, FiniteSetTheorems, TLAPS

Alive == pc # "down"

\* The streak is never longer than what was observed, and the repair decided on
\* is the one observed.
Confirmed ==
    /\ consecutive > 0 => previous = observed.kind /\ consecutive <= observed.times
    /\ pc \in {"save", "repair"} /\ repairing # "capture_misrouted"
         => observed = [kind |-> repairing, times |-> 2]

\* No attempt is made that the file does not hold, and none is forgotten while
\* it counts.
Recorded ==
    \A b \in Budgets : /\ attempts[b] \subseteq stored[b]
                       /\ Alive => attempts[b] \subseteq budget[b]

\* The repair decided on is in its budget, then in the file.
Pending ==
    pc \in {"save", "repair"} =>
        /\ repairing \in Repairable \ {"none"}
        /\ repairing \notin Routes => settle = 0
        /\ 0 \in budget[BudgetOf(repairing)]
        /\ pc = "repair" => 0 \in stored[BudgetOf(repairing)]

Within(ages, b) == Cardinality(ages) <= Limit(b)

WithinLimits ==
    \A b \in Budgets : Within(stored[b], b) /\ (Alive => Within(budget[b], b))

\* Every destructive repair is SETTLE old by the time the settling time is over.
Rested == Alive => \A a \in attempts["repair"] : a + settle >= SETTLE

IInv == TypeOK /\ Confirmed /\ Recorded /\ Pending /\ WithinLimits /\ Rested

-----------------------------------------------------------------------------
(* Sets of ages *)

\* Every budget is finite.
LEMMA AgesFinite ==
    ASSUME NEW S \in Ages
    PROVE  IsFiniteSet(S)
<1>1. IsFiniteSet(0 .. WINDOW - 1)
  BY FS_Interval, SupervisorAssumption
<1> QED
  BY <1>1, FS_Subset DEF Ages

\* Time passes, and no budget fills up by it.
LEMMA AgedWithin ==
    ASSUME NEW S \in Ages
    PROVE  /\ Aged(S) \in Ages
           /\ Cardinality(Aged(S)) <= Cardinality(S)
<1> DEFINE younger == [a \in Aged(S) |-> a - 1]
<1>1. Aged(S) \in Ages
  BY SupervisorAssumption DEF Aged, Ages, Recent
<1>2. \A a \in Aged(S) : a \in Int /\ a - 1 \in S
  BY SupervisorAssumption DEF Aged, Ages, Recent
<1>3. younger \in Injection(Aged(S), S)
  <2>1. younger \in [Aged(S) -> S]
    BY <1>2
  <2>2. \A a, c \in Aged(S) : younger[a] = younger[c] => a = c
    BY <1>2
  <2> QED
    BY <2>1, <2>2 DEF Injection, IsInjective
<1>4. Cardinality(Aged(S)) <= Cardinality(S)
  <2> HIDE DEF younger
  <2> QED
    BY <1>3, AgesFinite, FS_Injection
<1> QED
  BY <1>1, <1>4

\* What was recorded stays recorded as it ages.
LEMMA AgedRecorded ==
    ASSUME NEW S \in Ages, NEW T \in Ages, S \subseteq T
    PROVE  Aged(S) \subseteq Aged(T)
BY DEF Aged, Recent

\* A budget with room has room for one more attempt.
LEMMA RoomForOne ==
    ASSUME NEW S \in Ages, NEW limit \in Nat, Cardinality(S) < limit
    PROVE  Cardinality(S \union {0}) <= limit
<1>1. IsFiniteSet(S)
  BY AgesFinite
<1>2. Cardinality(S) \in Nat
  BY <1>1, FS_CardinalityType
<1>3. Cardinality(S \union {0}) = IF 0 \in S THEN Cardinality(S) ELSE Cardinality(S) + 1
  BY <1>1, FS_AddElement
<1> QED
  BY <1>2, <1>3

\* Every limit is a number, every finding has its budget.
LEMMA Limits == \A b \in Budgets : Limit(b) \in Nat /\ Limit(b) > 0
BY SupervisorAssumption DEF Limit

LEMMA BudgetOfKind == \A kind : BudgetOf(kind) \in Budgets
BY DEF BudgetOf, Budgets

-----------------------------------------------------------------------------

\* The initial state satisfies the inductive invariant.
LEMMA InitIInv == Init => IInv
<1> SUFFICES ASSUME Init PROVE IInv
  OBVIOUS
<1> USE SupervisorAssumption DEF Init
<1>1. TypeOK
  BY DEF TypeOK, Longest, Ages, Unobserved, Kinds
<1>2. Cardinality({}) = 0
  BY FS_EmptySet
<1>3. Recorded
  BY DEF Recorded, Budgets
<1>4. WithinLimits
  BY <1>2, Limits DEF WithinLimits, Within
<1> QED
  BY <1>1, <1>3, <1>4 DEF IInv, Confirmed, Pending, Rested, Budgets, Unobserved

-----------------------------------------------------------------------------
(* Steps that decide nothing and repair nothing *)

\* What a tick may do to the streak besides a finding: end it, or begin it anew.
StreakEnds == consecutive' = 0 \/ (UNCHANGED <<consecutive, previous>>)

LEMMA QuietStep ==
    ASSUME IInv, Alive, pc' \notin {"save", "repair", "down"}, TypeOK', StreakEnds,
           UNCHANGED <<observed, budget, stored, attempts>>,
           settle' = settle \/ settle' = SETTLE
    PROVE  IInv'
<1> USE DEF IInv
<1>1. Confirmed'
  BY DEF Confirmed, StreakEnds, TypeOK
<1>2. Recorded'
  BY DEF Recorded, Alive
<1>3. WithinLimits'
  BY DEF WithinLimits, Alive, Within
<1>4. Rested'
  BY SupervisorAssumption DEF Rested, Alive, TypeOK, Ages, Budgets
<1> QED
  BY <1>1, <1>2, <1>3, <1>4 DEF Pending

LEMMA FaultStep ==
    ASSUME IInv, TypeOK', NEW kind \in Kinds, fault(kind),
           pc \in {"infrastructure", "routes", "probe"},
           UNCHANGED <<settle, stored, attempts>>
    PROVE  IInv'
<1> USE DEF IInv
<1>1. Alive /\ Alive'
  BY DEF Alive, fault, Ignored, Unrepaired, Accepted
<1>2. Confirmed'
  <2>1. CASE Ignored(kind)
    BY <2>1 DEF Ignored, Forget, Confirmed
  <2>2. CASE Observe(kind)
    <3>1. Counted(kind) \in 1 .. 2 /\ Counted(kind) <= observed'.times /\ observed'.kind = kind
      BY <2>2 DEF Observe, Counted, AtMost2, TypeOK, Confirmed
    <3>2. observed'.times \in 0 .. 2 /\ observed' = [kind |-> kind, times |-> observed'.times]
      BY <2>2 DEF Observe, TypeOK, AtMost2
    <3>3. consecutive' > 0 => previous' = observed'.kind /\ consecutive' <= observed'.times
      BY <2>2, <3>1 DEF Observe
    <3>4. ASSUME Accepted(kind), kind # "capture_misrouted"
          PROVE  observed' = [kind |-> kind, times |-> 2]
      <4>1. Counted(kind) >= 2
        BY <3>4 DEF Accepted, Due, Required
      <4> QED
        BY <4>1, <3>1, <3>2
    <3>5. pc' \in {"save", "repair"} => Accepted(kind) /\ repairing' = kind
      BY <2>2 DEF fault, Ignored, Unrepaired, Accepted
    <3> QED
      BY <3>3, <3>4, <3>5 DEF Confirmed
  <2> QED
    BY <2>1, <2>2 DEF fault, Unrepaired, Accepted
<1>3. \A b \in Budgets : \/ budget'[b] = budget[b]
                         \/ budget'[b] = budget[b] \union {0} /\ Affordable(kind)
                              /\ b = BudgetOf(kind)
  BY BudgetOfKind DEF fault, Ignored, Unrepaired, Accepted, TypeOK
<1>4. Recorded'
  <2> SUFFICES ASSUME NEW b \in Budgets
               PROVE  attempts[b] \subseteq stored[b]
                      /\ attempts[b] \subseteq budget'[b]
    BY DEF Recorded
  <2>1. attempts[b] \subseteq stored[b] /\ attempts[b] \subseteq budget[b]
    BY <1>1 DEF Recorded
  <2> QED
    BY <1>3, <2>1
<1>5. WithinLimits'
  <2> SUFFICES ASSUME NEW b \in Budgets PROVE Within(stored[b], b) /\ Within(budget'[b], b)
    BY DEF WithinLimits, Within
  <2>1. Within(stored[b], b) /\ Within(budget[b], b) /\ budget[b] \in Ages
    BY <1>1 DEF WithinLimits, TypeOK
  <2>2. ASSUME Affordable(kind), b = BudgetOf(kind)
        PROVE  Within(budget[b] \union {0}, b)
    BY <2>1, <2>2, Limits, RoomForOne DEF Affordable, Within
  <2> QED
    BY <1>3, <2>1, <2>2
<1>6. Pending'
  <2>1. CASE Accepted(kind)
    <3>1. budget'[BudgetOf(kind)] = budget[BudgetOf(kind)] \union {0}
      BY <2>1, BudgetOfKind DEF Accepted, TypeOK
    <3>2. kind \notin Routes => settle = 0
      BY <2>1 DEF Accepted, Due
    <3>3. kind \in Repairable /\ kind # "none"
      BY <2>1, SupervisorAssumption DEF Accepted, Kinds, Repairable, Routes
    <3> QED
      BY <2>1, <3>1, <3>2, <3>3 DEF Accepted, Pending
  <2>2. CASE ~Accepted(kind)
    BY <2>2 DEF fault, Ignored, Unrepaired, Pending
  <2> QED
    BY <2>1, <2>2
<1>7. Rested'
  BY <1>1 DEF Rested
<1> QED
  BY <1>2, <1>4, <1>5, <1>6, <1>7

-----------------------------------------------------------------------------
(* Types *)

\* A finding keeps the types of what it changes.
LEMMA FaultTyped ==
    ASSUME IInv, NEW kind \in Kinds, fault(kind)
    PROVE  /\ previous' \in Repairable \union {"none"}
           /\ consecutive' \in 0 .. 2
           /\ observed' \in [kind : Repairable \union {"none"}, times : 0 .. 2]
           /\ budget' \in [Budgets -> Ages]
           /\ repairing' \in Repairable \union {"none"}
           /\ pc' \in {"persist", "save"}
<1>1. TypeOK
  BY DEF IInv
<1>2. kind # "unavailable" => kind \in Repairable
  BY DEF Kinds
<1>3. ASSUME kind \in Repairable, Observe(kind)
      PROVE  /\ previous' \in Repairable \union {"none"}
             /\ consecutive' \in 0 .. 2
             /\ observed' \in [kind : Repairable \union {"none"}, times : 0 .. 2]
  BY <1>1, <1>3 DEF Observe, Counted, AtMost2, TypeOK
<1>4. \A b \in Budgets : budget[b] \union {0} \in Ages
  BY <1>1, SupervisorAssumption DEF TypeOK, Ages
<1>5. CASE Ignored(kind)
  BY <1>1, <1>5 DEF Ignored, Forget, TypeOK
<1>6. CASE Unrepaired(kind)
  BY <1>1, <1>2, <1>3, <1>6 DEF Unrepaired, TypeOK
<1>7. CASE Accepted(kind)
  BY <1>1, <1>2, <1>3, <1>4, <1>7, BudgetOfKind DEF Accepted, TypeOK
<1> QED
  BY <1>5, <1>6, <1>7 DEF fault

\* The periods fit the timers.
LEMMA PeriodsFit ==
    /\ Longest \in Nat
    /\ {0, PROBE_PERIOD, SETTLE, REPAIR_SETTLE, PCM_RESUME_PROBE, PCM_RESUME_SETTLE}
         \subseteq 0 .. Longest
BY SupervisorAssumption DEF Longest

\* The route checks find misrouted streams only, or learn nothing.
LEMMA RoutesFound ==
    capture_route \union source_route \union receiver_route \subseteq Routes \union {"unavailable"}
BY DEF capture_route, source_route, receiver_route, Routes

\* So does a tick, however it goes.
LEMMA TickTyped == IInv /\ Tick => TypeOK'
<1> SUFFICES ASSUME IInv, Tick PROVE TypeOK'
  OBVIOUS
<1>1. TypeOK /\ Pending
  BY DEF IInv
<1>2. CASE CheckInfrastructure
  <2>1. ASSUME NEW kind \in Broken \union {"unavailable"}, infraFault' = kind, fault(kind)
        PROVE  TypeOK'
    <3>1. kind \in Kinds
      BY DEF Kinds, Repairable
    <3> QED
      BY <1>1, <1>2, <2>1, <3>1, FaultTyped, PeriodsFit DEF CheckInfrastructure, TypeOK, history
  <2>2. ASSUME UNCHANGED <<streak, budget, repairing>>, infraFault' = "none", pc' = "routes"
        PROVE  TypeOK'
    BY <1>1, <1>2, <2>2, PeriodsFit DEF CheckInfrastructure, TypeOK, history, streak
  <2> QED
    BY <1>2, <2>1, <2>2 DEF CheckInfrastructure, infrastructure
<1>3. CASE CheckRoutes
  <2>1. ASSUME NEW kind \in Routes \union {"unavailable"}, fault(kind)
        PROVE  TypeOK'
    <3>1. kind \in Kinds
      BY DEF Kinds, Repairable
    <3> QED
      BY <1>1, <1>3, <2>1, <3>1, FaultTyped DEF CheckRoutes, TypeOK, history, timers
  <2> QED
    BY <1>1, <1>3, <2>1, RoutesFound DEF CheckRoutes, TypeOK, history, streak, timers
<1>4. CASE Probe
  <2>1. ASSUME NEW kind \in Silent \union {"pcm_paused", "unavailable"}, fault(kind),
               probe' = IF kind = "pcm_paused" /\ pc' = "persist"
                        THEN PCM_RESUME_PROBE ELSE PROBE_PERIOD
        PROVE  TypeOK'
    <3>1. kind \in Kinds
      BY DEF Kinds, Repairable
    <3> QED
      BY <1>1, <1>4, <2>1, <3>1, FaultTyped, PeriodsFit DEF Probe, TypeOK, history
  <2>2. ASSUME probe' = PROBE_PERIOD, Forget, pc' = "persist", UNCHANGED <<budget, repairing>>
        PROVE  TypeOK'
    BY <1>1, <1>4, <2>2, PeriodsFit DEF Probe, TypeOK, history, Forget
  <2> QED
    BY <1>4, <2>1, <2>2 DEF Probe, probed
<1>5. CASE InfrastructureNotDue
  BY <1>1, <1>5 DEF InfrastructureNotDue, TypeOK, timers, streak, history
<1>6. CASE Reconcile
  BY <1>1, <1>6, PeriodsFit DEF Reconcile, TypeOK, streak, history
<1>7. CASE NoProbe
  BY <1>1, <1>7 DEF NoProbe, TypeOK, timers, streak, history
<1>8. CASE NotPlaying
  BY <1>1, <1>8 DEF NotPlaying, TypeOK, timers, Forget, history
<1>9. CASE TickRaises
  BY <1>1, <1>9, PeriodsFit DEF TickRaises, TypeOK, streak, history
<1>10. CASE Save
  BY <1>1, <1>10 DEF Save, TypeOK, timers, streak, history
<1>11. CASE Repair
  <2>1. attempts' \in [Budgets -> Ages]
    BY <1>1, <1>11, BudgetOfKind, SupervisorAssumption DEF Repair, Attempted, TypeOK, Ages
  <2>2. Unobserved \in [kind : Repairable \union {"none"}, times : 0 .. 2]
    BY DEF Unobserved
  <2>3. settle' \in 0 .. Longest /\ probe' \in 0 .. Longest
    BY <1>1, <1>11, PeriodsFit DEF Repair, TypeOK
  <2> QED
    BY <1>1, <1>11, <2>1, <2>2, <2>3, PeriodsFit DEF Repair, TypeOK
<1>12. CASE Persist
  BY <1>1, <1>12 DEF Persist, TypeOK, timers, streak, history
<1> QED
  BY <1>2, <1>3, <1>4, <1>5, <1>6, <1>7, <1>8, <1>9, <1>10, <1>11, <1>12 DEF Tick

-----------------------------------------------------------------------------
(* A tick keeps the inductive invariant *)

\* The attempt is on disk before it is made.
LEMMA SaveStep == IInv /\ Save => IInv'
<1> SUFFICES ASSUME IInv, Save PROVE IInv'
  OBVIOUS
<1> USE DEF IInv
<1>1. TypeOK'
  BY TickTyped DEF Tick
<1>2. Recorded' /\ WithinLimits'
  BY DEF Save, Recorded, WithinLimits, Within, Alive, history
<1>3. Confirmed' /\ Pending' /\ Rested'
  BY DEF Save, Confirmed, Pending, Rested, Alive, timers, streak, history
<1> QED
  BY <1>1, <1>2, <1>3

\* The attempt made is one that is in the file and in memory.
LEMMA RepairStep == IInv /\ Repair => IInv'
<1> SUFFICES ASSUME IInv, Repair PROVE IInv'
  OBVIOUS
<1> USE DEF IInv
<1>1. TypeOK'
  BY TickTyped DEF Tick
<1>2. Confirmed' /\ Pending'
  BY DEF Repair, Confirmed, Pending
<1>3. WithinLimits'
  BY DEF Repair, WithinLimits, Within, Alive
<1>4. \A b \in Budgets : \/ attempts'[b] = attempts[b]
                         \/ attempts'[b] = attempts[b] \union {0} /\ b = BudgetOf(repairing)
  BY BudgetOfKind DEF Repair, Attempted, TypeOK
<1>5. Recorded'
  <2> SUFFICES ASSUME NEW b \in Budgets
               PROVE  attempts'[b] \subseteq stored[b] \intersect budget[b]
    BY DEF Recorded, Repair
  <2>1. attempts[b] \subseteq stored[b] \intersect budget[b]
    BY DEF Repair, Recorded, Alive
  <2>2. b = BudgetOf(repairing) => 0 \in stored[b] \intersect budget[b]
    BY DEF Repair, Pending
  <2> QED
    BY <1>4, <2>1, <2>2
<1>6. Rested'
  <2>1. CASE repairing \in Routes
    <3>1. BudgetOf(repairing) = "route" /\ settle' = SETTLE
      BY <2>1 DEF BudgetOf, Repair, Routes
    <3>2. attempts'["repair"] = attempts["repair"]
      BY <1>4, <3>1 DEF Budgets
    <3> QED
      BY <3>1, <3>2, SupervisorAssumption DEF Rested, TypeOK, Ages, Budgets
  <2>2. CASE repairing = "pcm_paused"
    <3>1. BudgetOf(repairing) = "pcm" /\ settle = 0 /\ settle' = PCM_RESUME_SETTLE
      BY <2>2 DEF BudgetOf, Repair, Routes, Pending
    <3>2. attempts'["repair"] = attempts["repair"]
      BY <1>4, <3>1 DEF Budgets
    <3> QED
      BY <3>1, <3>2, SupervisorAssumption DEF Rested, TypeOK, Ages, Budgets, Repair, Alive
  <2>3. CASE repairing \notin Routes /\ repairing # "pcm_paused"
    <3>1. settle' = REPAIR_SETTLE
      BY <2>3 DEF Repair
    <3>2. attempts'["repair"] \in SUBSET (0 .. WINDOW - 1)
      BY <1>1 DEF TypeOK, Budgets, Ages
    <3> QED
      BY <3>1, <3>2, SupervisorAssumption DEF Rested
  <2> QED
    BY <2>1, <2>2, <2>3
<1> QED
  BY <1>1, <1>2, <1>3, <1>5, <1>6

\* The file is brought up to date.
LEMMA PersistStep == IInv /\ Persist => IInv'
<1> SUFFICES ASSUME IInv, Persist PROVE IInv'
  OBVIOUS
<1> USE DEF IInv
<1>1. TypeOK'
  BY TickTyped DEF Tick
<1>2. Recorded' /\ WithinLimits'
  BY DEF Persist, Recorded, WithinLimits, Within, Alive, history
<1>3. Confirmed' /\ Pending' /\ Rested'
  BY DEF Persist, Confirmed, Pending, Rested, Alive, timers, streak, history
<1> QED
  BY <1>1, <1>2, <1>3

LEMMA TickStep == IInv /\ Tick => IInv'
<1> SUFFICES ASSUME IInv, Tick PROVE IInv'
  OBVIOUS
<1>1. TypeOK'
  BY TickTyped
<1>2. CASE CheckInfrastructure
  <2>1. ASSUME NEW kind \in Broken \union {"unavailable"}, fault(kind)
        PROVE  IInv'
    <3>1. kind \in Kinds
      BY DEF Kinds, Repairable
    <3> QED
      BY <1>1, <1>2, <2>1, <3>1, FaultStep DEF CheckInfrastructure, history
  <2>2. ASSUME UNCHANGED <<streak, budget, repairing>>, pc' = "routes"
        PROVE  IInv'
    BY <1>1, <1>2, <2>2, QuietStep DEF CheckInfrastructure, history, streak, StreakEnds, Alive
  <2> QED
    BY <1>2, <2>1, <2>2 DEF CheckInfrastructure, infrastructure
<1>3. CASE CheckRoutes
  <2>1. ASSUME NEW kind \in Routes \union {"unavailable"}, fault(kind)
        PROVE  IInv'
    <3>1. kind \in Kinds
      BY DEF Kinds, Repairable
    <3> QED
      BY <1>1, <1>3, <2>1, <3>1, FaultStep DEF CheckRoutes, timers, history
  <2>2. ASSUME UNCHANGED <<streak, budget, repairing>>, pc' = "reconcile"
        PROVE  IInv'
    BY <1>1, <1>3, <2>2, QuietStep DEF CheckRoutes, history, timers, streak, StreakEnds, Alive
  <2> QED
    BY <1>3, <2>1, <2>2, RoutesFound DEF CheckRoutes
<1>4. CASE Probe
  <2>1. ASSUME NEW kind \in Silent \union {"pcm_paused", "unavailable"}, fault(kind)
        PROVE  IInv'
    <3>1. kind \in Kinds
      BY DEF Kinds, Repairable
    <3> QED
      BY <1>1, <1>4, <2>1, <3>1, FaultStep DEF Probe, history
  <2>2. ASSUME Forget, pc' = "persist", UNCHANGED budget
        PROVE  IInv'
    BY <1>1, <1>4, <2>2, QuietStep DEF Probe, history, Forget, StreakEnds, Alive
  <2> QED
    BY <1>4, <2>1, <2>2 DEF Probe, probed
<1>5. CASE InfrastructureNotDue
  BY <1>1, <1>5, QuietStep DEF InfrastructureNotDue, history, timers, streak, StreakEnds, Alive
<1>6. CASE Reconcile
  BY <1>1, <1>6, QuietStep DEF Reconcile, history, streak, StreakEnds, Alive
<1>7. CASE NoProbe
  BY <1>1, <1>7, QuietStep DEF NoProbe, history, timers, streak, StreakEnds, Alive
<1>8. CASE NotPlaying
  BY <1>1, <1>8, QuietStep DEF NotPlaying, history, timers, Forget, StreakEnds, Alive
<1>9. CASE TickRaises
  BY <1>1, <1>9, QuietStep DEF TickRaises, history, streak, StreakEnds, Alive
<1> QED
  BY <1>2, <1>3, <1>4, <1>5, <1>6, <1>7, <1>8, <1>9, SaveStep, RepairStep, PersistStep DEF Tick

-----------------------------------------------------------------------------
(* Time, crashes and restarts keep it *)

\* Books of ages, aged.
LEMMA OlderBook ==
    ASSUME NEW book \in [Budgets -> Ages]
    PROVE  /\ Older(book) \in [Budgets -> Ages]
           /\ \A b \in Budgets : Older(book)[b] = Aged(book[b])
           /\ \A b \in Budgets : Within(book[b], b) => Within(Older(book)[b], b)
<1>1. \A b \in Budgets : Aged(book[b]) \in Ages
  BY AgedWithin
<1>2. ASSUME NEW b \in Budgets, Within(book[b], b)
      PROVE  Within(Aged(book[b]), b)
  <2>1. book[b] \in Ages /\ Aged(book[b]) \in Ages
    BY <1>1
  <2>2. Cardinality(book[b]) \in Nat /\ Cardinality(Aged(book[b])) \in Nat
    BY <2>1, AgesFinite, FS_CardinalityType
  <2> QED
    BY <1>2, <2>1, <2>2, AgedWithin, Limits DEF Within
<1> QED
  BY <1>1, <1>2 DEF Older

LEMMA SleepStep == IInv /\ Sleep => IInv'
<1> SUFFICES ASSUME IInv, Sleep PROVE IInv'
  OBVIOUS
<1> USE DEF IInv
<1>1. TypeOK'
  BY OlderBook, PeriodsFit DEF Sleep, TypeOK, Left, streak
<1>2. Recorded'
  <2> SUFFICES ASSUME NEW b \in Budgets
               PROVE  /\ Aged(attempts[b]) \subseteq Aged(stored[b])
                      /\ Aged(attempts[b]) \subseteq Aged(budget[b])
    BY OlderBook DEF Recorded, Sleep, TypeOK
  <2>1. /\ attempts[b] \in Ages /\ stored[b] \in Ages /\ budget[b] \in Ages
        /\ attempts[b] \subseteq stored[b] /\ attempts[b] \subseteq budget[b]
    BY DEF TypeOK, Recorded, Alive, Sleep
  <2> QED
    BY <2>1, AgedRecorded
<1>3. WithinLimits'
  BY OlderBook DEF WithinLimits, Sleep, TypeOK, Alive
<1>4. Rested'
  <2> SUFFICES ASSUME NEW a \in Aged(attempts["repair"])
               PROVE  a + settle' >= SETTLE
    BY OlderBook DEF Rested, Sleep, TypeOK, Budgets
  <2>1. attempts["repair"] \in Ages
    BY DEF TypeOK, Budgets
  <2>2. \A c \in attempts["repair"] : c \in Nat /\ c + settle >= SETTLE
    BY <2>1 DEF Rested, Alive, Sleep, Ages
  <2>3. PICK c \in attempts["repair"] : a = c + 1
    BY DEF Aged, Recent
  <2> QED
    BY <2>2, <2>3, SupervisorAssumption DEF Sleep, Left, TypeOK
<1>5. Confirmed' /\ Pending'
  BY DEF Sleep, Confirmed, Pending, streak
<1> QED
  BY <1>1, <1>2, <1>3, <1>4, <1>5

\* A repair cut short by the end of the process is in the file already.
LEMMA CrashStep == IInv /\ Crash => IInv'
<1> SUFFICES ASSUME IInv, Crash PROVE IInv'
  OBVIOUS
<1> USE DEF IInv
<1>1. \A b \in Budgets : \/ attempts'[b] = attempts[b]
                         \/ attempts'[b] = attempts[b] \union {0} /\ b = BudgetOf(repairing)
                              /\ pc = "repair"
  BY BudgetOfKind DEF Crash, Attempted, TypeOK
<1>2. attempts' \in [Budgets -> Ages]
  BY BudgetOfKind, SupervisorAssumption DEF Crash, Attempted, TypeOK, Ages
<1>3. TypeOK'
  BY <1>2, SupervisorAssumption DEF Crash, Troubled, TypeOK, timers, streak
<1>4. Recorded'
  <2> SUFFICES ASSUME NEW b \in Budgets PROVE attempts'[b] \subseteq stored[b]
    BY DEF Recorded, Crash, Alive
  <2>1. attempts[b] \subseteq stored[b]
    BY DEF Recorded
  <2> QED
    BY <1>1, <2>1 DEF Pending
<1> QED
  BY <1>3, <1>4 DEF Crash, Confirmed, Pending, WithinLimits, Within, Rested, Alive, timers, streak

LEMMA SaveFailsStep == IInv /\ SaveFails => IInv'
<1> SUFFICES ASSUME IInv, SaveFails PROVE IInv'
  OBVIOUS
<1> USE DEF IInv
<1>1. TypeOK'
  BY SupervisorAssumption DEF SaveFails, Troubled, TypeOK, timers, streak
<1>2. Recorded' /\ WithinLimits'
  BY DEF SaveFails, Recorded, WithinLimits, Within, Alive
<1>3. Confirmed' /\ Pending' /\ Rested'
  BY DEF SaveFails, Confirmed, Pending, Rested, Alive, timers, streak
<1> QED
  BY <1>1, <1>2, <1>3

LEMMA StayDownStep == IInv /\ StayDown => IInv'
<1> SUFFICES ASSUME IInv, StayDown PROVE IInv'
  OBVIOUS
<1> USE DEF IInv
<1>1. TypeOK'
  BY OlderBook DEF StayDown, TypeOK, timers, streak
<1>2. Recorded'
  <2> SUFFICES ASSUME NEW b \in Budgets
               PROVE  Aged(attempts[b]) \subseteq Aged(stored[b])
    BY OlderBook DEF Recorded, StayDown, TypeOK, Alive
  <2>1. attempts[b] \in Ages /\ stored[b] \in Ages /\ attempts[b] \subseteq stored[b]
    BY DEF TypeOK, Recorded
  <2> QED
    BY <2>1, AgedRecorded
<1>3. WithinLimits'
  BY OlderBook DEF WithinLimits, StayDown, TypeOK, Alive
<1> QED
  BY <1>1, <1>2, <1>3 DEF StayDown, Confirmed, Pending, Rested, Alive, timers, streak

\* restore() finds every attempt that counts, and waits as long as the last
\* destructive one asks for.
LEMMA RestartStep == IInv /\ Restart => IInv'
<1> SUFFICES ASSUME IInv, Restart PROVE IInv'
  OBVIOUS
<1> USE DEF IInv
<1>1. \A b \in Budgets : Restored[b] = Aged(stored[b])
  BY OlderBook DEF Restored, TypeOK
<1>2. Restored \in [Budgets -> Ages]
  BY OlderBook DEF Restored, TypeOK
<1>3. TypeOK'
  BY <1>2, OlderBook, PeriodsFit, SupervisorAssumption DEF Restart, TypeOK, Unobserved, Longest
<1>4. \A b \in Budgets : Aged(attempts[b]) \subseteq Restored[b]
  <2> SUFFICES ASSUME NEW b \in Budgets
               PROVE  Aged(attempts[b]) \subseteq Aged(stored[b])
    BY <1>1
  <2>1. attempts[b] \in Ages /\ stored[b] \in Ages /\ attempts[b] \subseteq stored[b]
    BY DEF TypeOK, Recorded
  <2> QED
    BY <2>1, AgedRecorded
<1>5. \A b \in Budgets : attempts'[b] = Aged(attempts[b])
  BY OlderBook DEF Restart, TypeOK
<1>6. Recorded'
  BY <1>4, <1>5 DEF Recorded, Restart
<1>7. WithinLimits'
  <2> SUFFICES ASSUME NEW b \in Budgets PROVE Within(Restored[b], b)
    BY DEF WithinLimits, Within, Restart
  <2>1. Within(stored[b], b) /\ stored \in [Budgets -> Ages]
    BY DEF WithinLimits, TypeOK
  <2>2. Within(Aged(stored[b]), b)
    BY <2>1, OlderBook
  <2> QED
    BY <1>1, <2>2
<1>8. Rested'
  <2> SUFFICES ASSUME NEW a \in Aged(attempts["repair"])
               PROVE  a + settle' >= SETTLE
    BY <1>5 DEF Rested, Budgets
  <2>1. a \in 0 .. WINDOW - 1 /\ a \in Restored["repair"]
    BY <1>4, AgedWithin DEF TypeOK, Budgets, Ages
  <2>2. settle' \in Nat /\ \A c \in Restored["repair"] : c + settle' >= REPAIR_SETTLE
    BY SupervisorAssumption DEF Restart, IsGrace
  <2> QED
    BY <2>1, <2>2, SupervisorAssumption
<1> QED
  BY <1>3, <1>6, <1>7, <1>8 DEF Restart, Confirmed, Pending

-----------------------------------------------------------------------------

\* The inductive invariant holds in every reachable state.
THEOREM Invariance == Spec => []IInv
<1>1. Init => IInv
  BY InitIInv
<1>2. IInv /\ [Next]_vars => IInv'
  <2> SUFFICES ASSUME IInv, [Next]_vars PROVE IInv'
    OBVIOUS
  <2>1. CASE Next
    BY <2>1, TickStep, SleepStep, CrashStep, SaveFailsStep, StayDownStep, RestartStep DEF Next
  <2>2. CASE UNCHANGED vars
    BY <2>2 DEF vars, IInv, TypeOK, Confirmed, Recorded, Pending, WithinLimits, Within, Rested,
                Alive
  <2> QED
    BY <2>1, <2>2
<1> QED
  BY <1>1, <1>2, PTL DEF Spec

\* The variables keep the types of the fields of Supervisor, however it fails.
THEOREM TypeCorrect == Spec => []TypeOK
BY Invariance, PTL DEF IInv

\* README "at most three such repairs per ten minutes [...] Budgets survive
\* supervisor restarts": however often the process dies, and whenever, no more
\* than Limit repairs are carried out within WINDOW.
THEOREM BudgetKept == Spec => []BudgetHolds
<1>1. IInv => BudgetHolds
  <2> SUFFICES ASSUME IInv, NEW b \in Budgets
               PROVE  Cardinality(attempts[b]) <= Limit(b)
    BY DEF BudgetHolds
  <2>1. attempts[b] \in Ages /\ stored[b] \in Ages
    BY DEF IInv, TypeOK
  <2>2. attempts[b] \in SUBSET stored[b]
    BY DEF IInv, Recorded
  <2>3. IsFiniteSet(stored[b]) /\ IsFiniteSet(attempts[b])
    BY <2>1, AgesFinite
  <2>4. Cardinality(attempts[b]) <= Cardinality(stored[b])
    BY <2>2, <2>3, FS_Subset
  <2>5. Cardinality(attempts[b]) \in Nat /\ Cardinality(stored[b]) \in Nat
    BY <2>3, FS_CardinalityType
  <2>6. Cardinality(stored[b]) <= Limit(b)
    BY DEF IInv, WithinLimits, Within
  <2> QED
    BY <2>4, <2>5, <2>6, Limits
<1> QED
  BY <1>1, Invariance, PTL

\* README "Two observations are required for destructive recovery": a repair is
\* only ever decided on a fault seen twice since the last one.
THEOREM ConfirmedTwice == Spec => []TwoObservations
<1>1. IInv => TwoObservations
  BY DEF IInv, Confirmed, TwoObservations
<1> QED
  BY <1>1, Invariance, PTL

\* README "with buffering grace": whatever happens after a destructive repair,
\* the supervisor's end included, the next intervention leaves it SETTLE.
THEOREM GraceKept == Spec => []GraceHolds
<1>1. IInv => GraceHolds
  BY SupervisorAssumption DEF IInv, Rested, Pending, GraceHolds, Alive, TypeOK, Ages, Budgets
<1> QED
  BY <1>1, Invariance, PTL
=============================================================================
