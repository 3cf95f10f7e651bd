------------------------ MODULE OutputHistory_proofs ------------------------
(***************************************************************************)
(* That reconcile_once joins the WiiM at its configured level, and how far  *)
(* the guard of its source and the outputs a listener chose are respected,  *)
(* for any idle times, retry delays and number of commands and              *)
(* disturbances.  What is proved of the two processes without their history *)
(* holds with it.                                                           *)
(***************************************************************************)
EXTENDS OutputHistory, BridgeOutputs_proofs

\* Every step with its history is a step without.
LEMMA HistoryStep == [HNext]_hvars => [Next]_vars
  BY DEF HNext, Next, hvars

\* The history only watches: what holds of the two processes holds of the runs.
THEOREM WithoutHistory == HSpec => Spec
<1>1. HInit => Init
  BY DEF HInit
<1> QED
  BY <1>1, HistoryStep, PTL DEF HSpec, Spec

HistoryTypes ==
    /\ quiet \in [Processes -> BOOLEAN]
    /\ whole \in BOOLEAN
    /\ guarded \in BOOLEAN
    /\ idleTicks \in 0 .. IDLE_DISCONNECT

LEMMA HistoryTypesStep ==
    ASSUME HistoryTypes, [HNext]_hvars
    PROVE  HistoryTypes'
<1> USE DEF HistoryTypes
<1>1. CASE UNCHANGED hvars
  BY <1>1 DEF hvars
<1>2. CASE (Tick \/ TickBlocked) /\ RecordTick
  <2>1. idleTicks' \in 0 .. IDLE_DISCONNECT
    BY <1>2, OutputsAssumption DEF RecordTick
  <2> QED
    BY <1>2, <2>1 DEF RecordTick
<1>3. CASE SupervisorRestarts /\ RecordRestart
  <2>1. idleTicks' \in 0 .. IDLE_DISCONNECT
    BY <1>3, OutputsAssumption DEF RecordRestart
  <2> QED
    BY <1>3, <2>1 DEF RecordRestart
<1>4. CASE Act /\ RecordAct
  <2>1. quiet' \in [Processes -> BOOLEAN]
    BY <1>4 DEF RecordAct
  <2>2. guarded' \in BOOLEAN
    BY <1>4 DEF RecordAct
  <2>3. whole' \in BOOLEAN
    BY <1>4 DEF RecordAct
  <2> QED
    BY <1>4, <2>1, <2>2, <2>3 DEF RecordAct
<1> QED
  BY <1>1, <1>2, <1>3, <1>4 DEF HNext

-----------------------------------------------------------------------------
(* The level between its setting and the join *)

\* Undisturbed, a process about to join the WiiM has set its level.
JoinReady == \A p \in Processes : quiet[p] /\ pc[p] = "join" => level = "configured"

\* Within a transaction only the setting of the level leads to the join.
LEMMA StepToJoin ==
    ASSUME IInv, NEW p \in Processes, Step(p), pc'[p] = "join"
    PROVE  level' = "configured"
<1>1. op[p] \in {"reconcile", "observe", "wiim_disconnected"}
  BY StepShape DEF IInv, OpsAt
<1>2. \A label : Goto(p, label) => label = "join"
  BY DEF Goto, IInv, TypeOK
<1>3. op[p] \in OpsAt(pc[p])
  BY DEF IInv, OperationFits
<1>4. ~TakeLock(p)
  BY <1>1, <1>2 DEF TakeLock, FirstStep
<1>5. ~LockTimeout(p) /\ ~SetMode(p) /\ ~SetAutomatic(p) /\ ~Validate(p) /\ ~ReconcileRead(p)
  BY <1>2 DEF LockTimeout, SetMode, SetAutomatic, Validate, ReconcileRead
<1>6. ~ReadOutputs(p)
  BY <1>1, <1>2, <1>3 DEF ReadOutputs, AfterRead, OpsAt
<1>7. ~PutOutputs(p)
  BY <1>1, <1>2, <1>3 DEF PutOutputs, AfterPut, OpsAt, Puts
<1>8. ~Verify(p) /\ ~PutPlayer(p) /\ ~InstallPipe(p) /\ ~CheckQueue(p) /\ ~PollPlayer(p)
      /\ ~CheckOutputs(p) /\ ~GuardUnderLock(p)
  BY <1>2 DEF Verify, PutPlayer, InstallPipe, CheckQueue, PollPlayer, CheckOutputs,
     GuardUnderLock
<1>9. ~ReadPlayer(p)
  <2>1. queue \in {"bridge", "foreign", "empty"}
    BY DEF IInv, TypeOK, OwnToneTypeOK, Queues
  <2> QED
    BY <1>2, <2>1 DEF ReadPlayer
<1>10. RestoreLevel(p)
  BY <1>4, <1>5, <1>6, <1>7, <1>8, <1>9 DEF Step
<1> QED
  BY <1>10 DEF RestoreLevel, SetLevel

\* So does nothing outside of it.
LEMMA ComesToJoin ==
    ASSUME IInv, Next, NEW p \in Processes, pc'[p] = "join", pc[p] # "join"
    PROVE  level' = "configured"
<1> USE DEF Processes
<1>1. ASSUME NEW q \in Processes, Step(q) PROVE q = p
  <2>1. pc' = [pc EXCEPT ![q] = pc'[q]]
    BY <1>1, StepShape DEF IInv
  <2> QED
    BY <2>1 DEF IInv, TypeOK
<1>2. \A label : \A q \in Processes : Goto(q, label) => label = "join" \/ q # p
  BY DEF Goto, IInv, TypeOK
<1>3. \A o, label : \A q \in Processes : Enter(q, o, label) => label = "join" \/ q # p
  BY DEF Enter, IInv, TypeOK
<1>4. \A o, label : \A q \in Processes : Goto(q, label) \/ Enter(q, o, label) => q = p
  BY DEF Goto, Enter, IInv, TypeOK
<1>5. ~UNCHANGED <<pc, op>> /\ ~UNCHANGED procs
  BY DEF procs
<1>6. ~Command /\ ~CommandEnds /\ ~CommandRetries /\ ~CommandDies
  BY <1>2, <1>3, <1>4 DEF Command, CommandEnds, CommandRetries, CommandDies
<1>7. ~Tick /\ ~TickBlocked /\ ~SupervisorRestarts
  BY <1>2, <1>3, <1>4, <1>5 DEF Tick, TickPlaying, TickIdle, TickOther, TickBlocked,
     SupervisorRestarts, Leave
<1>8. ~OuterRead /\ ~SourceGuard /\ ~OperationDeclined /\ ~OperationFailed /\ ~NoProbe
  BY <1>2, <1>3, <1>4, <1>5 DEF OuterRead, SourceGuard, EnterObserve, OperationDeclined,
     OperationFailed, NoProbe, PauseEnds, Leave
<1>9. ~OperationDone
  BY <1>2, <1>3, <1>4, <1>5 DEF OperationDone, Settles, PauseEnds, Leave
<1>10. ~Probe
  BY <1>2, <1>3, <1>4 DEF Probe, Finding, Leave
<1>11. \A q \in Processes : ~RequestFails(q)
  BY <1>2, <1>4 DEF RequestFails
<1>12. Step(p)
  BY <1>1, <1>5, <1>6, <1>7, <1>8, <1>9, <1>10, <1>11 DEF Next, Act, Supervise, Disturbance
<1> QED
  BY <1>12, StepToJoin

\* While a process stands at the join it holds the lock, and only what is outside
\* changes the level.
LEMMA StaysAtJoin ==
    ASSUME IInv, Next, NEW p \in Processes, pc[p] = "join", pc'[p] = "join"
    PROVE  level' = level \/ OutsideActs
<1> USE DEF Processes
<1>1. holder = p
  BY DEF IInv, LockHeld, Locked, Writes, Puts
<1>2. \A q \in Processes : pc[q] \in Locked => q = p
  BY <1>1 DEF IInv, LockHeld
<1>3. ASSUME NEW q \in Processes, Step(q) PROVE level' = level
  <2>1. CASE q = p
    <3>1. PutOutputs(p)
      BY <1>3, <2>1 DEF Step, TakeLock, LockTimeout, SetMode, SetAutomatic, ReadOutputs,
         Validate, ReconcileRead, RestoreLevel, Verify, ReadPlayer, PutPlayer, InstallPipe,
         CheckQueue, PollPlayer, CheckOutputs, GuardUnderLock
    <3>2. pc'[p] \in {"relevel", "verify"}
      BY <3>1 DEF PutOutputs, AfterPut, Goto, IInv, TypeOK
    <3> QED
      BY <3>2
  <2>2. CASE q # p
    <3>1. ~RestoreLevel(q) /\ ~PutOutputs(q)
      BY <1>2, <2>2 DEF RestoreLevel, PutOutputs, Locked, Writes
    <3> QED
      BY <1>3, <3>1 DEF Step, TakeLock, LockTimeout, SetMode, SetAutomatic, ReadOutputs,
         Validate, ReconcileRead, Verify, ReadPlayer, PutPlayer, InstallPipe, CheckQueue,
         PollPlayer, CheckOutputs, GuardUnderLock, SetPlayer, AddPipe, owntone
  <2> QED
    BY <2>1, <2>2
<1>4. ASSUME NEW q \in Processes, RequestFails(q) PROVE level' = level
  <2>1. q # p
    BY <1>4 DEF RequestFails, Goto, IInv, TypeOK
  <2>2. pc[q] \notin Writes
    BY <1>2, <2>1 DEF Locked
  <2> QED
    BY <1>4, <2>2 DEF RequestFails, Writes, owntone
<1>5. ASSUME Outside, UNCHANGED procs PROVE level' = level \/ OutsideActs
  BY <1>5 DEF OutsideActs, procs, owntone
<1>6. CASE Command \/ CommandEnds \/ CommandRetries \/ CommandDies \/ Supervise
  BY <1>6 DEF Command, CommandEnds, CommandRetries, CommandDies, Supervise, OuterRead,
     SourceGuard, OperationDone, OperationDeclined, OperationFailed, Probe, NoProbe, owntone
<1>7. CASE Tick \/ TickBlocked \/ SupervisorRestarts
  BY <1>7 DEF Tick, BeginTick, TickBlocked, SupervisorRestarts, owntone
<1> QED
  BY <1>3, <1>4, <1>5, <1>6, <1>7 DEF Next, Act, Disturbance

LEMMA JoinReadyStep ==
    ASSUME IInv, JoinReady, [HNext]_hvars
    PROVE  JoinReady'
<1>1. CASE UNCHANGED hvars
  BY <1>1 DEF hvars, vars, procs, owntone, JoinReady
<1>2. CASE HNext
  <2> SUFFICES ASSUME NEW p \in Processes, quiet'[p], pc'[p] = "join"
               PROVE  level' = "configured"
    BY DEF JoinReady
  <2>1. Next
    BY <1>2 DEF HNext, Next
  <2>2. CASE pc[p] # "join"
    BY <2>1, <2>2, ComesToJoin
  <2>3. CASE pc[p] = "join"
    <3>1. holder = p
      BY <2>3 DEF IInv, LockHeld, Locked, Writes, Puts
    <3>2. quiet[p]
      BY <1>2, <3>1 DEF HNext, RecordTick, RecordRestart, RecordAct
    <3>3. CASE Act /\ RecordAct
      <4>1. ~OutsideActs
        BY <3>1, <3>3 DEF RecordAct
      <4> QED
        BY <2>1, <2>3, <3>2, <4>1, StaysAtJoin DEF JoinReady
    <3>4. CASE Tick \/ TickBlocked \/ SupervisorRestarts
      <4>1. level' = level
        BY <3>4 DEF Tick, BeginTick, TickBlocked, SupervisorRestarts, owntone
      <4> QED
        BY <2>3, <3>2, <4>1 DEF JoinReady
    <3> QED
      BY <1>2, <3>3, <3>4 DEF HNext
  <2> QED
    BY <2>2, <2>3
<1> QED
  BY <1>1, <1>2

-----------------------------------------------------------------------------
(* The source guard *)

\* Where the repair of a stale session stands once its guard has passed.
Rejoining == {"validate", "reconcile_read", "drop_wiim", "clear", "level", "join"}

\* observe() begins after a guard or over a whole pair, the repair goes on after a guard.
Looked ==
    Guarded =>
        /\ op["supervisor"] = "observe" => guarded \/ whole
        /\ op["supervisor"] = "wiim_disconnected" /\ pc["supervisor"] \in Rejoining => guarded

\* Outside the lock only the look and the guard begin observe().
LEMMA ObserveBegins ==
    ASSUME IInv, Outer, op'["supervisor"] \in {"observe", "wiim_disconnected"}
    PROVE  \/ pc'["supervisor"] = pc["supervisor"] /\ op'["supervisor"] = op["supervisor"]
              /\ pc["supervisor"] # "idle"
           \/ pc'["supervisor"] \notin Rejoining /\ op'["supervisor"] = op["supervisor"]
           \/ pc'["supervisor"] \notin Rejoining /\ op'["supervisor"] = "wiim_disconnected"
           \/ pc'["supervisor"] = "lock" /\ (Guarded => FindsWhole \/ PassesGuard)
<1> USE DEF Processes, IInv, TypeOK, Enter, Goto, Leave, procs
<1>1. pc["supervisor"] = "idle" => op["supervisor"] = "none"
  BY DEF OperationFits, OpsAt
<1>2. CASE Command \/ CommandEnds \/ CommandRetries \/ CommandDies
  BY <1>1, <1>2 DEF Command, CommandEnds, CommandRetries, CommandDies
<1>3. CASE Tick \/ TickBlocked \/ SupervisorRestarts
  BY <1>1, <1>3 DEF Tick, BeginTick, TickPlaying, TickIdle, TickOther, TickBlocked,
     SupervisorRestarts
<1>4. CASE Outside /\ UNCHANGED <<control, procs, idle, tick>>
  BY <1>1, <1>4
<1>5. CASE OuterRead
  BY <1>5 DEF OuterRead, EnterObserve, FindsWhole, Rejoining
<1>6. CASE SourceGuard
  BY <1>6 DEF SourceGuard, EnterObserve, PassesGuard, Rejoining
<1>7. CASE OperationDone
  BY <1>7 DEF OperationDone, Settles, PauseEnds
<1>8. CASE OperationDeclined
  BY <1>8 DEF OperationDeclined, PauseEnds
<1>9. CASE OperationFailed
  BY <1>9 DEF OperationFailed
<1>10. CASE Probe
  BY <1>10 DEF Probe, Finding, Rejoining
<1>11. CASE NoProbe
  BY <1>11 DEF NoProbe
<1> QED
  BY <1>2, <1>3, <1>4, <1>5, <1>6, <1>7, <1>8, <1>9, <1>10, <1>11 DEF Outer, Supervise

\* Under the lock the repair goes on only from its guard.
LEMMA RepairGoesOn ==
    ASSUME IInv, Guarded, Step("supervisor"), op["supervisor"] = "wiim_disconnected",
           pc'["supervisor"] \in Rejoining, pc["supervisor"] \notin Rejoining
    PROVE  PassesGuard
<1> USE DEF Processes, Rejoining
<1>0. \A label : Goto("supervisor", label) => pc'["supervisor"] = label
  BY DEF Goto, IInv, TypeOK
<1>1. op["supervisor"] \in OpsAt(pc["supervisor"])
  BY DEF IInv, OperationFits
<1>2. ~TakeLock("supervisor") /\ ~LockTimeout("supervisor") /\ ~SetMode("supervisor")
      /\ ~SetAutomatic("supervisor")
  BY <1>0 DEF TakeLock, FirstStep, LockTimeout, SetMode, SetAutomatic
<1>3. ~ReadOutputs("supervisor") /\ ~PutOutputs("supervisor")
  BY <1>1 DEF ReadOutputs, PutOutputs, OpsAt, Puts
<1>4. ~ReadPlayer("supervisor")
  <2>1. queue \in {"bridge", "foreign", "empty"}
    BY DEF IInv, TypeOK, OwnToneTypeOK, Queues
  <2> QED
    BY <1>0, <2>1 DEF ReadPlayer
<1>5. ~Validate("supervisor") /\ ~ReconcileRead("supervisor") /\ ~RestoreLevel("supervisor")
      /\ ~Verify("supervisor") /\ ~PutPlayer("supervisor") /\ ~InstallPipe("supervisor")
      /\ ~CheckQueue("supervisor") /\ ~PollPlayer("supervisor") /\ ~CheckOutputs("supervisor")
  BY <1>0 DEF Validate, ReconcileRead, RestoreLevel, Verify, PutPlayer, InstallPipe,
     CheckQueue, PollPlayer, CheckOutputs
<1>6. GuardUnderLock("supervisor")
  BY <1>2, <1>3, <1>4, <1>5 DEF Step
<1> QED
  BY <1>0, <1>6 DEF GuardUnderLock, PassesGuard

LEMMA LookedStep ==
    ASSUME IInv, Looked, [HNext]_hvars
    PROVE  Looked'
<1> SUFFICES ASSUME Guarded,
                    \/ op'["supervisor"] = "observe"
                    \/ op'["supervisor"] = "wiim_disconnected" /\ pc'["supervisor"] \in Rejoining
             PROVE  guarded' \/ (whole' /\ op'["supervisor"] = "observe")
  BY DEF Looked
<1>1. CASE UNCHANGED hvars
  BY <1>1 DEF hvars, vars, procs, Looked
<1>2. CASE (Tick \/ TickBlocked) /\ RecordTick
  <2>1. op'["supervisor"] \notin {"observe", "wiim_disconnected"}
    <3>1. op["supervisor"] = "none" /\ op \in [Processes -> Commands \union Operations \union {"none"}]
      BY <1>2 DEF Tick, BeginTick, TickBlocked, IInv, TypeOK, OperationFits, OpsAt, Processes
    <3> QED
      BY <1>2, <3>1 DEF Tick, TickPlaying, TickIdle, TickOther, TickBlocked, Enter, procs,
         Processes
  <2> QED
    BY <2>1
<1>3. CASE SupervisorRestarts /\ RecordRestart
  BY <1>3 DEF SupervisorRestarts, Leave, Enter, IInv, TypeOK, Processes
<1>4. CASE Act /\ RecordAct
  <2>1. (guarded \/ PassesGuard => guarded') /\ (whole \/ FindsWhole => whole')
    BY <1>4 DEF RecordAct
  <2>2. Outer \/ \E p \in Processes : Step(p) \/ RequestFails(p)
    BY <1>4, ThreeKinds DEF Next
  <2>3. CASE Outer
    BY <2>1, <2>3, ObserveBegins DEF Looked, Rejoining
  <2>4. ASSUME NEW p \in Processes, Step(p)
        PROVE  guarded' \/ (whole' /\ op'["supervisor"] = "observe")
    <3>1. op' = op /\ pc' = [pc EXCEPT ![p] = pc'[p]]
      BY <2>4, StepShape DEF IInv
    <3>2. CASE p = "supervisor"
      BY <2>1, <2>4, <3>1, <3>2, RepairGoesOn DEF Looked
    <3>3. CASE p # "supervisor"
      BY <2>1, <3>1, <3>3 DEF Looked, IInv, TypeOK, Processes
    <3> QED
      BY <3>2, <3>3
  <2>5. ASSUME NEW p \in Processes, RequestFails(p)
        PROVE  guarded' \/ (whole' /\ op'["supervisor"] = "observe")
    <3>1. op' = op /\ pc' = [pc EXCEPT ![p] = "failed"]
      BY <2>5, FailureShape
    <3> QED
      BY <2>1, <3>1 DEF Looked, Rejoining, IInv, TypeOK, Processes
  <2> QED
    BY <2>2, <2>3, <2>4, <2>5
<1> QED
  BY <1>1, <1>2, <1>3, <1>4 DEF HNext

-----------------------------------------------------------------------------
(* Outputs a listener chose *)

\* Undisturbed, a recovery that goes on to a request has only the pair before it, but
\* for the repair of a stale session that found the PC's output unselected.
Spared ==
    quiet["supervisor"] =>
        /\ pc["supervisor"] \in {"drop_wiim", "level", "join"} => selected \subseteq Pair
        /\ pc["supervisor"] = "clear" => "local" \notin selected
        /\ (/\ op["supervisor"] = "observe"
            /\ pc["supervisor"] \in {"validate", "reconcile_read", "clear"}) =>
             selected \subseteq Pair
        /\ op["supervisor"] = "fallback" /\ pc["supervisor"] = "put" => selected \subseteq Pair

Recovering == Puts \union {"validate", "reconcile_read", "level"}

\* No step outside the lock leads there, and none of the supervisor begins there.
LEMMA RecoversUnderLock ==
    ASSUME IInv, Outer, pc'["supervisor"] \in Recovering
    PROVE  pc'["supervisor"] = pc["supervisor"] /\ op'["supervisor"] = op["supervisor"]
<1> USE DEF Processes, IInv, TypeOK, Enter, Goto, Leave, procs, Recovering, Puts
<1>1. CASE Command \/ CommandEnds \/ CommandRetries \/ CommandDies
  BY <1>1 DEF Command, CommandEnds, CommandRetries, CommandDies
<1>2. CASE Tick \/ TickBlocked \/ SupervisorRestarts
  BY <1>2 DEF Tick, BeginTick, TickPlaying, TickIdle, TickOther, TickBlocked,
     SupervisorRestarts
<1>3. CASE Outside /\ UNCHANGED <<control, procs, idle, tick>>
  BY <1>3
<1>4. CASE OuterRead \/ SourceGuard
  BY <1>4 DEF OuterRead, SourceGuard, EnterObserve
<1>5. CASE OperationDone
  BY <1>5 DEF OperationDone, Settles, PauseEnds
<1>6. CASE OperationDeclined \/ OperationFailed
  BY <1>6 DEF OperationDeclined, OperationFailed, PauseEnds
<1>7. CASE Probe \/ NoProbe
  BY <1>7 DEF Probe, NoProbe
<1> QED
  BY <1>1, <1>2, <1>3, <1>4, <1>5, <1>6, <1>7 DEF Outer, Supervise

\* Whoever acts while the supervisor stands there changes no output, or disturbs it.
LEMMA StandsUndisturbed ==
    ASSUME IInv, Act, RecordAct, pc'["supervisor"] \in Recovering, quiet'["supervisor"],
           ~Step("supervisor")
    PROVE  /\ pc'["supervisor"] = pc["supervisor"] /\ op'["supervisor"] = op["supervisor"]
           /\ quiet["supervisor"] /\ selected' = selected
<1> USE DEF Processes
<1>1. Outer \/ \E p \in Processes : Step(p) \/ RequestFails(p)
  BY ThreeKinds DEF Next
<1>2. ~RequestFails("supervisor")
  BY DEF RequestFails, Goto, IInv, TypeOK, Recovering, Puts
<1>3. pc'["supervisor"] = pc["supervisor"] /\ op'["supervisor"] = op["supervisor"]
  <2>1. CASE Outer
    BY <2>1, RecoversUnderLock
  <2>2. CASE Step("cli")
    BY <2>2, StepShape DEF IInv, TypeOK
  <2>3. CASE RequestFails("cli")
    BY <2>3, FailureShape DEF IInv, TypeOK
  <2> QED
    BY <1>1, <1>2, <2>1, <2>2, <2>3
<1>4. holder = "supervisor" /\ pc["cli"] \notin Locked
  BY <1>3 DEF IInv, LockHeld, Recovering, Locked, Reads, Writes
<1>5. quiet["supervisor"] /\ ~OutsideActs
  BY <1>4 DEF RecordAct
<1>6. selected' = selected
  <2>1. CASE Outer
    BY <1>5, <2>1, OuterShape DEF OutsideActs, owntone
  <2>2. CASE Step("cli")
    <3>1. ~PutOutputs("cli")
      BY <1>4 DEF PutOutputs, Locked, Writes
    <3> QED
      BY <2>2, <3>1 DEF Step, TakeLock, LockTimeout, SetMode, SetAutomatic, ReadOutputs,
         Validate, ReconcileRead, RestoreLevel, Verify, ReadPlayer, PutPlayer, InstallPipe,
         CheckQueue, PollPlayer, CheckOutputs, GuardUnderLock, SetLevel, SetPlayer, AddPipe,
         owntone
  <2>3. CASE RequestFails("cli")
    BY <1>4, <2>3, FailureShape DEF Locked, Writes
  <2> QED
    BY <1>1, <1>2, <2>1, <2>2, <2>3
<1> QED
  BY <1>3, <1>5, <1>6

\* Under the lock the reads and requests of the supervisor itself keep it.
LEMMA SparedByStep ==
    ASSUME IInv, Spared, Step("supervisor"), RecordAct
    PROVE  Spared'
<1> USE DEF Processes
<1> SUFFICES ASSUME quiet'["supervisor"], pc'["supervisor"] \in Recovering PROVE Spared'
  BY DEF Spared, Recovering, Puts
<1>0. /\ \A label : Goto("supervisor", label) => pc'["supervisor"] = label
      /\ op' = op /\ op["supervisor"] \in OpsAt(pc["supervisor"])
      /\ op["supervisor"] \notin Commands
  BY StepShape DEF Goto, IInv, TypeOK, OperationFits
<1>1. CASE TakeLock("supervisor")
  <2>1. pc'["supervisor"] = FirstStep("supervisor") /\ op["supervisor"] \notin {"none", "tick"}
    BY <1>0, <1>1 DEF TakeLock, OpsAt
  <2>2. op["supervisor"] \in Operations
    BY <1>0, <2>1 DEF OpsAt
  <2>3. pc'["supervisor"] = "validate" /\ op["supervisor"] = "wiim_disconnected"
    BY <2>1, <2>2 DEF FirstStep, Operations, Recovering, Puts
  <2> QED
    BY <1>0, <2>3 DEF Spared
<1>2. CASE ~TakeLock("supervisor")
  <2>1. holder' = holder
    BY <1>2 DEF Step, LockTimeout, LockTimesOut, SetMode, SetAutomatic, ReadOutputs, Validate,
       ReconcileRead, PutOutputs, RestoreLevel, Verify, ReadPlayer, PutPlayer, InstallPipe,
       CheckQueue, PollPlayer, CheckOutputs, GuardUnderLock, control
  <2>2. quiet["supervisor"]
    BY <2>1 DEF RecordAct
  <2>3. CASE ReadOutputs("supervisor")
    BY <1>0, <2>3 DEF ReadOutputs, AfterRead, OpsAt, Commands, Recovering, Puts, Spared, owntone
  <2>4. CASE Validate("supervisor")
    BY <1>0, <2>2, <2>4 DEF Validate, Spared, owntone, Recovering, Puts
  <2>5. CASE ReconcileRead("supervisor")
    BY <1>0, <2>2, <2>5 DEF ReconcileRead, Preserves, Spared, owntone, Commands
  <2>6. CASE PutOutputs("supervisor")
    <3>1. selected' \subseteq Pair
      BY <2>6, Asked, WantedType DEF PutOutputs
    <3>2. pc'["supervisor"] = "level"
      BY <1>0, <2>6 DEF PutOutputs, AfterPut, OpsAt, Puts, Commands, Recovering
    <3> QED
      BY <3>1, <3>2 DEF Spared
  <2>7. CASE RestoreLevel("supervisor")
    BY <1>0, <2>2, <2>7 DEF RestoreLevel, SetLevel, Spared
  <2>8. CASE GuardUnderLock("supervisor")
    BY <1>0, <2>8 DEF GuardUnderLock, OpsAt, Spared
  <2>9. ~ReadPlayer("supervisor")
    <3>1. queue \in {"bridge", "foreign", "empty"}
      BY DEF IInv, TypeOK, OwnToneTypeOK, Queues
    <3> QED
      BY <1>0, <3>1 DEF ReadPlayer, Recovering, Puts
  <2>10. /\ ~LockTimeout("supervisor") /\ ~SetAutomatic("supervisor") /\ ~Verify("supervisor")
         /\ ~PutPlayer("supervisor") /\ ~InstallPipe("supervisor") /\ ~CheckQueue("supervisor")
         /\ ~PollPlayer("supervisor") /\ ~CheckOutputs("supervisor")
    BY <1>0 DEF LockTimeout, SetAutomatic, Verify, PutPlayer, InstallPipe, CheckQueue,
       PollPlayer, CheckOutputs, Recovering, Puts
  <2>11. ~SetMode("supervisor")
    BY <1>0 DEF SetMode, OpsAt, Commands
  <2> QED
    BY <1>2, <2>3, <2>4, <2>5, <2>6, <2>7, <2>8, <2>9, <2>10, <2>11 DEF Step
<1> QED
  BY <1>1, <1>2

LEMMA SparedStep ==
    ASSUME IInv, Spared, [HNext]_hvars
    PROVE  Spared'
<1> SUFFICES ASSUME quiet'["supervisor"], pc'["supervisor"] \in Recovering PROVE Spared'
  BY DEF Spared, Recovering, Puts
<1>1. CASE UNCHANGED hvars
  BY <1>1 DEF hvars, vars, procs, owntone, Spared
<1>2. CASE Tick \/ TickBlocked \/ SupervisorRestarts
  <2>1. Outer
    BY <1>2 DEF Outer
  <2>2. \/ pc'["supervisor"] = pc["supervisor"] /\ pc["supervisor"] = "idle"
        \/ pc'["supervisor"] = "idle"
    BY <1>2, <2>1, RecoversUnderLock
    DEF Tick, BeginTick, TickBlocked, SupervisorRestarts, Leave, Enter, IInv, TypeOK, Processes
  <2> QED
    BY <2>2 DEF Recovering, Puts
<1>3. CASE Act /\ RecordAct /\ Step("supervisor")
  BY <1>3, SparedByStep
<1>4. CASE Act /\ RecordAct /\ ~Step("supervisor")
  BY <1>4, StandsUndisturbed DEF Spared
<1> QED
  BY <1>1, <1>2, <1>3, <1>4 DEF HNext

HInv == IInv /\ HistoryTypes /\ JoinReady /\ Looked /\ Spared

\* The inductive invariant with the history holds of every behaviour.
THEOREM HistoryInvariance == HSpec => []HInv
<1>1. HInit => HInv
  <2> SUFFICES ASSUME HInit PROVE HInv
    OBVIOUS
  <2>1. quiet \in [Processes -> BOOLEAN] /\ whole \in BOOLEAN /\ guarded \in BOOLEAN
    BY DEF HInit
  <2>2. idleTicks \in 0 .. IDLE_DISCONNECT
    BY OutputsAssumption DEF HInit
  <2>3. JoinReady /\ Looked /\ Spared
    BY DEF HInit, Init, JoinReady, Looked, Spared, Processes
  <2> QED
    BY <2>1, <2>2, <2>3, InitIInv DEF HInit, HInv, HistoryTypes
<1>2. HInv /\ [HNext]_hvars => HInv'
  BY HistoryStep, NextIInv, HistoryTypesStep, JoinReadyStep, LookedStep, SparedStep DEF HInv
<1> QED
  BY <1>1, <1>2, PTL DEF HSpec

\* Types, with the history.
THEOREM HistoryTypeCorrect == HSpec => []HistoryTypeOK
<1>1. HInv => HistoryTypeOK
  BY DEF HInv, IInv, HistoryTypes, HistoryTypeOK
<1> QED
  BY <1>1, HistoryInvariance, PTL

-----------------------------------------------------------------------------

\* Only a request selects the WiiM: the join of a reconciliation, or select-all.
LEMMA JoiningRequest ==
    ASSUME IInv, Next, NEW p \in Processes, Joins(p)
    PROVE  pc[p] = "join" \/ op[p] = "select_all"
<1> USE DEF Processes
<1>1. pc'[p] # pc[p] /\ "wiim" \in selected' \ selected
  BY DEF Joins
<1>2. \A q \in Processes : PutOutputs(q) \/ RequestFails(q) => q = p
  BY <1>1 DEF PutOutputs, RequestFails, Goto, IInv, TypeOK
<1>3. \A q \in Processes : Step(q) => PutOutputs(q)
  BY <1>1 DEF Step, TakeLock, LockTimeout, SetMode, SetAutomatic, ReadOutputs, Validate,
     ReconcileRead, RestoreLevel, Verify, ReadPlayer, PutPlayer, InstallPipe, CheckQueue,
     PollPlayer, CheckOutputs, GuardUnderLock, SetLevel, SetPlayer, AddPipe, owntone
<1>4. ~(Outside /\ UNCHANGED <<control, procs, idle, tick>>)
  BY <1>1 DEF procs
<1>5. ~Command /\ ~CommandEnds /\ ~CommandRetries /\ ~Supervise /\ ~CommandDies
      /\ ~Tick /\ ~TickBlocked /\ ~SupervisorRestarts
  BY <1>1 DEF Command, CommandEnds, CommandRetries, Supervise, OuterRead, SourceGuard,
     OperationDone, OperationDeclined, OperationFailed, Probe, NoProbe, CommandDies,
     Tick, BeginTick, TickBlocked, SupervisorRestarts, owntone
<1>6. PutOutputs(p) \/ RequestFails(p)
  BY <1>2, <1>3, <1>4, <1>5 DEF Next, Act, Disturbance
<1>7. pc[p] \in Puts /\ SetOutputs(Wanted(p))
  BY <1>1, <1>6 DEF PutOutputs, RequestFails, SetLevel, SetPlayer, AddPipe, owntone
<1>8. "wiim" \in Wanted(p)
  BY <1>1, <1>7, Asked
<1>9. op[p] \in OpsAt(pc[p])
  BY DEF IInv, OperationFits
<1> QED
  BY <1>7, <1>8, <1>9 DEF Wanted, OpsAt, Puts, Desired

\* README "restores the WiiM's configured level before joining it": while nothing
\* outside the lock interferes, every reconcile_once transaction does, whoever runs
\* it, whatever failed before it and whoever waits for the lock.
THEOREM ConfiguredJoin == HSpec => JoinsAtConfiguredLevel
<1>1. HInv /\ [HNext]_hvars =>
        [\A p \in Processes :
           Joins(p) /\ quiet[p] /\ op[p] # "select_all" => level = "configured"]_hvars
  <2> SUFFICES ASSUME HInv, HNext, NEW p \in Processes,
                      Joins(p), quiet[p], op[p] # "select_all"
               PROVE  level = "configured"
    OBVIOUS
  <2>1. Next
    BY DEF HNext, Next
  <2>2. pc[p] = "join"
    BY <2>1, JoiningRequest DEF HInv
  <2> QED
    BY <2>2 DEF HInv, JoinReady
<1> QED
  BY <1>1, HistoryInvariance, PTL DEF HSpec, JoinsAtConfiguredLevel

\* "Active playback reconnects ... only after topology/source guards", but for a pair
\* that loses its session between the supervisor's look and its lock: every other way
\* to the join leads through a source guard in the same tick.
THEOREM JoinGuarded == HSpec => JoinsGuarded
<1>1. HInv /\ [HNext]_hvars =>
        [Joins("supervisor") /\ Guarded /\ ~guarded
          => op["supervisor"] = "observe" /\ whole]_hvars
  <2> SUFFICES ASSUME HInv, HNext, Joins("supervisor"), Guarded, ~guarded
               PROVE  op["supervisor"] = "observe" /\ whole
    OBVIOUS
  <2>1. Next /\ "supervisor" \in Processes
    BY DEF HNext, Next, Processes
  <2>2. op["supervisor"] \in OpsAt(pc["supervisor"]) /\ op["supervisor"] \notin Commands
    BY <2>1 DEF HInv, IInv, OperationFits
  <2>3. pc["supervisor"] = "join"
    BY <2>1, <2>2, JoiningRequest DEF HInv, Commands
  <2>4. op["supervisor"] \in {"observe", "wiim_disconnected"}
    BY <2>2, <2>3 DEF OpsAt, Commands
  <2> QED
    BY <2>3, <2>4 DEF HInv, Looked, Rejoining
<1> QED
  BY <1>1, HistoryInvariance, PTL DEF HSpec, JoinsGuarded

\* "Leave unrelated user-selected outputs alone", but for the repair of a stale session
\* that finds the PC's output unselected: what observe() and the PC-only fallback read
\* under the lock is what they replace.
THEOREM OthersSpared == HSpec => ReplacesAlone
<1> DEFINE Sparing ==
      (/\ SupervisorSelects
       /\ op["supervisor"] \in {"observe", "wiim_disconnected", "fallback"}
       /\ quiet["supervisor"]
       /\ "other" \in selected \ selected')
       => op["supervisor"] = "wiim_disconnected" /\ "local" \notin selected
<1>1. HInv /\ [HNext]_hvars => [Sparing]_hvars
  <2> SUFFICES ASSUME HInv, HNext, SupervisorSelects,
                      op["supervisor"] \in {"observe", "wiim_disconnected", "fallback"},
                      quiet["supervisor"], "other" \in selected \ selected'
               PROVE  op["supervisor"] = "wiim_disconnected" /\ "local" \notin selected
    OBVIOUS
  <2>1. pc["supervisor"] \in Puts
    BY SelectingStep DEF HInv, HNext, Next
  <2>2. /\ op["supervisor"] = "fallback" => pc["supervisor"] = "put"
        /\ op["supervisor"] \in {"observe", "wiim_disconnected"} =>
             pc["supervisor"] \in {"drop_wiim", "clear", "join"}
    BY <2>1, WhatIsWanted DEF HInv
  <2>3. ~(selected \subseteq Pair)
    BY DEF Pair
  <2> QED
    BY <2>2, <2>3 DEF HInv, Spared
<1> QED
  BY <1>1, HistoryInvariance, PTL DEF HSpec, ReplacesAlone
=============================================================================
