------------------------ MODULE BridgeOutputs_proofs ------------------------
(***************************************************************************)
(* What holds of the two processes that change OwnTone's outputs, for any   *)
(* idle times, retry delays and number of commands and disturbances: the    *)
(* types, that the supervisor never goes against the stored intent, and     *)
(* that recovery keeps the PC's route.                                       *)
(***************************************************************************)
EXTENDS BridgeOutputs, TLAPS

\* Every label belongs to a few operations, and every operation to one process.
OpsAt(label) ==
    {o \in Commands \union Operations \union {"none"} :
        /\ label = "idle" => o = "none"
        /\ label = "lock" => o \notin {"none", "tick"}
        /\ label = "set_mode" => o \in {"stop", "select_local"}
        /\ label = "set_auto" => o \in {"select_all", "reconcile"}
        /\ label = "read" => o \in {"select_local", "select_all", "observe", "release",
                                    "mode", "fallback"}
        /\ label = "validate" => o \in {"select_all", "reconcile", "observe", "wiim_disconnected"}
        /\ label = "guard_locked" => o = "wiim_disconnected"
        /\ label \in {"reconcile_read", "drop_wiim", "clear", "level", "join", "relevel", "verify"}
            => o \in {"reconcile", "observe", "wiim_disconnected"}
        /\ label = "put" => o \in {"stop", "select_local", "select_all", "release", "mode",
                                   "fallback"}}

OperationFits ==
    /\ \A p \in Processes : op[p] \in OpsAt(pc[p])
    /\ op["cli"] \notin Operations
    /\ op["supervisor"] \notin Commands

\* The lock excludes.
LockHeld == \A p \in Processes : pc[p] \in Locked => holder = p

\* Between the supervisor's look at the policy under the lock and its last
\* request nobody stores another one.
Proceeding == Reads \union Writes \union {"done", "steady"}

PolicyHeld ==
    /\ op["supervisor"] = "mode" => mode \in {"local", "stopped"}
    /\ pc["supervisor"] \in Proceeding =>
        /\ op["supervisor"] \in {"observe", "pause", "release", "fallback", "wiim_disconnected"}
            => policy = "auto"
        /\ op["supervisor"] = "mode" => policy = mode

\* What recovery knows of the selection it read.
SelectionRead ==
    LET s == seen["supervisor"]
    IN  /\ pc["supervisor"] = "clear" => "local" \notin s
        /\ pc["supervisor"] \in {"drop_wiim", "level", "join"} /\ "local" \in s => s \subseteq Pair
        /\ pc["supervisor"] = "put" /\ op["supervisor"] = "fallback" => s \subseteq Pair

IInv == TypeOK /\ OperationFits /\ LockHeld /\ PolicyHeld /\ SelectionRead

-----------------------------------------------------------------------------

\* The initial state satisfies the inductive invariant.
LEMMA InitIInv == Init => IInv
<1> SUFFICES ASSUME Init PROVE IInv
  OBVIOUS
<1> USE OutputsAssumption DEF Init, Processes
<1>1. TypeOK
  <2>1. OwnToneTypeOK
    BY DEF OwnToneInit, OwnToneTypeOK, Outputs, Levels, Sources, Queues
  <2>2. ControlTypeOK /\ mode \in Modes
    BY DEF ControlInit, ControlTypeOK, Modes
  <2>3. "idle" \in Labels
    BY DEF Labels
  <2>4. /\ pc \in [Processes -> Labels]
        /\ op \in [Processes -> Commands \union Operations \union {"none"}]
        /\ seen \in [Processes -> SUBSET Outputs]
    BY <2>3
  <2>5. idleSince \in -1 .. IDLE_DISCONNECT /\ retryIn \in 0 .. MAX_DELAY
         /\ retryDelay \in 1 .. MAX_DELAY /\ commands \in 0 .. MaxCommands
         /\ disturbances \in 0 .. MaxDisturbances
    OBVIOUS
  <2> QED
    BY <2>1, <2>2, <2>4, <2>5 DEF TypeOK
<1>2. OperationFits
  BY DEF OperationFits, OpsAt, Commands, Operations
<1>3. LockHeld /\ PolicyHeld /\ SelectionRead
  BY DEF LockHeld, PolicyHeld, SelectionRead, Proceeding, Locked, Reads, Writes, Puts
<1> QED
  BY <1>1, <1>2, <1>3 DEF IInv

-----------------------------------------------------------------------------
(* What the steps of a process do to its control state *)

\* The labels, as one set.
LEMMA LabelSet ==
    Labels = {"read", "validate", "reconcile_read", "verify", "player", "poll", "installed",
              "check", "guard_locked", "put", "drop_wiim", "clear", "join", "level", "relevel",
              "play", "pause", "install", "set_mode", "set_auto", "done", "declined", "steady",
              "idle", "lock", "outer_read", "guard", "failed", "probe"}
BY DEF Labels, Locked, Reads, Writes, Puts

\* A step under the lock, or the one that takes it, keeps the operation and moves
\* on to a label the operation fits.
LEMMA StepShape ==
    ASSUME TypeOK, OperationFits, NEW p \in Processes, Step(p)
    PROVE  /\ op' = op
           /\ pc' = [pc EXCEPT ![p] = pc'[p]]
           /\ pc'[p] \in Labels
           /\ op[p] \in OpsAt(pc'[p])
<1>1. \A label : Goto(p, label) =>
        op' = op /\ pc' = [pc EXCEPT ![p] = pc'[p]] /\ pc'[p] = label
  BY DEF TypeOK, Goto
<1>2. op[p] \in OpsAt(pc[p]) /\ op[p] \in Commands \union Operations \union {"none"}
  BY DEF OperationFits, OpsAt
<1>3. CASE TakeLock(p)
  BY <1>3, <1>1, <1>2, LabelSet DEF OpsAt, Commands, Operations, TakeLock, FirstStep, Lock
<1>4. CASE LockTimeout(p)
  BY <1>4, <1>1, <1>2, LabelSet DEF OpsAt, Commands, Operations, LockTimeout, LockTimesOut
<1>5. CASE SetMode(p)
  BY <1>5, <1>1, <1>2, LabelSet DEF OpsAt, Commands, Operations, SetMode
<1>6. CASE SetAutomatic(p)
  BY <1>6, <1>1, <1>2, LabelSet DEF OpsAt, Commands, Operations, SetAutomatic
<1>7. CASE ReadOutputs(p)
  BY <1>7, <1>1, <1>2, LabelSet DEF OpsAt, Commands, Operations, ReadOutputs, AfterRead
<1>8. CASE Validate(p)
  BY <1>8, <1>1, <1>2, LabelSet DEF OpsAt, Commands, Operations, Validate
<1>9. CASE ReconcileRead(p)
  BY <1>9, <1>1, <1>2, LabelSet DEF OpsAt, Commands, Operations, ReconcileRead
<1>10. CASE PutOutputs(p)
  BY <1>10, <1>1, <1>2, LabelSet DEF OpsAt, Commands, Operations, PutOutputs, AfterPut, Puts
<1>11. CASE RestoreLevel(p)
  BY <1>11, <1>1, <1>2, LabelSet DEF OpsAt, Commands, Operations, RestoreLevel
<1>12. CASE Verify(p)
  BY <1>12, <1>1, <1>2, LabelSet DEF OpsAt, Commands, Operations, Verify
<1>13. CASE ReadPlayer(p)
  <2>1. queue \in {"bridge", "foreign", "empty"}
    BY DEF TypeOK, OwnToneTypeOK, Queues
  <2> QED
    BY <1>13, <2>1, <1>1, <1>2, LabelSet DEF OpsAt, Commands, Operations, ReadPlayer
<1>14. CASE PutPlayer(p)
  BY <1>14, <1>1, <1>2, LabelSet DEF OpsAt, Commands, Operations, PutPlayer
<1>15. CASE InstallPipe(p)
  BY <1>15, <1>1, <1>2, LabelSet DEF OpsAt, Commands, Operations, InstallPipe
<1>16. CASE CheckQueue(p)
  BY <1>16, <1>1, <1>2, LabelSet DEF OpsAt, Commands, Operations, CheckQueue
<1>17. CASE PollPlayer(p)
  BY <1>17, <1>1, <1>2, LabelSet DEF OpsAt, Commands, Operations, PollPlayer
<1>18. CASE CheckOutputs(p)
  BY <1>18, <1>1, <1>2, LabelSet DEF OpsAt, Commands, Operations, CheckOutputs
<1>19. CASE GuardUnderLock(p)
  BY <1>19, <1>1, <1>2, LabelSet DEF OpsAt, Commands, Operations, GuardUnderLock
<1> QED
  BY <1>3, <1>4, <1>5, <1>6, <1>7, <1>8, <1>9, <1>10, <1>11, <1>12, <1>13, <1>14, <1>15, <1>16, <1>17, <1>18, <1>19 DEF Step

\* It leaves the lock alone while it holds it, takes it, or gives up waiting.
LEMMA StepLock ==
    ASSUME IInv, NEW p \in Processes, Step(p)
    PROVE  /\ holder' = holder \/ (holder = "nobody" /\ holder' = p)
           /\ pc'[p] \in Locked => holder' = p
<1>1. pc[p] \in Locked => holder = p
  BY DEF IInv, LockHeld
<1>2. pc[p] = "lock" => TakeLock(p) \/ LockTimeout(p)
  BY DEF Step, SetMode, SetAutomatic, ReadOutputs, Validate, ReconcileRead, PutOutputs,
         RestoreLevel, Verify, ReadPlayer, PutPlayer, InstallPipe, CheckQueue, PollPlayer,
         CheckOutputs, GuardUnderLock, Puts
<1>3. CASE TakeLock(p)
  BY <1>3 DEF TakeLock, Lock
<1>4. CASE LockTimeout(p)
  <2>1. pc'[p] = "failed" /\ holder' = holder
    BY <1>4 DEF LockTimeout, LockTimesOut, Goto, IInv, TypeOK
  <2> QED
    BY <2>1 DEF Locked, Reads, Writes, Puts
<1>5. CASE ~TakeLock(p) /\ ~LockTimeout(p)
  <2>1. pc[p] \in Locked
    BY <1>5 DEF Step, SetMode, SetAutomatic, ReadOutputs, Validate, ReconcileRead, PutOutputs,
         RestoreLevel, Verify, ReadPlayer, PutPlayer, InstallPipe, CheckQueue, PollPlayer,
         CheckOutputs, GuardUnderLock, Locked, Reads, Writes, Puts
  <2>2. holder' = holder
    BY <1>5 DEF Step, SetMode, SetAutomatic, ReadOutputs, Validate, ReconcileRead, PutOutputs,
         RestoreLevel, Verify, ReadPlayer, PutPlayer, InstallPipe, CheckQueue, PollPlayer,
         CheckOutputs, GuardUnderLock, control
  <2> QED
    BY <1>1, <2>1, <2>2
<1> QED
  BY <1>3, <1>4, <1>5

\* Only a command stores a policy, under the lock.
LEMMA StepPolicy ==
    ASSUME IInv, NEW p \in Processes, Step(p)
    PROVE  policy' = policy \/ (p = "cli" /\ pc["cli"] \in Locked /\ policy' \in Modes)
<1>1. CASE SetMode(p) \/ SetAutomatic(p)
  <2>1. op[p] \in OpsAt(pc[p])
    BY DEF IInv, OperationFits
  <2>2. op[p] \in Commands
    BY <1>1, <2>1 DEF SetMode, SetAutomatic, OpsAt, Commands
  <2>3. p = "cli"
    BY <2>2 DEF IInv, OperationFits, Processes
  <2> QED
    BY <1>1, <2>3 DEF SetMode, SetAutomatic, set_mode, Locked, Modes
<1>2. CASE ~SetMode(p) /\ ~SetAutomatic(p)
  BY <1>2 DEF Step, TakeLock, LockTimeout, ReadOutputs, Validate, ReconcileRead, PutOutputs,
       RestoreLevel, Verify, ReadPlayer, PutPlayer, InstallPipe, CheckQueue, PollPlayer,
       CheckOutputs, GuardUnderLock, control
<1> QED
  BY <1>1, <1>2

\* A request for outputs gets no more than it asks for, and the PC's if it does.
LEMMA Asked ==
    ASSUME NEW outputs, SetOutputs(outputs)
    PROVE  /\ selected' \subseteq outputs
           /\ outputs \ {"wiim"} \subseteq selected'
BY DEF SetOutputs

\* Every request keeps OwnTone's state well typed.
LEMMA RequestTypes ==
    ASSUME OwnToneTypeOK, UNCHANGED world,
           \/ \E outputs \in SUBSET Outputs : SetOutputs(outputs)
           \/ SetLevel("configured")
           \/ SetPlayer("play") \/ SetPlayer("pause")
           \/ AddPipe
           \/ UNCHANGED owntone
    PROVE  OwnToneTypeOK'
<1> USE DEF OwnToneTypeOK, world
<1>1. ASSUME NEW outputs \in SUBSET Outputs, SetOutputs(outputs) PROVE OwnToneTypeOK'
  <2>1. selected' \in SUBSET Outputs
    BY <1>1, Asked
  <2>2. source' \in Sources /\ level' \in Levels
    BY <1>1 DEF SetOutputs, Sources, Levels
  <2> QED
    BY <1>1, <2>1, <2>2 DEF SetOutputs
<1>2. CASE SetLevel("configured")
  BY <1>2 DEF SetLevel, Levels
<1>3. CASE SetPlayer("play") \/ SetPlayer("pause")
  BY <1>3 DEF SetPlayer
<1>4. CASE AddPipe
  BY <1>4 DEF AddPipe, Queues
<1>5. CASE UNCHANGED owntone
  BY <1>5 DEF owntone
<1> QED
  BY <1>1, <1>2, <1>3, <1>4, <1>5

\* What a process asks for is a set of outputs.
LEMMA WantedType ==
    ASSUME IInv, NEW p \in Processes, pc[p] \in Puts
    PROVE  Wanted(p) \in SUBSET Pair
<1>1. op[p] \in OpsAt(pc[p])
  BY DEF IInv, OperationFits
<1> QED
  BY <1>1 DEF Wanted, OpsAt, Puts, Pair, Desired

-----------------------------------------------------------------------------
(* The steps under the lock keep the invariant *)

LEMMA StepTypes ==
    ASSUME IInv, NEW p \in Processes, Step(p)
    PROVE  TypeOK'
<1>1. /\ UNCHANGED <<world, idle, tick, bounds>>
      /\ seen' = seen \/ seen' = [seen EXCEPT ![p] = selected]
  BY DEF Step, TakeLock, LockTimeout, SetMode, SetAutomatic, ReadOutputs, Validate,
         ReconcileRead, PutOutputs, RestoreLevel, Verify, ReadPlayer, PutPlayer, InstallPipe,
         CheckQueue, PollPlayer, CheckOutputs, GuardUnderLock
<1>2. \/ \E outputs \in SUBSET Outputs : SetOutputs(outputs)
      \/ SetLevel("configured")
      \/ SetPlayer("play") \/ SetPlayer("pause")
      \/ AddPipe
      \/ UNCHANGED owntone
  <2>1. CASE PutOutputs(p)
    <3>1. Wanted(p) \in SUBSET Outputs
      BY <2>1, WantedType DEF PutOutputs, Pair, Outputs
    <3> QED
      BY <2>1, <3>1 DEF PutOutputs
  <2>2. CASE ~PutOutputs(p)
    BY <2>2 DEF Step, TakeLock, LockTimeout, SetMode, SetAutomatic, ReadOutputs, Validate,
         ReconcileRead, RestoreLevel, Verify, ReadPlayer, PutPlayer, InstallPipe,
         CheckQueue, PollPlayer, CheckOutputs, GuardUnderLock
  <2> QED
    BY <2>1, <2>2
<1>3. OwnToneTypeOK'
  BY <1>1, <1>2, RequestTypes DEF IInv, TypeOK
<1>4. ControlTypeOK'
  BY StepLock, StepPolicy DEF IInv, TypeOK, ControlTypeOK
<1>5. pc' \in [Processes -> Labels] /\ op' = op
  BY StepShape DEF IInv, TypeOK
<1>6. seen' \in [Processes -> SUBSET Outputs]
  BY <1>1 DEF IInv, TypeOK, OwnToneTypeOK
<1> QED
  BY <1>1, <1>3, <1>4, <1>5, <1>6 DEF IInv, TypeOK, idle, tick, bounds

\* The supervisor goes on only where the policy has just been looked at.
LEMMA StepProceeds ==
    ASSUME IInv, Step("supervisor"), pc'["supervisor"] \in Proceeding
    PROVE  pc["supervisor"] \in Proceeding \/ StillWanted("supervisor")
<1> DEFINE p == "supervisor"
<1>1. CASE TakeLock(p)
  <2>1. pc'[p] = FirstStep(p)
    BY <1>1 DEF TakeLock, Goto, IInv, TypeOK, Processes
  <2>2. "declined" \notin Proceeding
    BY DEF Proceeding, Reads, Writes, Puts
  <2> QED
    BY <2>1, <2>2 DEF FirstStep
<1>2. CASE LockTimeout(p)
  BY <1>2 DEF LockTimeout, Goto, IInv, TypeOK, Processes, Proceeding, Reads, Writes, Puts
<1>3. CASE SetMode(p) \/ SetAutomatic(p)
  BY <1>3 DEF SetMode, SetAutomatic, IInv, OperationFits, OpsAt, Commands, Processes
<1>4. CASE ~TakeLock(p) /\ ~LockTimeout(p) /\ ~SetMode(p) /\ ~SetAutomatic(p)
  BY <1>4 DEF Step, ReadOutputs, Validate, ReconcileRead, PutOutputs, RestoreLevel, Verify,
       ReadPlayer, PutPlayer, InstallPipe, CheckQueue, PollPlayer, CheckOutputs, GuardUnderLock,
       Proceeding, Reads, Writes, Puts
<1> QED
  BY <1>1, <1>2, <1>3, <1>4

LEMMA StepIInv ==
    ASSUME IInv, NEW p \in Processes, Step(p)
    PROVE  IInv'
<1>1. /\ op' = op /\ op[p] \in OpsAt(pc'[p])
      /\ \A q \in Processes : q # p => pc'[q] = pc[q]
  BY StepShape DEF IInv, TypeOK
<1>2. mode' = mode /\ (seen' = seen \/ seen' = [seen EXCEPT ![p] = selected])
  BY DEF Step, TakeLock, LockTimeout, SetMode, SetAutomatic, ReadOutputs, Validate,
         ReconcileRead, PutOutputs, RestoreLevel, Verify, ReadPlayer, PutPlayer, InstallPipe,
         CheckQueue, PollPlayer, CheckOutputs, GuardUnderLock, tick
<1>3. TypeOK'
  BY StepTypes
<1>4. OperationFits'
  BY <1>1 DEF IInv, OperationFits, OpsAt
<1>5. LockHeld'
  BY <1>1, StepLock DEF IInv, LockHeld, Processes
<1>6. PolicyHeld'
  <2>1. op'["supervisor"] = "mode" => mode' \in {"local", "stopped"}
    BY <1>1, <1>2 DEF IInv, PolicyHeld
  <2>2. Proceeding \subseteq Locked
    BY DEF Proceeding, Locked
  <2>3. CASE p = "cli"
    <3>1. pc'["supervisor"] = pc["supervisor"]
      BY <1>1, <2>3 DEF Processes
    <3>2. pc["supervisor"] \in Proceeding => policy' = policy
      <4> SUFFICES ASSUME pc["supervisor"] \in Proceeding, policy' # policy PROVE FALSE
        OBVIOUS
      <4>1. pc["cli"] \in Locked
        BY StepPolicy
      <4> QED
        BY <4>1, <2>2 DEF IInv, LockHeld, Processes
    <3> QED
      BY <1>1, <1>2, <2>1, <3>1, <3>2 DEF IInv, PolicyHeld
  <2>4. CASE p = "supervisor"
    <3>1. policy' = policy
      BY <2>4, StepPolicy
    <3>2. ASSUME pc'["supervisor"] \in Proceeding
          PROVE  pc["supervisor"] \in Proceeding \/ StillWanted("supervisor")
      BY <2>4, <3>2, StepProceeds
    <3> QED
      BY <1>1, <1>2, <2>1, <3>1, <3>2
      DEF IInv, PolicyHeld, StillWanted, automatic_enabled
  <2> QED
    BY <2>3, <2>4 DEF Processes
<1>7. SelectionRead'
  <2>1. CASE p = "cli"
    <3>1. /\ pc'["supervisor"] = pc["supervisor"]
          /\ seen'["supervisor"] = seen["supervisor"]
      BY <1>1, <1>2, <2>1 DEF Processes, IInv, TypeOK
    <3> QED
      BY <1>1, <3>1 DEF IInv, SelectionRead
  <2>2. CASE p = "supervisor"
    <3> DEFINE c == pc["supervisor"]
               n == pc'["supervisor"]
               s == seen'["supervisor"]
    <3>1. \A label : Goto("supervisor", label) => n = label
      BY DEF Goto, IInv, TypeOK, Processes
    <3>2. op["supervisor"] \in OpsAt(c) /\ op["supervisor"] \notin Commands
      BY DEF IInv, OperationFits, Processes
    <3> HIDE DEF n
    <3>3. CASE ReconcileRead("supervisor")
      <4>1. s = selected
        BY <3>3 DEF ReconcileRead, IInv, TypeOK, Processes
      <4>2. op["supervisor"] # "reconcile"
        BY <3>2 DEF Commands
      <4>3. /\ n = "clear" => "local" \notin s
            /\ n \in {"drop_wiim", "level", "join"} /\ "local" \in s => s \subseteq Pair
            /\ n # "put"
        BY <3>3, <3>1, <4>1, <4>2 DEF ReconcileRead, Preserves
      <4> QED
        BY <4>3 DEF SelectionRead, n
    <3>4. CASE ReadOutputs("supervisor")
      <4>1. s = selected
        BY <3>4 DEF ReadOutputs, IInv, TypeOK, Processes
      <4>2. /\ n \notin {"clear", "drop_wiim", "level", "join"}
            /\ n = "put" /\ op["supervisor"] = "fallback" => s \subseteq Pair
        BY <3>4, <3>1, <3>2, <4>1 DEF ReadOutputs, AfterRead, OpsAt
      <4> QED
        BY <1>1, <4>2 DEF SelectionRead, n
    <3>5. CASE PutOutputs("supervisor") \/ RestoreLevel("supervisor")
      <4>1. seen' = seen
        BY <3>5 DEF PutOutputs, RestoreLevel
      <4>2. CASE PutOutputs("supervisor")
        <5>1. n \notin {"put", "clear", "drop_wiim", "join"}
          BY <4>2, <3>1, <3>2 DEF PutOutputs, AfterPut, OpsAt, Puts
        <5>2. n = "level" => c \in {"drop_wiim", "clear"}
          BY <4>2, <3>1, <3>2 DEF PutOutputs, AfterPut, OpsAt, Puts
        <5> QED
          BY <4>1, <5>1, <5>2 DEF SelectionRead, IInv, n
      <4>3. CASE RestoreLevel("supervisor")
        <5>1. n \in {"join", "verify"} /\ (n = "join" => c = "level")
          BY <4>3, <3>1 DEF RestoreLevel
        <5> QED
          BY <4>1, <5>1 DEF SelectionRead, IInv, n
      <4> QED
        BY <3>5, <4>2, <4>3
    <3>6. CASE SetMode("supervisor")
      BY <3>6, <3>2 DEF SetMode, OpsAt, Commands
    <3>7. CASE /\ ~ReconcileRead("supervisor") /\ ~ReadOutputs("supervisor")
               /\ ~PutOutputs("supervisor") /\ ~RestoreLevel("supervisor")
               /\ ~SetMode("supervisor")
      <4>1. n \notin {"clear", "drop_wiim", "level", "join", "put"}
        <5>1. CASE TakeLock("supervisor")
          BY <5>1, <3>1, <3>2 DEF TakeLock, FirstStep, OpsAt, Operations
        <5>2. CASE ReadPlayer("supervisor")
          <6>1. queue \in {"bridge", "foreign", "empty"}
            BY DEF IInv, TypeOK, OwnToneTypeOK, Queues
          <6> QED
            BY <5>2, <6>1, <3>1 DEF ReadPlayer
        <5>3. CASE ~TakeLock("supervisor") /\ ~ReadPlayer("supervisor")
          BY <3>7, <5>3, <2>2, <3>1 DEF Step, LockTimeout, SetAutomatic, Validate, Verify,
             PutPlayer, InstallPipe, CheckQueue, PollPlayer, CheckOutputs, GuardUnderLock
        <5> QED
          BY <5>1, <5>2, <5>3
      <4> QED
        BY <4>1 DEF SelectionRead, n
    <3> QED
      BY <3>3, <3>4, <3>5, <3>6, <3>7
  <2> QED
    BY <2>1, <2>2 DEF Processes
<1> QED
  BY <1>3, <1>4, <1>5, <1>6, <1>7 DEF IInv

-----------------------------------------------------------------------------
(* All other steps: nothing enters the lock's section *)

\* A step that lets go of the lock, or does not touch it, and stores no policy.
LEMMA ElsewhereIInv ==
    ASSUME IInv, TypeOK', OperationFits',
           \A p \in Processes : pc'[p] \in Locked => /\ pc'[p] = pc[p]
                                                     /\ op'[p] = op[p]
                                                     /\ holder = p => holder' = p,
           UNCHANGED <<policy, seen>>,
           mode' = mode \/ pc["supervisor"] \notin Locked,
           op'["supervisor"] = "mode" => mode' \in {"local", "stopped"}
    PROVE  IInv'
<1>1. LockHeld'
  BY DEF IInv, LockHeld
<1>2. Proceeding \subseteq Locked /\ Puts \subseteq Locked /\ "level" \in Locked
  BY DEF Proceeding, Locked, Writes
<1>3. PolicyHeld'
  BY <1>2 DEF IInv, PolicyHeld, Processes
<1>4. SelectionRead'
  <2>1. {"clear", "drop_wiim", "level", "join", "put"} \subseteq Locked
    BY DEF Locked, Writes, Puts
  <2> QED
    BY <2>1 DEF IInv, SelectionRead, Processes
<1> QED
  BY <1>1, <1>3, <1>4 DEF IInv

\* The lock stays with another holder.
LEMMA Releases ==
    ASSUME NEW p \in Processes, NEW q \in Processes, p # q, holder = q, holder' = Unlocked(p)
    PROVE  holder' = q
BY DEF Unlocked, Processes

\* What a step of p to a label outside the lock does for the other conditions.
LEMMA Leaves ==
    ASSUME IInv, NEW p \in Processes, NEW o, NEW label \in Labels \ Locked,
           Enter(p, o, label) \/ (Goto(p, label) /\ o = op[p]),
           o \in OpsAt(label), p = "cli" => o \notin Operations,
           p = "supervisor" => o \notin Commands,
           holder' = holder \/ holder' = Unlocked(p)
    PROVE  /\ pc' \in [Processes -> Labels]
           /\ op' \in [Processes -> Commands \union Operations \union {"none"}]
           /\ op'[p] = o /\ pc'[p] = label
           /\ OperationFits'
           /\ \A q \in Processes : pc'[q] \in Locked => /\ pc'[q] = pc[q]
                                                        /\ op'[q] = op[q]
                                                        /\ holder = q => holder' = q
           /\ holder' \in Processes \union {"nobody"}
<1>1. o \in Commands \union Operations \union {"none"}
  BY DEF OpsAt
<1>2. /\ pc' = [pc EXCEPT ![p] = label]
      /\ op' = [op EXCEPT ![p] = o]
  BY DEF Enter, Goto, IInv, TypeOK
<1>3. /\ pc' \in [Processes -> Labels]
      /\ op' \in [Processes -> Commands \union Operations \union {"none"}]
      /\ op'[p] = o /\ pc'[p] = label
      /\ \A q \in Processes : q # p => pc'[q] = pc[q] /\ op'[q] = op[q]
  BY <1>1, <1>2 DEF IInv, TypeOK
<1>4. OperationFits'
  BY <1>3 DEF IInv, OperationFits, OpsAt, Processes
<1>5. holder' \in Processes \union {"nobody"}
  BY DEF IInv, TypeOK, ControlTypeOK, Unlocked
<1> QED
  BY <1>3, <1>4, <1>5, Releases

\* The labels outside the lock.
LEMMA OutsideLock ==
    {"idle", "lock", "outer_read", "guard", "failed", "probe"} \subseteq Labels \ Locked
BY DEF Labels, Locked, Reads, Writes, Puts

\* A supervisor between two ticks does nothing.
LEMMA IdleDoesNothing ==
    ASSUME IInv, NEW p \in Processes, pc[p] = "idle"
    PROVE  op[p] = "none"
BY DEF IInv, OperationFits, OpsAt

\* Age counts up to IDLE_DISCONNECT.
LEMMA AgeType == TypeOK => Age \in -1 .. IDLE_DISCONNECT
BY OutputsAssumption DEF TypeOK, Age

\* bridge.py: a command starts, ends, or tries again.
LEMMA CommandsIInv ==
    ASSUME IInv, Command \/ CommandEnds \/ CommandRetries
    PROVE  IInv'
<1> USE OutsideLock DEF Processes
<1>1. PICK o \in Commands \union {"none"}, label \in {"idle", "lock"} :
        /\ Enter("cli", o, label) \/ (Goto("cli", label) /\ o = op["cli"])
        /\ o = "none" <=> label = "idle"
  <2>1. CASE Command
    BY <2>1 DEF Command, Commands
  <2>2. CASE CommandEnds
    BY <2>2 DEF CommandEnds
  <2>3. CASE CommandRetries
    BY <2>3 DEF CommandRetries, Commands
  <2> QED
    BY <2>1, <2>2, <2>3
<1>2. o \in OpsAt(label) /\ o \notin Operations
  BY <1>1 DEF OpsAt, Commands, Operations
<1>3. holder' = holder \/ holder' = Unlocked("cli")
  BY DEF Command, CommandEnds, CommandRetries, control
<1>4. /\ UNCHANGED <<owntone, world, policy, seen, idle, tick, disturbances>>
      /\ commands' \in 0 .. MaxCommands
  BY OutputsAssumption DEF Command, CommandEnds, CommandRetries, control, bounds, IInv, TypeOK
<1>5. label \in Labels \ Locked
  BY <1>1
<1>6. /\ pc' \in [Processes -> Labels]
      /\ op' \in [Processes -> Commands \union Operations \union {"none"}]
      /\ OperationFits'
      /\ \A q \in Processes : pc'[q] \in Locked => /\ pc'[q] = pc[q]
                                                   /\ op'[q] = op[q]
                                                   /\ holder = q => holder' = q
      /\ holder' \in Processes \union {"nobody"}
  BY <1>1, <1>3, <1>2, <1>5, Leaves
<1>7. TypeOK'
  BY <1>4, <1>6 DEF IInv, TypeOK, OwnToneTypeOK, ControlTypeOK, owntone, world, idle, tick
<1>8. op'["supervisor"] = op["supervisor"]
  BY <1>1 DEF Enter, Goto, IInv, TypeOK
<1> QED
  BY <1>4, <1>6, <1>7, <1>8, ElsewhereIInv DEF tick, IInv, PolicyHeld

\* A tick starts an operation or does nothing.
LEMMA TickIInv ==
    ASSUME IInv, Tick
    PROVE  IInv'
<1> USE OutsideLock DEF Processes
<1>1. /\ pc["supervisor"] = "idle" /\ op["supervisor"] = "none"
      /\ mode' = policy /\ mode' \in Modes /\ playing' \in BOOLEAN
      /\ UNCHANGED <<owntone, world, control, seen, released, pipePaused, bounds>>
  BY IdleDoesNothing DEF Tick, BeginTick, soloist_has_active_playback, IInv, TypeOK, ControlTypeOK
<1>2. /\ idleSince' \in -1 .. IDLE_DISCONNECT
      /\ retryIn' \in 0 .. MAX_DELAY
      /\ retryDelay' \in 1 .. MAX_DELAY
      /\ suspect' \in {"none", "wiim_disconnected", "pcm_paused"}
  <2> USE AgeType, OutputsAssumption DEF IInv, TypeOK
  <2>1. CASE TickPlaying
    BY <2>1 DEF TickPlaying
  <2>2. CASE TickIdle
    BY <2>2 DEF TickIdle
  <2>3. CASE TickOther
    BY <2>3 DEF TickOther
  <2> QED
    BY <2>1, <2>2, <2>3 DEF Tick
<1>3. \/ UNCHANGED <<pc, op>>
      \/ \E o \in {"tick", "pause", "release", "mode"}, label \in {"outer_read", "lock"} :
            /\ Enter("supervisor", o, label)
            /\ o = "tick" => label = "outer_read"
            /\ o = "mode" => policy \in {"local", "stopped"}
  <2>1. policy \in {"auto", "local", "stopped", "manual"}
    BY DEF IInv, TypeOK, ControlTypeOK, Modes
  <2>2. CASE TickPlaying
    BY <2>2 DEF TickPlaying
  <2>3. CASE TickIdle
    BY <2>3 DEF TickIdle
  <2>4. CASE TickOther
    BY <2>1, <2>4 DEF TickOther
  <2> QED
    BY <2>2, <2>3, <2>4 DEF Tick
<1>4. CASE UNCHANGED <<pc, op>>
  <2>1. TypeOK' /\ OperationFits'
    BY <1>1, <1>2, <1>4 DEF IInv, TypeOK, OperationFits, OwnToneTypeOK, ControlTypeOK, owntone,
         world, control, bounds
  <2> QED
    BY <1>1, <1>4, <2>1, ElsewhereIInv DEF control
<1>5. CASE \E o \in {"tick", "pause", "release", "mode"}, label \in {"outer_read", "lock"} :
              /\ Enter("supervisor", o, label)
              /\ o = "tick" => label = "outer_read"
              /\ o = "mode" => policy \in {"local", "stopped"}
  <2>1. PICK o \in {"tick", "pause", "release", "mode"}, label \in {"outer_read", "lock"} :
              /\ Enter("supervisor", o, label)
              /\ o = "tick" => label = "outer_read"
              /\ o = "mode" => policy \in {"local", "stopped"}
    BY <1>5
  <2>2. label \in Labels \ Locked /\ o \in OpsAt(label) /\ o \notin Commands
    BY <2>1 DEF OpsAt, Commands, Operations
  <2>3. /\ pc' \in [Processes -> Labels]
        /\ op' \in [Processes -> Commands \union Operations \union {"none"}]
        /\ op'["supervisor"] = o
        /\ OperationFits'
        /\ \A q \in Processes : pc'[q] \in Locked => /\ pc'[q] = pc[q]
                                                     /\ op'[q] = op[q]
                                                     /\ holder = q => holder' = q
    BY <1>1, <2>1, <2>2, Leaves DEF control
  <2>4. TypeOK'
    BY <1>1, <1>2, <2>3 DEF IInv, TypeOK, OwnToneTypeOK, ControlTypeOK, owntone, world,
         control, bounds
  <2> QED
    BY <1>1, <2>1, <2>3, <2>4, ElsewhereIInv DEF control
<1> QED
  BY <1>3, <1>4, <1>5

\* The rest of a tick: reads outside the lock, results, probes.
LEMMA SuperviseIInv ==
    ASSUME IInv, Supervise
    PROVE  IInv'
<1> USE OutsideLock DEF Processes
<1>1. op["supervisor"] \in OpsAt(pc["supervisor"]) /\ op["supervisor"] \notin Commands
  BY DEF IInv, OperationFits
<1>2. PICK o \in Operations \union {"none"},
           label \in {"idle", "lock", "guard", "failed", "probe"} :
        /\ \/ Enter("supervisor", o, label) /\ o # "mode"
           \/ Goto("supervisor", label) /\ o = op["supervisor"] /\ label \notin {"idle", "lock"}
        /\ o = "none" => label # "lock"
        /\ label = "idle" => o = "none"
        /\ o # "tick" \/ label \in {"guard", "failed", "probe"}
  <2>1. op["supervisor"] \in Operations \union {"none"}
    BY <1>1 DEF OpsAt
  <2>2. CASE OuterRead
    BY <2>1, <2>2 DEF OuterRead, EnterObserve, Operations
  <2>3. CASE SourceGuard
    BY <2>1, <2>3 DEF SourceGuard, EnterObserve, Operations
  <2>4. CASE OperationDone
    BY <2>4 DEF OperationDone, Settles, PauseEnds, Leave, Operations
  <2>5. CASE OperationDeclined
    BY <2>5 DEF OperationDeclined, PauseEnds, Leave, Operations
  <2>6. CASE OperationFailed
    BY <2>6 DEF OperationFailed, Leave, Operations
  <2>7. CASE Probe
    BY <2>7 DEF Probe, Finding, Leave, Operations
  <2>8. CASE NoProbe
    BY <2>8 DEF NoProbe, Leave, Operations
  <2> QED
    BY <2>2, <2>3, <2>4, <2>5, <2>6, <2>7, <2>8 DEF Supervise
<1>3. /\ UNCHANGED <<owntone, world, policy, seen, mode, playing, bounds>>
      /\ holder' = holder \/ holder' = Unlocked("supervisor")
  BY DEF Supervise, OuterRead, SourceGuard, OperationDone, OperationDeclined, OperationFailed,
         Probe, NoProbe, control, tick
<1>4. /\ idleSince' \in -1 .. IDLE_DISCONNECT
      /\ released' \in BOOLEAN /\ pipePaused' \in BOOLEAN
      /\ retryIn' \in 0 .. MAX_DELAY
      /\ retryDelay' \in 1 .. MAX_DELAY
      /\ suspect' \in {"none", "wiim_disconnected", "pcm_paused"}
  <2> USE OutputsAssumption DEF IInv, TypeOK, idle, tick
  <2>1. CASE OuterRead \/ SourceGuard
    BY <2>1 DEF OuterRead, SourceGuard, EnterObserve
  <2>2. CASE OperationDone
    <3>1. /\ idleSince' = idleSince
          /\ released' = released \/ released' = TRUE \/ released' = FALSE
          /\ pipePaused' = pipePaused \/ pipePaused' = TRUE \/ pipePaused' = FALSE
          /\ (retryIn' = 0 /\ retryDelay' = 1) \/ UNCHANGED <<retryIn, retryDelay>>
          /\ suspect' = "none" \/ suspect' = suspect
      BY <2>2 DEF OperationDone, Settles
    <3>2. released' \in BOOLEAN /\ pipePaused' \in BOOLEAN
      BY <3>1, Zenon
    <3>3. idleSince' \in -1 .. IDLE_DISCONNECT
      BY <3>1
    <3>4. retryIn' \in 0 .. MAX_DELAY /\ retryDelay' \in 1 .. MAX_DELAY
      BY <3>1
    <3> QED
      BY <3>1, <3>2, <3>3, <3>4
  <2>3. CASE OperationFailed
    BY <2>3 DEF OperationFailed, Backoff
  <2>4. CASE Probe
    BY <2>4 DEF Probe, Finding
  <2>5. CASE OperationDeclined \/ NoProbe
    BY <2>5 DEF OperationDeclined, NoProbe
  <2> QED
    BY <2>1, <2>2, <2>3, <2>4, <2>5 DEF Supervise
<1>5. o \in OpsAt(label) /\ o \notin Commands /\ label \in Labels \ Locked
  BY <1>1, <1>2 DEF OpsAt, Commands, Operations
<1>6. Enter("supervisor", o, label) \/ (Goto("supervisor", label) /\ o = op["supervisor"])
  BY <1>2
<1>7. /\ pc' \in [Processes -> Labels]
      /\ op' \in [Processes -> Commands \union Operations \union {"none"}]
      /\ op'["supervisor"] = o
      /\ OperationFits'
      /\ \A q \in Processes : pc'[q] \in Locked => /\ pc'[q] = pc[q]
                                                   /\ op'[q] = op[q]
                                                   /\ holder = q => holder' = q
      /\ holder' \in Processes \union {"nobody"}
  BY <1>3, <1>5, <1>6, Leaves
<1>8. TypeOK'
  BY <1>3, <1>4, <1>7 DEF IInv, TypeOK, OwnToneTypeOK, ControlTypeOK, owntone, world, bounds
<1>9. op'["supervisor"] = "mode" => mode' \in {"local", "stopped"}
  BY <1>2, <1>3, <1>7 DEF IInv, PolicyHeld
<1> QED
  BY <1>3, <1>7, <1>8, <1>9, ElsewhereIInv

\* A blocked tick, a new supervisor, the end of a command: nobody enters the lock.
LEMMA InterruptionsIInv ==
    ASSUME IInv, TickBlocked \/ SupervisorRestarts \/ (Disturb /\ CommandDies)
    PROVE  IInv'
<1> USE OutsideLock DEF Processes
<1>1. /\ UNCHANGED <<owntone, world, policy, seen, mode, playing>>
      /\ commands' \in 0 .. MaxCommands /\ disturbances' \in 0 .. MaxDisturbances
  BY OutputsAssumption
  DEF TickBlocked, SupervisorRestarts, CommandDies, Disturb, control, procs, tick, IInv, TypeOK
<1>2. /\ idleSince' \in -1 .. IDLE_DISCONNECT
      /\ released' \in BOOLEAN /\ pipePaused' \in BOOLEAN
      /\ retryIn' \in 0 .. MAX_DELAY
      /\ retryDelay' \in 1 .. MAX_DELAY
      /\ suspect' \in {"none", "wiim_disconnected", "pcm_paused"}
  <2> USE AgeType, OutputsAssumption DEF IInv, TypeOK, tick, idle
  <2>1. CASE TickBlocked
    BY <2>1 DEF TickBlocked
  <2>2. CASE SupervisorRestarts
    <3>1. released' = FALSE /\ pipePaused' = FALSE /\ suspect' = "none"
      BY <2>2 DEF SupervisorRestarts
    <3>2. idleSince' = IDLE_DISCONNECT /\ retryIn' = 0 /\ retryDelay' = 1
      BY <2>2 DEF SupervisorRestarts
    <3>3. released' \in BOOLEAN /\ pipePaused' \in BOOLEAN
      BY <3>1, Zenon
    <3>4. /\ idleSince' \in -1 .. IDLE_DISCONNECT
          /\ retryIn' \in 0 .. MAX_DELAY /\ retryDelay' \in 1 .. MAX_DELAY
      BY <3>2
    <3> QED
      BY <3>1, <3>3, <3>4
  <2>3. CASE CommandDies
    BY <2>3 DEF CommandDies
  <2> QED
    BY <2>1, <2>2, <2>3
<1>3. CASE TickBlocked
  <2>1. UNCHANGED <<pc, op, holder>>
    BY <1>3 DEF TickBlocked, control, procs
  <2>2. TypeOK' /\ OperationFits'
    BY <1>1, <1>2, <2>1 DEF IInv, TypeOK, OperationFits, OwnToneTypeOK, ControlTypeOK, owntone,
         world
  <2> QED
    BY <1>1, <2>1, <2>2, ElsewhereIInv DEF IInv, PolicyHeld
<1>4. ASSUME NEW p \in Processes, Enter(p, "none", "idle"), holder' = Unlocked(p)
      PROVE  IInv'
  <2>1. "none" \in OpsAt("idle") /\ "none" \notin Operations /\ "none" \notin Commands
    BY DEF OpsAt, Operations, Commands
  <2>2. /\ pc' \in [Processes -> Labels]
        /\ op' \in [Processes -> Commands \union Operations \union {"none"}]
        /\ OperationFits'
        /\ \A q \in Processes : pc'[q] \in Locked => /\ pc'[q] = pc[q]
                                                     /\ op'[q] = op[q]
                                                     /\ holder = q => holder' = q
        /\ holder' \in Processes \union {"nobody"}
    BY <1>4, <2>1, Leaves
  <2>3. TypeOK'
    BY <1>1, <1>2, <2>2 DEF IInv, TypeOK, OwnToneTypeOK, ControlTypeOK, owntone, world
  <2>4. op'["supervisor"] = "mode" => mode' \in {"local", "stopped"}
    BY <1>1, <1>4 DEF Enter, IInv, TypeOK, PolicyHeld
  <2> QED
    BY <1>1, <2>2, <2>3, <2>4, ElsewhereIInv
<1>5. CASE SupervisorRestarts
  BY <1>4, <1>5 DEF SupervisorRestarts, Leave
<1>6. CASE CommandDies
  BY <1>4, <1>6 DEF CommandDies
<1> QED
  BY <1>3, <1>5, <1>6

\* A failed request lets its process go to "failed", where it may hold the lock.
LEMMA FailureIInv ==
    ASSUME IInv, Disturb, NEW p \in Processes, RequestFails(p)
    PROVE  IInv'
<1> USE OutsideLock DEF Processes
<1>1. /\ UNCHANGED <<world, control, seen, idle, tick>>
      /\ commands' \in 0 .. MaxCommands /\ disturbances' \in 0 .. MaxDisturbances
  BY OutputsAssumption DEF RequestFails, Disturb, IInv, TypeOK
<1>2. OwnToneTypeOK'
  <2>1. pc[p] \in Puts => Wanted(p) \in SUBSET Outputs
    BY WantedType DEF Pair, Outputs
  <2> QED
    BY <1>1, <2>1, RequestTypes DEF RequestFails, IInv, TypeOK
<1>3. /\ op[p] \in OpsAt("failed")
      /\ p = "cli" => op[p] \notin Operations
      /\ p = "supervisor" => op[p] \notin Commands
  BY DEF IInv, OperationFits, OpsAt
<1>4. /\ pc' \in [Processes -> Labels]
      /\ op' \in [Processes -> Commands \union Operations \union {"none"}]
      /\ OperationFits'
      /\ \A q \in Processes : pc'[q] \in Locked => /\ pc'[q] = pc[q]
                                                   /\ op'[q] = op[q]
                                                   /\ holder = q => holder' = q
  BY <1>1, <1>3, Leaves DEF RequestFails, control
<1>5. TypeOK'
  BY <1>1, <1>2, <1>4 DEF IInv, TypeOK, ControlTypeOK, control, idle, tick
<1>6. op' = op
  BY DEF RequestFails, Goto
<1> QED
  BY <1>1, <1>4, <1>5, <1>6, ElsewhereIInv DEF control, tick, IInv, PolicyHeld

\* What happens outside leaves both processes alone.
LEMMA OutsideIInv ==
    ASSUME IInv, Disturb, Outside, UNCHANGED <<control, procs, idle, tick>>
    PROVE  IInv'
<1>1. OwnToneTypeOK'
  <2> USE DEF IInv, TypeOK, OwnToneTypeOK, world, owntone
  <2>1. CASE SessionsDrop
    BY <2>1 DEF SessionsDrop, Sources
  <2>2. CASE WiimVanishes \/ WiimAppears
    BY <2>2 DEF WiimVanishes, WiimAppears, Sources, Levels
  <2>3. CASE SourceChanges
    BY <2>3 DEF SourceChanges
  <2>4. CASE GroupChanges \/ PcSinkChanges \/ PlaybackChanges
    BY <2>4 DEF GroupChanges, PcSinkChanges, PlaybackChanges
  <2>5. CASE ListenerSelects
    BY <2>5, RequestTypes DEF ListenerSelects
  <2>6. CASE ListenerPlays
    BY <2>6 DEF ListenerPlays, SetPlayer
  <2>7. CASE ListenerQueues
    BY <2>7 DEF ListenerQueues
  <2>8. CASE ListenerSetsLevel
    BY <2>8 DEF ListenerSetsLevel, SetLevel, Levels
  <2> QED
    BY <2>1, <2>2, <2>3, <2>4, <2>5, <2>6, <2>7, <2>8 DEF Outside
<1>2. commands' \in 0 .. MaxCommands /\ disturbances' \in 0 .. MaxDisturbances
  BY OutputsAssumption DEF Disturb, IInv, TypeOK
<1>3. TypeOK' /\ OperationFits'
  BY <1>1, <1>2 DEF IInv, TypeOK, OperationFits, ControlTypeOK, control, procs, idle, tick
<1> QED
  BY <1>3, ElsewhereIInv DEF control, procs, tick, IInv, PolicyHeld

-----------------------------------------------------------------------------

\* Every step keeps the inductive invariant.
LEMMA NextIInv == IInv /\ [Next]_vars => IInv'
<1> SUFFICES ASSUME IInv, [Next]_vars PROVE IInv'
  OBVIOUS
<1>1. CASE UNCHANGED vars
  <2>1. UNCHANGED <<owntone, world, control, procs, idle, tick, bounds>>
    BY <1>1 DEF vars
  <2> QED
    BY <2>1 DEF IInv, TypeOK, OwnToneTypeOK, ControlTypeOK, OperationFits, LockHeld, PolicyHeld,
         SelectionRead, owntone, world, control, procs, idle, tick, bounds
<1>2. CASE Next
  BY <1>2, StepIInv, CommandsIInv, TickIInv, SuperviseIInv, InterruptionsIInv, FailureIInv,
     OutsideIInv
  DEF Next, Act, Disturbance
<1> QED
  BY <1>1, <1>2

\* The inductive invariant holds of every behaviour.
THEOREM Invariance == Spec => []IInv
BY InitIInv, NextIInv, PTL DEF Spec

\* Types, for any idle times, delays and numbers of disturbances.
THEOREM TypeCorrect == Spec => []TypeOK
<1>1. IInv => TypeOK
  BY DEF IInv
<1> QED
  BY <1>1, Invariance, PTL

-----------------------------------------------------------------------------

\* Only a request of the supervisor is a step of it that changes the outputs.
LEMMA SelectingStep ==
    ASSUME IInv, [Next]_vars, SupervisorSelects
    PROVE  /\ pc["supervisor"] \in Puts
           /\ SetOutputs(Wanted("supervisor"))
           /\ UNCHANGED <<policy, seen>>
<1> USE DEF Processes
<1>1. selected' # selected /\ pc'["supervisor"] # pc["supervisor"]
  BY DEF SupervisorSelects
<1>2. \A p \in Processes : PutOutputs(p) => p = "supervisor"
  BY <1>1 DEF PutOutputs, Goto, IInv, TypeOK
<1>3. \A p \in Processes : RequestFails(p) => p = "supervisor"
  BY <1>1 DEF RequestFails, Goto, IInv, TypeOK
<1>4. \A p \in Processes : Step(p) => PutOutputs(p)
  BY <1>1 DEF Step, TakeLock, LockTimeout, SetMode, SetAutomatic, ReadOutputs, Validate,
     ReconcileRead, RestoreLevel, Verify, ReadPlayer, PutPlayer, InstallPipe, CheckQueue,
     PollPlayer, CheckOutputs, GuardUnderLock, SetLevel, SetPlayer, AddPipe, owntone
<1>5. ~(Outside /\ UNCHANGED <<control, procs, idle, tick>>)
  BY <1>1 DEF procs
<1>6. ~Command /\ ~CommandEnds /\ ~CommandRetries /\ ~Supervise /\ ~CommandDies
      /\ ~Tick /\ ~TickBlocked /\ ~SupervisorRestarts /\ ~UNCHANGED vars
  BY <1>1 DEF Command, CommandEnds, CommandRetries, Supervise, OuterRead, SourceGuard,
     OperationDone, OperationDeclined, OperationFailed, Probe, NoProbe, CommandDies,
     Tick, BeginTick, TickBlocked, SupervisorRestarts, vars, owntone
<1>7. PutOutputs("supervisor") \/ RequestFails("supervisor")
  BY <1>2, <1>3, <1>4, <1>5, <1>6 DEF Next, Act, Disturbance
<1>8. CASE PutOutputs("supervisor")
  BY <1>8 DEF PutOutputs, control
<1>9. CASE RequestFails("supervisor")
  BY <1>1, <1>9 DEF RequestFails, SetLevel, SetPlayer, AddPipe, owntone, control
<1> QED
  BY <1>7, <1>8, <1>9

\* A reconciliation asks for part of the pair, the other requests for what the
\* mode or the PC-only fallback is.
LEMMA WhatIsWanted ==
    ASSUME IInv, pc["supervisor"] \in Puts
    PROVE  /\ Wanted("supervisor") \in SUBSET Pair
           /\ op["supervisor"] \in {"observe", "wiim_disconnected", "release", "mode", "fallback"}
           /\ op["supervisor"] = "mode" => Wanted("supervisor") = Desired
           /\ op["supervisor"] = "fallback" => /\ pc["supervisor"] = "put"
                                               /\ Wanted("supervisor") = {"local"}
           /\ op["supervisor"] \in {"observe", "wiim_disconnected"} =>
                /\ pc["supervisor"] \in {"drop_wiim", "clear", "join"}
                /\ pc["supervisor"] # "clear" => "local" \in Wanted("supervisor")
<1>1. /\ op["supervisor"] \in OpsAt(pc["supervisor"])
      /\ op["supervisor"] \notin Commands
  BY DEF IInv, OperationFits, Processes
<1>2. Wanted("supervisor") \in SUBSET Pair
  BY WantedType DEF Processes
<1> QED
  BY <1>1, <1>2 DEF Wanted, OpsAt, Puts, Pair, Commands, Operations

\* The supervisor never goes against the stored intent.
THEOREM IntentObeyed == Spec => ObeysIntent
<1>1. IInv /\ [Next]_vars => [SupervisorSelects => Permitted(selected')]_vars
  <2> SUFFICES ASSUME IInv, [Next]_vars, SupervisorSelects PROVE Permitted(selected')
    OBVIOUS
  <2> DEFINE o == op["supervisor"]
  <2>1. /\ pc["supervisor"] \in Puts /\ policy' = policy
        /\ selected' \subseteq Wanted("supervisor")
        /\ Wanted("supervisor") \ {"wiim"} \subseteq selected'
    BY SelectingStep, Asked
  <2>2. /\ Wanted("supervisor") \in SUBSET Pair
        /\ o \in {"observe", "wiim_disconnected", "release", "mode", "fallback"}
        /\ o = "mode" => Wanted("supervisor") = Desired
    BY <2>1, WhatIsWanted
  <2>3. /\ o # "mode" => policy = "auto"
        /\ o = "mode" => policy = mode /\ mode \in {"local", "stopped"}
    BY <2>1, <2>2 DEF IInv, PolicyHeld, Proceeding, Writes
  <2> HIDE DEF o
  <2> QED
    BY <2>1, <2>2, <2>3 DEF Permitted, Desired
<1> QED
  BY <1>1, Invariance, PTL DEF Spec, ObeysIntent

\* Recovery keeps the PC route and whatever was selected beside it.
THEOREM AudiblePcKept == Spec => KeepsAudiblePc
<1> DEFINE Keeping ==
      (SupervisorSelects /\ op["supervisor"] \in {"observe", "fallback", "wiim_disconnected"})
        => ("local" \in seen["supervisor"]
            => \A o \in {"local", "other"} \cap seen["supervisor"] :
                    o \in selected => o \in selected')
<1>1. IInv /\ [Next]_vars => [Keeping]_vars
  <2> SUFFICES ASSUME IInv, [Next]_vars, SupervisorSelects,
                      op["supervisor"] \in {"observe", "fallback", "wiim_disconnected"},
                      "local" \in seen["supervisor"],
                      NEW o \in {"local", "other"} \cap seen["supervisor"], o \in selected
               PROVE  o \in selected'
    OBVIOUS
  <2>1. /\ pc["supervisor"] \in Puts
        /\ Wanted("supervisor") \ {"wiim"} \subseteq selected'
    BY SelectingStep, Asked
  <2>2. "local" \in Wanted("supervisor") /\ seen["supervisor"] \subseteq Pair
    BY <2>1, WhatIsWanted DEF IInv, SelectionRead
  <2> QED
    BY <2>1, <2>2 DEF Pair
<1> QED
  BY <1>1, Invariance, PTL DEF Spec, KeepsAudiblePc

-----------------------------------------------------------------------------
(* One transaction after the other *)

\* Who holds the lock is under way, a command under way is known, and one that takes
\* outputs away asks for it only after its intent is stored.
LockReleased == \A p \in Processes : holder = p => pc[p] \in Locked \union {"failed"}

StoredFirst ==
    pc["cli"] = "put" =>
        /\ op["cli"] = "stop" => policy = "stopped"
        /\ op["cli"] = "select_local" => policy = "local"

CommandKnown == op["cli"] = "none" => pc["cli"] = "idle"

SerialInv == LockReleased /\ StoredFirst /\ CommandKnown

\* A step under the lock leads to another, or fails.
LEMMA StepStays ==
    ASSUME IInv, NEW p \in Processes, Step(p), ~LockTimeout(p)
    PROVE  pc'[p] \in Locked \union {"failed"}
<1> USE DEF Locked, Reads, Writes, Puts
<1>0. \A label : Goto(p, label) => pc'[p] = label
  BY DEF Goto, IInv, TypeOK
<1>1. op[p] \in OpsAt(pc[p])
  BY DEF IInv, OperationFits
<1>2. CASE TakeLock(p)
  BY <1>0, <1>1, <1>2 DEF TakeLock, FirstStep, OpsAt, Commands, Operations
<1>3. CASE ReadOutputs(p)
  BY <1>0, <1>1, <1>3 DEF ReadOutputs, AfterRead, OpsAt
<1>4. CASE PutOutputs(p)
  BY <1>0, <1>1, <1>4 DEF PutOutputs, AfterPut, OpsAt
<1>5. CASE ReadPlayer(p)
  <2>1. queue \in {"bridge", "foreign", "empty"}
    BY DEF IInv, TypeOK, OwnToneTypeOK, Queues
  <2> QED
    BY <1>0, <1>5, <2>1 DEF ReadPlayer
<1>6. CASE \/ SetMode(p) \/ SetAutomatic(p) \/ Validate(p) \/ ReconcileRead(p)
           \/ RestoreLevel(p) \/ Verify(p) \/ PutPlayer(p) \/ InstallPipe(p)
           \/ CheckQueue(p) \/ PollPlayer(p) \/ CheckOutputs(p) \/ GuardUnderLock(p)
  BY <1>0, <1>6 DEF SetMode, SetAutomatic, Validate, ReconcileRead, RestoreLevel, Verify,
     PutPlayer, InstallPipe, CheckQueue, PollPlayer, CheckOutputs, GuardUnderLock
<1> QED
  BY <1>2, <1>3, <1>4, <1>5, <1>6 DEF Step

\* To the request of a command that takes outputs away leads its SetMode only.
LEMMA StepToPut ==
    ASSUME IInv, Step("cli"), pc'["cli"] = "put", op["cli"] \in {"stop", "select_local"}
    PROVE  SetMode("cli")
<1> USE DEF Processes
<1>0. \A label : Goto("cli", label) => pc'["cli"] = label
  BY DEF Goto, IInv, TypeOK
<1>1. op["cli"] \in OpsAt(pc["cli"])
  BY DEF IInv, OperationFits
<1>2. ~TakeLock("cli") /\ ~LockTimeout("cli") /\ ~SetAutomatic("cli")
  BY <1>0 DEF TakeLock, FirstStep, LockTimeout, SetAutomatic
<1>3. ~ReadOutputs("cli")
  BY <1>0, <1>1 DEF ReadOutputs, AfterRead, OpsAt
<1>4. ~PutOutputs("cli")
  BY <1>0, <1>1 DEF PutOutputs, AfterPut, OpsAt, Puts
<1>5. ~ReadPlayer("cli")
  <2>1. queue \in {"bridge", "foreign", "empty"}
    BY DEF IInv, TypeOK, OwnToneTypeOK, Queues
  <2> QED
    BY <1>0, <2>1 DEF ReadPlayer
<1>6. ~Validate("cli") /\ ~ReconcileRead("cli") /\ ~RestoreLevel("cli") /\ ~Verify("cli")
      /\ ~PutPlayer("cli") /\ ~InstallPipe("cli") /\ ~CheckQueue("cli") /\ ~PollPlayer("cli")
      /\ ~CheckOutputs("cli") /\ ~GuardUnderLock("cli")
  BY <1>0, <1>1 DEF Validate, ReconcileRead, RestoreLevel, Verify, PutPlayer, InstallPipe,
     CheckQueue, PollPlayer, CheckOutputs, GuardUnderLock, OpsAt
<1> QED
  BY <1>2, <1>3, <1>4, <1>5, <1>6 DEF Step

\* What the steps outside the lock do to it and to the control state of a command.
Outer ==
    Command \/ CommandEnds \/ CommandRetries \/ Supervise \/ CommandDies \/ Tick
    \/ TickBlocked \/ SupervisorRestarts \/ (Outside /\ UNCHANGED <<control, procs, idle, tick>>)

LEMMA OuterShape ==
    ASSUME IInv, Outer
    PROVE  /\ UNCHANGED policy
           /\ UNCHANGED <<holder, pc, op>> \/ UNCHANGED selected
           /\ op'["cli"] = "none" =>
                \/ pc'["cli"] = "idle"
                \/ op["cli"] = "none" /\ pc'["cli"] = pc["cli"]
           /\ \/ Command /\ UNCHANGED holder /\ pc["cli"] = "idle" /\ pc'["cli"] = "lock"
                 /\ pc'["supervisor"] = pc["supervisor"]
              \/ (CommandEnds \/ CommandRetries \/ CommandDies) /\ holder' = Unlocked("cli")
                 /\ pc'["cli"] \in {"idle", "lock"} /\ pc'["supervisor"] = pc["supervisor"]
              \/ /\ UNCHANGED holder /\ pc'["cli"] = pc["cli"] /\ op'["cli"] = op["cli"]
                 /\ pc'["supervisor"] # pc["supervisor"] =>
                      pc["supervisor"] \notin Locked \union {"failed"}
              \/ /\ holder' = Unlocked("supervisor")
                 /\ pc'["cli"] = pc["cli"] /\ op'["cli"] = op["cli"]
<1> USE OutsideLock DEF Processes, IInv, TypeOK, Enter, Goto, Leave, control, procs, owntone,
        world
<1>1. CASE Command
  BY <1>1 DEF Command, Commands
<1>2. CASE CommandEnds
  BY <1>2 DEF CommandEnds
<1>3. CASE CommandRetries
  BY <1>3 DEF CommandRetries
<1>4. CASE CommandDies
  BY <1>4 DEF CommandDies
<1>5. CASE Tick
  BY <1>5 DEF Tick, BeginTick, TickPlaying, TickIdle, TickOther
<1>6. CASE TickBlocked
  BY <1>6 DEF TickBlocked
<1>7. CASE SupervisorRestarts
  BY <1>7 DEF SupervisorRestarts
<1>8. CASE Outside /\ UNCHANGED <<control, procs, idle, tick>>
  BY <1>8
<1>9. CASE OuterRead
  BY <1>9 DEF OuterRead, EnterObserve
<1>10. CASE SourceGuard
  BY <1>10 DEF SourceGuard, EnterObserve
<1>11. CASE OperationDone
  BY <1>11 DEF OperationDone, Settles, PauseEnds
<1>12. CASE OperationDeclined
  BY <1>12 DEF OperationDeclined, PauseEnds
<1>13. CASE OperationFailed
  BY <1>13 DEF OperationFailed
<1>14. CASE Probe \/ NoProbe
  BY <1>14 DEF Probe, NoProbe
<1> QED
  BY <1>1, <1>2, <1>3, <1>4, <1>5, <1>6, <1>7, <1>8, <1>9, <1>10, <1>11, <1>12, <1>13, <1>14
  DEF Outer, Supervise

\* Every step is one of a process under the lock, one outside it, or a failed request.
LEMMA ThreeKinds ==
    ASSUME Next
    PROVE  Outer \/ \E p \in Processes : Step(p) \/ RequestFails(p)
  BY DEF Next, Act, Disturbance, Outer

LEMMA FailureShape ==
    ASSUME IInv, NEW p \in Processes, RequestFails(p)
    PROVE  /\ UNCHANGED <<policy, holder, op>>
           /\ pc' = [pc EXCEPT ![p] = "failed"] /\ pc[p] \notin {"failed", "idle"}
           /\ UNCHANGED selected \/ (pc[p] \in Puts /\ SetOutputs(Wanted(p)))
<1>1. pc[p] \notin {"failed", "idle"}
  BY DEF RequestFails, Reads, Writes, Puts
<1>2. UNCHANGED selected \/ (pc[p] \in Puts /\ SetOutputs(Wanted(p)))
  BY DEF RequestFails, SetLevel, SetPlayer, AddPipe, owntone
<1> QED
  BY <1>1, <1>2 DEF RequestFails, Goto, control

LEMMA SerialInitial ==
    ASSUME Init
    PROVE  SerialInv
  BY DEF Init, ControlInit, SerialInv, LockReleased, StoredFirst, CommandKnown, Processes

LEMMA SerialKept ==
    ASSUME IInv, SerialInv, [Next]_vars
    PROVE  SerialInv'
<1> USE DEF SerialInv, LockReleased, StoredFirst, CommandKnown, Processes
<1>1. CASE UNCHANGED vars
  BY <1>1 DEF vars, control, procs
<1>2. CASE Outer
  <2>1. "idle" \notin Locked \union {"failed"} /\ "lock" \notin Locked \union {"failed"}
    BY OutsideLock
  <2> QED
    BY <1>2, <2>1, OuterShape DEF Unlocked
<1>3. ASSUME NEW p \in Processes, RequestFails(p)
      PROVE  SerialInv'
  BY <1>3, FailureShape DEF IInv, TypeOK
<1>4. ASSUME NEW p \in Processes, Step(p)
      PROVE  SerialInv'
  <2>1. op' = op /\ \A q \in Processes : q # p => pc'[q] = pc[q]
    BY <1>4, StepShape DEF IInv, TypeOK
  <2>2. LockReleased'
    <3>1. CASE LockTimeout(p)
      BY <2>1, <3>1 DEF LockTimeout, LockTimesOut
    <3>2. CASE ~LockTimeout(p)
      BY <1>4, <2>1, <3>2, StepStays, StepLock
    <3> QED
      BY <3>1, <3>2
  <2>3. StoredFirst'
    <3>1. CASE p = "cli"
      <4> SUFFICES ASSUME pc'["cli"] = "put", op["cli"] \in {"stop", "select_local"}
                   PROVE  policy' = IF op["cli"] = "stop" THEN "stopped" ELSE "local"
        BY <2>1
      <4>1. SetMode("cli")
        BY <1>4, <3>1, StepToPut
      <4> QED
        BY <4>1 DEF SetMode, set_mode
    <3>2. CASE p = "supervisor"
      <4>1. policy' = policy
        BY <1>4, <3>2, StepPolicy
      <4> QED
        BY <2>1, <3>2, <4>1
    <3> QED
      BY <3>1, <3>2
  <2>4. CommandKnown'
    <3>1. pc[p] # "idle"
      BY <1>4 DEF Step, TakeLock, LockTimeout, SetMode, SetAutomatic, ReadOutputs, Validate,
         ReconcileRead, PutOutputs, RestoreLevel, Verify, ReadPlayer, PutPlayer, InstallPipe,
         CheckQueue, PollPlayer, CheckOutputs, GuardUnderLock, Puts
    <3> QED
      BY <2>1, <3>1
  <2> QED
    BY <2>2, <2>3, <2>4
<1> QED
  BY <1>1, <1>2, <1>3, <1>4, ThreeKinds

\* What is selected after a request.
LEMMA Gets ==
    ASSUME NEW outputs \in {{}, {"local"}, Pair}, SetOutputs(outputs)
    PROVE  /\ outputs = {} => selected' = {}
           /\ outputs = {"local"} => selected' = {"local"}
           /\ outputs = Pair => selected' \in {{"local"}, Pair}
  BY Asked DEF Pair

\* A request belongs to the transaction that is open, and follows its intent.
LEMMA RequestRefines ==
    ASSUME IInv, SerialInv, NEW p \in Processes, pc[p] \in Puts, SetOutputs(Wanted(p)),
           UNCHANGED <<policy, holder, op>>
    PROVE  Transactions!Next
<1>1. holder = p /\ Working' = Working
  BY DEF IInv, LockHeld, Locked, Writes, Working
<1>2. op[p] \in OpsAt(pc[p])
  BY DEF IInv, OperationFits
<1>3. /\ Wanted(p) = {} => selected' = {}
      /\ Wanted(p) = {"local"} => selected' = {"local"}
      /\ Wanted(p) = Pair => selected' \in {{"local"}, Transactions!Both}
  BY Gets DEF Pair, Transactions!Both
<1>4. CASE p = "cli"
  <2>1. Working = op["cli"]
    BY <1>1, <1>4 DEF Working
  <2>2. \/ op["cli"] \in {"stop", "select_local", "select_all"} /\ pc["cli"] = "put"
        \/ op["cli"] = "reconcile"
    BY <1>2, <1>4 DEF OpsAt, Puts, IInv, OperationFits, Operations
  <2>3. /\ op["cli"] = "stop" => Wanted(p) = {}
        /\ op["cli"] = "select_local" => Wanted(p) = {"local"}
        /\ op["cli"] = "select_all" => Wanted(p) = Pair
        /\ op["cli"] = "reconcile" => Wanted(p) \in {{}, {"local"}, Pair}
    BY <1>2, <1>4, <2>2 DEF Wanted, OpsAt, Puts
  <2>4. selected' \in Transactions!Leaves[op["cli"]]
    <3>1. CASE op["cli"] = "stop"
      BY <1>3, <2>3, <3>1 DEF Transactions!Leaves
    <3>2. CASE op["cli"] = "select_local"
      BY <1>3, <2>3, <3>2 DEF Transactions!Leaves
    <3>3. CASE op["cli"] = "select_all"
      BY <1>3, <2>3, <3>3 DEF Transactions!Leaves
    <3>4. CASE op["cli"] = "reconcile"
      BY <1>3, <2>3, <3>4 DEF Transactions!Leaves
    <3> QED
      BY <2>2, <3>1, <3>2, <3>3, <3>4
  <2>5. op["cli"] \in Transactions!IntentFirst => policy = Transactions!Intent[op["cli"]]
    BY <2>2 DEF Transactions!IntentFirst, Transactions!Intent, SerialInv, StoredFirst
  <2>6. op["cli"] \in Transactions!Commands
    BY <2>2 DEF Transactions!Commands, Transactions!Intent
  <2> QED
    BY <1>1, <2>1, <2>4, <2>5, <2>6 DEF Transactions!CommandRequests, Transactions!Next
<1>5. CASE p = "supervisor"
  <2>1. Working = "automatic"
    BY <1>1, <1>5 DEF Working
  <2> DEFINE o == op["supervisor"]
  <2>2. /\ o \in {"observe", "wiim_disconnected", "release", "mode", "fallback"}
        /\ o = "mode" => Wanted(p) = Desired
        /\ o # "mode" => Wanted(p) \in {{}, {"local"}, Pair}
    <3>1. o \in {"observe", "wiim_disconnected", "release", "mode", "fallback"}
          /\ (o = "mode" => Wanted(p) = Desired)
      BY <1>5, WhatIsWanted
    <3>2. o # "mode" => Wanted(p) \in {{}, {"local"}, Pair}
      BY <1>2, <1>5, <3>1 DEF Wanted, OpsAt, Puts
    <3> QED
      BY <3>1, <3>2
  <2>3. /\ o # "mode" => policy = "auto"
        /\ o = "mode" => policy = mode /\ mode \in {"local", "stopped"}
    BY <1>5, <2>2 DEF IInv, PolicyHeld, Proceeding, Writes
  <2> HIDE DEF o
  <2>4. selected' \in Transactions!Permits[policy]
    <3>1. CASE o = "mode"
      BY <1>3, <2>2, <2>3, <3>1 DEF Desired, Transactions!Permits
    <3>2. CASE o # "mode"
      BY <1>3, <2>2, <2>3, <3>2 DEF Transactions!Permits
    <3> QED
      BY <3>1, <3>2
  <2> QED
    BY <1>1, <2>1, <2>4 DEF Transactions!SupervisorRequests, Transactions!Next
<1> QED
  BY <1>4, <1>5 DEF Processes

LEMMA WorkingTyped ==
    ASSUME IInv, SerialInv, holder = "cli"
    PROVE  op["cli"] \in Commands
<1>1. pc["cli"] # "idle"
  BY DEF SerialInv, LockReleased, Locked, Reads, Writes, Puts, Processes
<1>2. op["cli"] # "none" /\ op["cli"] \notin Operations
  BY <1>1 DEF SerialInv, CommandKnown, IInv, OperationFits
<1>3. op["cli"] \in Commands \union Operations \union {"none"}
  BY DEF IInv, TypeOK, Processes
<1> QED
  BY <1>2, <1>3

\* A step under the lock opens the transaction, or is one of its own.
LEMMA StepRefines ==
    ASSUME IInv, SerialInv, NEW p \in Processes, Step(p)
    PROVE  Transactions!Next
<1> USE DEF Transactions!Next
<1>1. op' = op /\ op[p] \in OpsAt(pc[p])
  BY StepShape DEF IInv, OperationFits
<1>2. /\ p = "cli" => op[p] \notin Operations
      /\ p \in {"cli", "supervisor"}
  BY DEF IInv, OperationFits, Processes
<1>3. Transactions!Commands = Commands
  BY DEF Transactions!Commands, Transactions!Intent, Commands
<1>4. CASE TakeLock(p)
  <2>1. holder = "nobody" /\ holder' = p /\ UNCHANGED <<policy, selected>>
    BY <1>4 DEF TakeLock, Lock, owntone
  <2>2. op[p] # "none"
    BY <1>1, <1>4 DEF TakeLock, OpsAt
  <2>3. Working = "none" /\ Working' = IF p = "cli" THEN op["cli"] ELSE "automatic"
    BY <1>1, <1>2, <2>1 DEF Working
  <2>4. p = "cli" => op["cli"] \in Commands
    BY <1>1, <1>2, <2>2 DEF OpsAt
  <2> QED
    BY <1>2, <1>3, <2>1, <2>3, <2>4 DEF Transactions!Begin
<1>5. CASE SetMode(p) \/ SetAutomatic(p)
  <2>1. /\ op[p] \in Commands /\ p = "cli"
        /\ holder = p /\ UNCHANGED <<holder, selected>>
    BY <1>1, <1>2, <1>5
    DEF SetMode, SetAutomatic, OpsAt, Commands, IInv, OperationFits, LockHeld, Locked, owntone
  <2>2. policy' = Transactions!Intent[op[p]]
    BY <1>1, <1>5, <2>1
    DEF SetMode, SetAutomatic, set_mode, OpsAt, Transactions!Intent
  <2>3. Working = op[p] /\ Working' = Working
    BY <1>1, <2>1 DEF Working
  <2> QED
    BY <1>3, <2>1, <2>2, <2>3 DEF Transactions!Intend
<1>6. CASE PutOutputs(p)
  BY <1>1, <1>6, RequestRefines DEF PutOutputs, control
<1>7. CASE ~(TakeLock(p) \/ SetMode(p) \/ SetAutomatic(p) \/ PutOutputs(p))
  <2>1. UNCHANGED <<policy, holder, selected>>
    BY <1>7 DEF Step, LockTimeout, LockTimesOut, ReadOutputs, Validate, ReconcileRead,
       RestoreLevel, Verify, ReadPlayer, PutPlayer, InstallPipe, CheckQueue, PollPlayer,
       CheckOutputs, GuardUnderLock, SetLevel, SetPlayer, AddPipe, owntone, control
  <2> QED
    BY <1>1, <2>1 DEF Working, Transactions!Proceed
<1> QED
  BY <1>4, <1>5, <1>6, <1>7

\* What ends a transaction is the release of the lock.
LEMMA ReleaseEnds ==
    ASSUME IInv, SerialInv, NEW p \in Processes, holder' = Unlocked(p),
           UNCHANGED <<policy, selected>>,
           holder = "cli" => p = "cli" \/ UNCHANGED op["cli"]
    PROVE  Transactions!Next
<1>1. holder \in {"cli", "supervisor", "nobody"} /\ p \in {"cli", "supervisor"}
  BY DEF IInv, TypeOK, ControlTypeOK, Processes
<1>2. CASE holder = p
  <2>1. Working' = "none"
    BY <1>2 DEF Unlocked, Working
  <2>2. Working # "none"
    BY <1>1, <1>2, WorkingTyped DEF Working, Commands
  <2> QED
    BY <2>1, <2>2 DEF Transactions!End, Transactions!Next
<1>3. CASE holder # p
  <2>1. Working' = Working
    BY <1>1, <1>3 DEF Unlocked, Working
  <2> QED
    BY <2>1 DEF Transactions!Proceed, Transactions!Next
<1> QED
  BY <1>2, <1>3

LEMMA OuterRefines ==
    ASSUME IInv, SerialInv, Outer
    PROVE  Transactions!Next
<1> USE OuterShape DEF Processes
<1>1. CASE UNCHANGED <<holder, pc, op>>
  BY <1>1 DEF Working, Transactions!Elsewhere, Transactions!Next
<1>2. CASE UNCHANGED selected
  <2>1. CASE Command
    <3>1. pc["cli"] = "idle" /\ UNCHANGED <<holder, policy>>
      BY <2>1 DEF Command, control
    <3>2. holder # "cli"
      BY <3>1 DEF SerialInv, LockReleased, Locked, Reads, Writes, Puts
    <3> QED
      BY <1>2, <3>1, <3>2 DEF Working, Transactions!Proceed, Transactions!Next
  <2>2. CASE UNCHANGED <<holder, policy, op["cli"]>>
    BY <1>2, <2>2 DEF Working, Transactions!Proceed, Transactions!Next
  <2>3. CASE holder' = Unlocked("cli") /\ UNCHANGED policy
    BY <1>2, <2>3, ReleaseEnds
  <2>4. CASE holder' = Unlocked("supervisor") /\ UNCHANGED <<policy, op["cli"]>>
    BY <1>2, <2>4, ReleaseEnds
  <2> QED
    BY <2>1, <2>2, <2>3, <2>4
<1> QED
  BY <1>1, <1>2

LEMMA NextRefines ==
    ASSUME IInv, SerialInv, [Next]_vars
    PROVE  [Transactions!Next]_(Transactions!vars)
<1>1. CASE UNCHANGED vars
  BY <1>1 DEF vars, owntone, control, procs, Working, Transactions!vars
<1>2. CASE Outer
  BY <1>2, OuterRefines
<1>3. ASSUME NEW p \in Processes, Step(p)
      PROVE  Transactions!Next
  BY <1>3, StepRefines
<1>4. ASSUME NEW p \in Processes, RequestFails(p)
      PROVE  Transactions!Next
  <2>1. UNCHANGED <<policy, holder, op>>
    BY <1>4, FailureShape
  <2>2. CASE UNCHANGED selected
    BY <2>1, <2>2 DEF Working, Transactions!Proceed, Transactions!Next
  <2>3. CASE pc[p] \in Puts /\ SetOutputs(Wanted(p))
    BY <2>1, <2>3, RequestRefines
  <2> QED
    BY <1>4, <2>2, <2>3, FailureShape
<1> QED
  BY <1>1, <1>2, <1>3, <1>4, ThreeKinds

\* The two processes implement transactions one after the other, whatever fails in the
\* middle of one, dies in it or acts beside it.
THEOREM TransactionsRefined == Spec => RefinesTransactions
<1>1. Init => Transactions!Init
  BY DEF Init, OwnToneInit, ControlInit, Working, Transactions!Init
<1>2. Spec => []SerialInv
  <2>1. Init => SerialInv
    BY SerialInitial
  <2>2. IInv /\ SerialInv /\ [Next]_vars => SerialInv'
    BY SerialKept
  <2> QED
    BY <2>1, <2>2, Invariance, PTL DEF Spec
<1>3. IInv /\ SerialInv /\ [Next]_vars => [Transactions!Next]_(Transactions!vars)
  BY NextRefines
<1> QED
  BY <1>1, <1>2, <1>3, Invariance, PTL DEF Spec, Transactions!Spec, RefinesTransactions
=============================================================================
