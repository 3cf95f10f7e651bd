---------------------------- MODULE BridgeOutputs ----------------------------
(***************************************************************************)
(* The two processes that change OwnTone's outputs: a bridge.py command and *)
(* the playback supervisor (Runtime.reconcile and repair of                 *)
(* bridge_supervisor.py, IdleOutputController of volume_handoff.py).        *)
(*                                                                         *)
(* One step is one request to OwnTone or to the WiiM, so that everything    *)
(* outside, the other process and a listener at OwnTone's own interface,    *)
(* may act between a read and the request it decides.  Any request may      *)
(* fail, with or without effect, and either process may die at any point.   *)
(*                                                                         *)
(* Read together: the four volume and offset requests of a level, the       *)
(* player and queue reads before a player request, a mode read and the lock *)
(* it follows.  Time passes in supervisor ticks.  A local output missing    *)
(* from OwnTone's list raises where a failed read raises: it is that read.  *)
(***************************************************************************)
EXTENDS OwnTone, OutputControl, FiniteSets

CONSTANTS
    Guarded,            \* WIIM_SOURCE_PRIORITY = guarded
    KeepaliveEnabled,   \* the outputs stay connected while idle
    IDLE_PIPE_PAUSE,    \* ticks of idle before the PCM pipe is paused
    IDLE_DISCONNECT,    \* ticks of idle before the pair is released
    MAX_DELAY,          \* longest retry delay, in ticks
    MaxCommands,        \* bound: bridge.py commands
    MaxDisturbances     \* bound: outside events, failed requests and crashes

ASSUME OutputsAssumption ==
    /\ Guarded \in BOOLEAN
    /\ KeepaliveEnabled \in BOOLEAN
    /\ IDLE_PIPE_PAUSE \in Nat \ {0}
    /\ IDLE_DISCONNECT \in Nat
    /\ IDLE_PIPE_PAUSE <= IDLE_DISCONNECT
    /\ MAX_DELAY \in Nat \ {0}
    /\ MaxCommands \in Nat
    /\ MaxDisturbances \in Nat

VARIABLES
    pc,            \* per process: the next step of its operation
    op,            \* per process: the operation
    seen,          \* per process: the selection its last read returned
    mode,          \* the mode the tick began with
    playing,       \* what Runtime.playing() answered in this tick
    idleSince,     \* ticks since idle_since; -1 stands for None
    released,      \* IdleOutputController.released
    pipePaused,    \* IdleOutputController.pipe_paused
    retryIn,       \* ticks until retry_at
    retryDelay,    \* retry_delay in ticks
    suspect,       \* the fault the last probe found, awaiting a second one
    commands, disturbances

procs  == <<pc, op, seen>>
idle   == <<idleSince, released, pipePaused, retryIn, retryDelay>>
tick   == <<mode, playing, suspect>>
bounds == <<commands, disturbances>>
vars   == <<owntone, world, control, procs, idle, tick, bounds>>

Commands == {"stop", "select_local", "select_all", "reconcile"}

\* What the supervisor does within a tick: look outside the lock ("tick"),
\* IdleOutputController.observe with its pause and release, the modes other than
\* auto, the PC-only fallback, and the two repairs that touch OwnTone.
Operations == {"tick", "observe", "pause", "release", "mode", "fallback",
               "wiim_disconnected", "pcm_paused"}

\* Steps under the lock that read, and that write, through an interface.
Reads  == {"read", "validate", "reconcile_read", "verify", "player", "poll",
           "installed", "check", "guard_locked"}
Puts   == {"put", "drop_wiim", "clear", "join"}
Writes == Puts \union {"level", "relevel", "play", "pause", "install"}

\* Every step at which the lock is held: "done" and "declined" are a return
\* from the `with` block with the operation carried out or not called for.
Locked == Reads \union Writes \union {"set_mode", "set_auto", "done", "declined", "steady"}

Labels == Locked \union {"idle", "lock", "outer_read", "guard", "failed", "probe"}

TypeOK ==
    /\ OwnToneTypeOK
    /\ ControlTypeOK
    /\ pc \in [Processes -> Labels]
    /\ op \in [Processes -> Commands \union Operations \union {"none"}]
    /\ seen \in [Processes -> SUBSET Outputs]
    /\ mode \in Modes
    /\ playing \in BOOLEAN
    /\ idleSince \in -1 .. IDLE_DISCONNECT
    /\ released \in BOOLEAN
    /\ pipePaused \in BOOLEAN
    /\ retryIn \in 0 .. MAX_DELAY
    /\ retryDelay \in 1 .. MAX_DELAY
    /\ suspect \in {"none", "wiim_disconnected", "pcm_paused"}
    /\ commands \in 0 .. MaxCommands
    /\ disturbances \in 0 .. MaxDisturbances

\* Runtime.__init__ dates idle_since back: an idle start releases at once.
Init ==
    /\ OwnToneInit
    /\ ControlInit
    /\ pc = [p \in Processes |-> "idle"]
    /\ op = [p \in Processes |-> "none"]
    /\ seen = [p \in Processes |-> {}]
    /\ mode = policy
    /\ playing = FALSE
    /\ idleSince = IDLE_DISCONNECT
    /\ released = FALSE
    /\ pipePaused = FALSE
    /\ retryIn = 0
    /\ retryDelay = 1
    /\ suspect = "none"
    /\ commands = 0
    /\ disturbances = 0

-----------------------------------------------------------------------------
(* Where an operation goes next *)

Goto(p, label) == pc' = [pc EXCEPT ![p] = label] /\ UNCHANGED op

Enter(p, operation, label) ==
    /\ op' = [op EXCEPT ![p] = operation]
    /\ pc' = [pc EXCEPT ![p] = label]

-----------------------------------------------------------------------------
(* Faults: wrong versions of definitions below, each refuting a property. *)

\* What was true before the lock is not looked at again.
StillWantedUnchecked(p) == TRUE

\* A pair once released is not released again.
StillWantedOnce(p) ==
    /\ op[p] \in {"observe", "pause", "release"} => automatic_enabled
    /\ op[p] = "release" => ~released

\* An incomplete pair is taken for a listener's choice.
IncompleteOnlyIfEmpty == selected = {}

\* The PC route is recycled along with the WiiM's.
PreservesNothing(p, outputs) == FALSE

\* The configured level is verified but never set.
RestoreLevelNever(p) ==
    /\ pc[p] \in {"level", "relevel"}
    /\ Goto(p, IF pc[p] = "level" THEN "join" ELSE "verify")
    /\ UNCHANGED <<owntone, world, control, seen, idle, tick, bounds>>

\* A stopped system is left alone like a manual one.
TickOtherLeavesStopped ==
    /\ policy # "auto"
    /\ UNCHANGED <<idleSince, retryIn, retryDelay, suspect>>
    /\ IF policy = "local" THEN Enter("supervisor", "mode", "lock") ELSE UNCHANGED <<pc, op>>

-----------------------------------------------------------------------------
(* Conditions *)

\* Soloist's own report, and the level of the PCM it plays; the report may be wrong.
soloist_has_active_playback == playback = "playing"
source_pcm_active == playback \in {"playing", "misreported"}

configured_outputs_selected == selected = Pair

\* The PC's receiver plays: without an AirPlay session it is corked.
ReceiverReady == "local" \in selected

\* The mode other than auto asks for exactly these outputs.
Desired == IF mode = "local" THEN {"local"} ELSE {}

\* observe() takes an incomplete pair for a network failure.
Incomplete == selected # Pair

\* reconcile_once(preserve_local=True) leaves a selected PC route alone.
Preserves(p, outputs) == op[p] # "reconcile" /\ "local" \in outputs

\* What the supervisor reads again once it holds the lock: observe(), release(),
\* ensure_pc_playback() and repair() the policy, Runtime.reconcile that its mode is
\* still the one it began with; the fallback needs the sink, a repair playback.
StillWanted(p) ==
    /\ op[p] \in {"observe", "pause", "release", "fallback", "wiim_disconnected"}
        => automatic_enabled
    /\ op[p] = "mode" => policy = mode
    /\ op[p] = "fallback" => pcSink
    /\ op[p] = "pcm_paused" => policy \in {"auto", "local"}
    /\ op[p] \in {"pcm_paused", "wiim_disconnected"} => soloist_has_active_playback

FirstStep(p) ==
    IF ~StillWanted(p) THEN "declined"
    ELSE CASE op[p] = "stop" -> "set_mode"
           [] op[p] \in {"select_local", "observe", "release", "mode", "fallback"} -> "read"
           [] op[p] \in {"select_all", "reconcile"} -> "validate"
           [] op[p] \in {"pause", "pcm_paused"} -> "player"
           [] op[p] = "wiim_disconnected" -> IF Guarded THEN "guard_locked" ELSE "validate"

\* After outputs() told what is selected, and whether the WiiM is listed.
AfterRead(p) ==
    CASE op[p] = "select_local" -> "set_mode"
      [] op[p] = "select_all" -> IF listed THEN "put" ELSE "failed"
      [] op[p] = "observe" ->
            IF ~listed THEN "failed"
            ELSE IF ~(selected \subseteq Pair) THEN "declined"
            ELSE IF Incomplete THEN "validate"
            ELSE IF pipePaused \/ released THEN "player" ELSE "steady"
      [] op[p] = "release" ->
            IF selected = {} THEN "done"
            ELSE IF ~listed THEN "failed"
            ELSE IF selected \subseteq Pair THEN "put" ELSE "declined"
      [] op[p] = "mode" ->
            IF selected # Desired THEN "put"
            ELSE IF mode = "local" /\ playing THEN "player" ELSE "steady"
      [] op[p] = "fallback" ->
            IF ~(selected \subseteq Pair) THEN "declined"
            ELSE IF selected # {"local"} THEN "put" ELSE "check"

\* After PUT /outputs/set.
AfterPut(p) ==
    CASE pc[p] \in {"drop_wiim", "clear"} -> "level"
      [] pc[p] = "join" -> IF Preserves(p, seen[p]) THEN "relevel" ELSE "verify"
      [] op[p] \in {"stop", "select_local"} -> "done"
      [] op[p] = "select_all" -> "set_auto"
      [] op[p] \in {"release", "fallback"} -> "check"
      [] op[p] = "mode" -> IF mode = "local" /\ playing THEN "player" ELSE "done"

\* What PUT /outputs/set asks for.
Wanted(p) ==
    CASE pc[p] = "drop_wiim" -> {"local"}
      [] pc[p] = "clear" -> {}
      [] pc[p] = "join" -> Pair
      [] op[p] \in {"stop", "release"} -> {}
      [] op[p] \in {"select_local", "fallback"} -> {"local"}
      [] op[p] = "select_all" -> Pair
      [] op[p] = "mode" -> Desired

-----------------------------------------------------------------------------
(* Steps of either process: locked(), reconcile_once, resume_pcm_playback, ... *)

TakeLock(p) ==
    /\ pc[p] = "lock"
    /\ Lock(p)
    /\ Goto(p, FirstStep(p))
    /\ UNCHANGED <<owntone, world, policy, seen, idle, tick, bounds>>

LockTimeout(p) ==
    /\ pc[p] = "lock"
    /\ LockTimesOut(p)
    /\ Goto(p, "failed")
    /\ UNCHANGED <<owntone, world, policy, seen, idle, tick, bounds>>

\* stop and select-local store the intent before they change the outputs, ...
SetMode(p) ==
    /\ pc[p] = "set_mode"
    /\ set_mode(IF op[p] = "stop" THEN "stopped" ELSE "local")
    /\ Goto(p, "put")
    /\ UNCHANGED <<owntone, world, holder, seen, idle, tick, bounds>>

\* ... select-all and reconcile after.
SetAutomatic(p) ==
    /\ pc[p] = "set_auto"
    /\ set_mode("auto")
    /\ Goto(p, "done")
    /\ UNCHANGED <<owntone, world, holder, seen, idle, tick, bounds>>

ReadOutputs(p) ==
    /\ pc[p] = "read"
    /\ seen' = [seen EXCEPT ![p] = selected]
    /\ Goto(p, AfterRead(p))
    /\ UNCHANGED <<owntone, world, control, idle, tick, bounds>>

\* validate_wiim_group fails closed.
Validate(p) ==
    /\ pc[p] = "validate"
    /\ Goto(p, IF ~group THEN "failed"
               ELSE IF op[p] = "select_all" THEN "read" ELSE "reconcile_read")
    /\ UNCHANGED <<owntone, world, control, seen, idle, tick, bounds>>

\* reconcile_once: with the PC route selected only the WiiM session is recycled,
\* and a selection that holds anything unrelated is refused.
ReconcileRead(p) ==
    /\ pc[p] = "reconcile_read"
    /\ seen' = [seen EXCEPT ![p] = selected]
    /\ Goto(p,
         IF ~listed THEN "failed"
         ELSE IF ~Preserves(p, selected) THEN "clear"
         ELSE IF ~(selected \subseteq Pair) THEN "failed"
         ELSE IF "wiim" \in selected THEN "drop_wiim" ELSE "level")
    /\ UNCHANGED <<owntone, world, control, idle, tick, bounds>>

PutOutputs(p) ==
    /\ pc[p] \in Puts
    /\ SetOutputs(Wanted(p))
    /\ Goto(p, AfterPut(p))
    /\ UNCHANGED <<world, control, seen, idle, tick, bounds>>

RestoreLevel(p) ==
    /\ pc[p] \in {"level", "relevel"}
    /\ SetLevel("configured")
    /\ Goto(p, IF pc[p] = "level" THEN "join" ELSE "verify")
    /\ UNCHANGED <<world, control, seen, idle, tick, bounds>>

\* The PC's own level is read back too: an unlisted detail of a failing read.
Verify(p) ==
    /\ pc[p] = "verify"
    /\ Goto(p, IF ~listed \/ selected # Pair \/ level # "configured" THEN "failed"
               ELSE IF op[p] = "reconcile" THEN "set_auto" ELSE "player")
    /\ UNCHANGED <<owntone, world, control, seen, idle, tick, bounds>>

\* reconcile() found the outputs as they should be.
Unchanged(p) ==
    \/ op[p] = "observe" /\ seen[p] = Pair
    \/ op[p] = "mode" /\ seen[p] = Desired

\* pause_pcm_playback and resume_pcm_playback touch no queue but the bridge's;
\* an empty one is given the bridge's pipe.
ReadPlayer(p) ==
    /\ pc[p] = "player"
    /\ Goto(p,
         IF op[p] = "pause"
         THEN IF player = "pause" THEN "done" ELSE IF queue = "bridge" THEN "pause" ELSE "failed"
         ELSE IF player = "play"
              THEN IF Unchanged(p) THEN "steady" ELSE "done"
              ELSE CASE queue = "empty" -> "install"
                     [] queue = "bridge" -> "play"
                     [] queue = "foreign" -> "failed")
    /\ UNCHANGED <<owntone, world, control, seen, idle, tick, bounds>>

PutPlayer(p) ==
    /\ pc[p] \in {"play", "pause"}
    /\ SetPlayer(pc[p])
    /\ Goto(p, "poll")
    /\ UNCHANGED <<world, control, seen, idle, tick, bounds>>

InstallPipe(p) ==
    /\ pc[p] = "install"
    /\ AddPipe
    /\ Goto(p, "installed")
    /\ UNCHANGED <<world, control, seen, idle, tick, bounds>>

\* The queue now holds the bridge's pipe only, or somebody else's items too.
CheckQueue(p) ==
    /\ pc[p] = "installed"
    /\ Goto(p, IF queue = "bridge" THEN "poll" ELSE "failed")
    /\ UNCHANGED <<owntone, world, control, seen, idle, tick, bounds>>

\* Resuming polls the player for three seconds; pausing reads it once.
PollPlayer(p) ==
    /\ pc[p] = "poll"
    /\ Goto(p, IF player = (IF op[p] = "pause" THEN "pause" ELSE "play")
               THEN "done" ELSE "failed")
    /\ UNCHANGED <<owntone, world, control, seen, idle, tick, bounds>>

\* release() and ensure_pc_playback() read back what they asked for.
CheckOutputs(p) ==
    /\ pc[p] = "check"
    /\ Goto(p, IF op[p] = "release"
               THEN IF selected = {} THEN "done" ELSE "failed"
               ELSE IF "local" \in selected THEN "player" ELSE "failed")
    /\ UNCHANGED <<owntone, world, control, seen, idle, tick, bounds>>

\* source_guard within repair: the WiiM plays nothing or our own session.
GuardUnderLock(p) ==
    /\ pc[p] = "guard_locked"
    /\ Goto(p, IF source = "other" THEN "failed" ELSE "validate")
    /\ UNCHANGED <<owntone, world, control, seen, idle, tick, bounds>>

Step(p) ==
    \/ TakeLock(p) \/ LockTimeout(p) \/ SetMode(p) \/ SetAutomatic(p) \/ ReadOutputs(p)
    \/ Validate(p) \/ ReconcileRead(p) \/ PutOutputs(p) \/ RestoreLevel(p) \/ Verify(p)
    \/ ReadPlayer(p) \/ PutPlayer(p) \/ InstallPipe(p) \/ CheckQueue(p) \/ PollPlayer(p)
    \/ CheckOutputs(p) \/ GuardUnderLock(p)

-----------------------------------------------------------------------------
(* bridge.py commands *)

Command ==
    /\ pc["cli"] = "idle"
    /\ commands < MaxCommands
    /\ commands' = commands + 1
    /\ \E c \in Commands : Enter("cli", c, "lock")
    /\ UNCHANGED <<owntone, world, control, seen, idle, tick, disturbances>>

\* The command returns or raises, ...
CommandEnds ==
    /\ pc["cli"] \in {"done", "failed"}
    /\ holder' = Unlocked("cli")
    /\ Enter("cli", "none", "idle")
    /\ UNCHANGED <<owntone, world, policy, seen, idle, tick, bounds>>

\* ... or `reconcile --wait-seconds` tries again before its deadline.
CommandRetries ==
    /\ pc["cli"] = "failed"
    /\ op["cli"] = "reconcile"
    /\ holder' = Unlocked("cli")
    /\ Goto("cli", "lock")
    /\ UNCHANGED <<owntone, world, policy, seen, idle, tick, bounds>>

-----------------------------------------------------------------------------
(* The supervisor's tick: Runtime.reconcile and IdleOutputController.observe *)

\* now - idle_since at this tick, counted no further than matters.
Age ==
    IF idleSince = -1 THEN -1
    ELSE IF idleSince < IDLE_DISCONNECT THEN idleSince + 1 ELSE IDLE_DISCONNECT

BeginTick ==
    /\ pc["supervisor"] = "idle"
    /\ mode' = policy
    /\ playing' = soloist_has_active_playback
    /\ UNCHANGED <<owntone, world, control, seen, released, pipePaused, bounds>>

\* Active playback waits for the PC's sink, then looks before it takes the lock.
TickPlaying ==
    /\ policy = "auto"
    /\ soloist_has_active_playback
    /\ idleSince' = Age
    /\ retryIn' = IF retryIn > 0 THEN retryIn - 1 ELSE 0
    /\ IF pcSink
       THEN Enter("supervisor", "tick", "outer_read") /\ UNCHANGED suspect
       ELSE suspect' \in {suspect, "none"} /\ UNCHANGED <<pc, op>>
    /\ UNCHANGED retryDelay

\* observe(False): live PCM vetoes a false idle; then pause, then release.
TickIdle ==
    LET elapsed == IF idleSince = -1 THEN 0 ELSE Age
        vetoed == elapsed >= IDLE_PIPE_PAUSE /\ source_pcm_active
    IN  /\ policy = "auto"
        /\ ~soloist_has_active_playback
        /\ retryIn' = 0
        /\ retryDelay' = 1
        /\ suspect' = "none"
        /\ idleSince' = IF KeepaliveEnabled THEN Age ELSE IF vetoed THEN -1 ELSE elapsed
        /\ IF KeepaliveEnabled \/ vetoed \/ elapsed < IDLE_PIPE_PAUSE
           THEN UNCHANGED <<pc, op>>
           ELSE \/ ~pipePaused /\ Enter("supervisor", "pause", "lock")
                \/ /\ pipePaused
                   /\ IF elapsed >= IDLE_DISCONNECT
                      THEN Enter("supervisor", "release", "lock")
                      ELSE UNCHANGED <<pc, op>>

\* Manual control is left alone; local and stopped are enforced.
TickOther ==
    /\ policy # "auto"
    /\ idleSince' = Age
    /\ retryIn' = IF retryIn > 0 THEN retryIn - 1 ELSE 0
    /\ suspect' = IF policy = "local" /\ ~soloist_has_active_playback THEN "none" ELSE suspect
    /\ IF policy = "manual"
       THEN UNCHANGED <<pc, op>>
       ELSE Enter("supervisor", "mode", "lock")
    /\ UNCHANGED retryDelay

Tick == BeginTick /\ (TickPlaying \/ TickIdle \/ TickOther)

\* observe(True): forget the idle time, and hold back after a failure.
EnterObserve ==
    /\ idleSince' = -1
    /\ IF retryIn > 0
       THEN Goto("supervisor", "probe")
       ELSE Enter("supervisor", "observe", "lock")
    /\ UNCHANGED <<released, pipePaused, retryIn, retryDelay>>

\* configured_outputs_selected(): a read of its own, before the lock.
OuterRead ==
    /\ pc["supervisor"] = "outer_read"
    /\ \/ ~listed /\ Goto("supervisor", "failed") /\ UNCHANGED idle
       \/ listed /\ ~configured_outputs_selected /\ Guarded /\ Goto("supervisor", "guard") /\ UNCHANGED idle
       \/ listed /\ (configured_outputs_selected \/ ~Guarded) /\ EnterObserve
    /\ UNCHANGED <<owntone, world, control, seen, tick, bounds>>

\* Fault: whatever the WiiM plays is taken for our own session.
SourceGuardIgnored ==
    /\ pc["supervisor"] = "guard"
    /\ EnterObserve
    /\ UNCHANGED <<owntone, world, control, seen, tick, bounds>>

SourceGuard ==
    /\ pc["supervisor"] = "guard"
    /\ IF source = "other"
       THEN Goto("supervisor", "failed") /\ UNCHANGED idle
       ELSE EnterObserve
    /\ UNCHANGED <<owntone, world, control, seen, tick, bounds>>

Leave(label) == Enter("supervisor", "none", label)

Settles(next) ==
    IF pc["supervisor"] = "done"
    THEN suspect' = "none" /\ Leave("idle")
    ELSE UNCHANGED suspect /\ Leave(next)

\* After the pause the same observe() goes on to the release.
PauseEnds ==
    /\ op["supervisor"] = "pause"
    /\ IF idleSince >= IDLE_DISCONNECT
       THEN Enter("supervisor", "release", "lock")
       ELSE Leave("idle")

\* The operation was carried out.  "done": reconcile() returns True, and the
\* tick lets the receivers settle; "steady": it returns False, and may probe.
OperationDone ==
    /\ pc["supervisor"] \in {"done", "steady"}
    /\ holder' = Unlocked("supervisor")
    /\ \/ /\ op["supervisor"] = "observe"
          /\ released' = FALSE /\ pipePaused' = FALSE /\ retryIn' = 0 /\ retryDelay' = 1
          /\ Settles("probe")
       \/ /\ op["supervisor"] = "mode"
          /\ Settles(IF mode = "local" /\ playing THEN "probe" ELSE "idle")
          /\ UNCHANGED <<released, pipePaused, retryIn, retryDelay>>
       \/ /\ pipePaused' = TRUE
          /\ PauseEnds
          /\ UNCHANGED <<released, retryIn, retryDelay, suspect>>
       \/ /\ op["supervisor"] = "release"
          /\ released' = TRUE
          /\ Leave("idle")
          /\ UNCHANGED <<pipePaused, retryIn, retryDelay, suspect>>
       \/ /\ op["supervisor"] \in {"fallback", "wiim_disconnected", "pcm_paused"}
          /\ Leave("idle")
          /\ UNCHANGED <<released, pipePaused, retryIn, retryDelay, suspect>>
    /\ UNCHANGED <<owntone, world, policy, seen, idleSince, mode, playing, bounds>>

\* Its precondition did not hold under the lock: return False, nothing changes.
OperationDeclined ==
    /\ pc["supervisor"] = "declined"
    /\ holder' = Unlocked("supervisor")
    /\ \/ PauseEnds
       \/ op["supervisor"] # "pause" /\ Leave(IF op["supervisor"] = "observe" THEN "probe" ELSE "idle")
    /\ UNCHANGED <<owntone, world, policy, seen, idle, tick, bounds>>

\* A fault: the delay is doubled without end.
BackoffUnbounded == 2 * retryDelay

Backoff == IF 2 * retryDelay < MAX_DELAY THEN 2 * retryDelay ELSE MAX_DELAY

\* An exception: observe() backs off, and playing in auto falls back to the PC.
OperationFailed ==
    /\ pc["supervisor"] = "failed"
    /\ holder' = Unlocked("supervisor")
    /\ IF op["supervisor"] = "observe"
       THEN /\ retryIn' = retryDelay
            /\ retryDelay' = Backoff
       ELSE UNCHANGED <<retryIn, retryDelay>>
    /\ IF op["supervisor"] \in {"tick", "observe", "wiim_disconnected"}
       THEN Enter("supervisor", "fallback", "lock")
       ELSE Leave("idle")
    /\ UNCHANGED <<owntone, world, policy, seen, idleSince, released, pipePaused, tick, bounds>>

\* What probe() finds of the player, the PC's receiver and the WiiM, in its order.
Finding ==
    IF ~soloist_has_active_playback \/ ~pcSink THEN "none"
    ELSE IF player = "pause" THEN "pcm_paused"
    ELSE IF /\ ReceiverReady
            /\ mode = "auto" /\ group /\ ~(Guarded /\ source = "other") /\ source # "airplay"
         THEN "wiim_disconnected"
    ELSE "none"

\* A probe that is not due, settles, or sees silence is skipped.  fault() acts
\* on the second finding in a row of a kind.
Probe ==
    /\ pc["supervisor"] = "probe"
    /\ IF Finding # "none" /\ suspect = Finding
       THEN Enter("supervisor", Finding, "lock") /\ suspect' = "none"
       ELSE Leave("idle") /\ suspect' = Finding
    /\ UNCHANGED <<owntone, world, control, seen, idle, mode, playing, bounds>>

NoProbe ==
    /\ pc["supervisor"] = "probe"
    /\ Leave("idle")
    /\ UNCHANGED <<owntone, world, control, seen, idle, tick, bounds>>

Supervise ==
    \/ OuterRead \/ SourceGuard \/ OperationDone \/ OperationDeclined
    \/ OperationFailed \/ Probe \/ NoProbe

-----------------------------------------------------------------------------
(* Disturbances *)

Disturb ==
    /\ disturbances < MaxDisturbances
    /\ disturbances' = disturbances + 1
    /\ UNCHANGED commands

\* A request raises, its effect lost or only its answer.
RequestFails(p) ==
    /\ pc[p] \in Reads \union Writes \union {"outer_read", "guard", "set_mode", "set_auto"}
    /\ Goto(p, "failed")
    /\ \/ pc[p] \in Puts /\ SetOutputs(Wanted(p))
       \/ pc[p] \in {"level", "relevel"} /\ SetLevel("configured")
       \/ pc[p] \in {"play", "pause"} /\ SetPlayer(pc[p])
       \/ pc[p] = "install" /\ AddPipe
       \/ UNCHANGED owntone
    /\ UNCHANGED <<world, control, seen, idle, tick>>

\* A killed command or supervisor; only the policy file survives.
CommandDies ==
    /\ pc["cli"] # "idle"
    /\ holder' = Unlocked("cli")
    /\ Enter("cli", "none", "idle")
    /\ UNCHANGED <<owntone, world, policy, seen, idle, tick>>

SupervisorRestarts ==
    /\ Disturb
    /\ holder' = Unlocked("supervisor")
    /\ Leave("idle")
    /\ idleSince' = IDLE_DISCONNECT
    /\ released' = FALSE
    /\ pipePaused' = FALSE
    /\ retryIn' = 0
    /\ retryDelay' = 1
    /\ suspect' = "none"
    /\ UNCHANGED <<owntone, world, policy, seen, mode, playing>>

\* Supervisor.tick returned early: a container or a route is at fault.
TickBlocked ==
    /\ Disturb
    /\ pc["supervisor"] = "idle"
    /\ idleSince' = Age
    /\ retryIn' = IF retryIn > 0 THEN retryIn - 1 ELSE 0
    /\ UNCHANGED <<owntone, world, control, procs, tick, released, pipePaused, retryDelay>>

Disturbance ==
    /\ Disturb
    /\ \/ Outside /\ UNCHANGED <<control, procs, idle, tick>>
       \/ \E p \in Processes : RequestFails(p)
       \/ CommandDies

\* Everything but the passing of time and a new supervisor.
Act ==
    \/ \E p \in Processes : Step(p)
    \/ Command
    \/ CommandEnds
    \/ CommandRetries
    \/ Supervise
    \/ Disturbance

Next == Tick \/ TickBlocked \/ SupervisorRestarts \/ Act

Spec == Init /\ [][Next]_vars

\* The operating system runs both processes, the deadline of a reconcile command
\* passes, and the audio probe comes round again (Supervisor.tick).  Commands,
\* outside events and failures are under no obligation.
Fairness ==
    /\ WF_vars(Step("cli") \/ CommandEnds \/ CommandRetries)
    /\ SF_vars(CommandEnds)
    /\ WF_vars(Step("supervisor") \/ Supervise \/ Tick)
    /\ SF_vars(Probe)

-----------------------------------------------------------------------------
(* Properties *)

\* A step of the supervisor that changed the selected outputs.
SupervisorSelects == selected' # selected /\ pc'["supervisor"] # pc["supervisor"]

Permitted(outputs) ==
    \/ policy = "auto" /\ outputs \subseteq Pair
    \/ policy = "local" /\ outputs = {"local"}
    \/ policy = "stopped" /\ outputs = {}

\* "Manual intent survives": whatever a command stored while the supervisor was
\* waiting, reading or failing, no request of the supervisor goes against it.
ObeysIntent == [][SupervisorSelects => Permitted(selected')]_vars

\* "WiiM reconnection keeps the already-selected PC output in place": recovering
\* playback never drops a PC route it has seen, nor an unrelated output beside it.
KeepsAudiblePc ==
    [][(SupervisorSelects /\ op["supervisor"] \in {"observe", "fallback", "wiim_disconnected"})
        => ("local" \in seen["supervisor"]
            => \A o \in {"local", "other"} \cap seen["supervisor"] :
                    o \in selected => o \in selected')]_vars

\* A stop wins over whatever it interrupted and over its own failure half way:
\* a policy stored without its outputs is enforced by the next tick.
StopPrevails == <>[](policy = "stopped") => <>[](selected = {})

\* The system is healthy and playback is wanted.
Healthy ==
    /\ policy = "auto" /\ playback = "playing"
    /\ listed /\ group /\ pcSink /\ source # "other"
    /\ selected \subseteq Pair /\ queue # "foreign"

\* Whatever state disturbances, an idle release or a PC-only fallback left behind,
\* active playback in a healthy system gets back to the pair and a playing pipe.
PlaybackRecovers == <>[]Healthy => <>[](selected = Pair /\ player = "play")

\* An idle system lets go of the pair, after failed attempts and restarts too.
\* (Pausing refuses a queue that is not the bridge's, and the release waits for it.)
IdleReleases ==
    <>[](/\ policy = "auto" /\ playback = "idle" /\ listed /\ selected \subseteq Pair
         /\ ~(player = "play" /\ queue # "bridge"))
        => <>[](selected = {})

\* A command returns, however long the supervisor keeps taking the lock.
CommandReturns == (pc["cli"] # "idle") ~> (pc["cli"] = "idle")

\* Whose transaction is open: that of the holder of the lock.
Working ==
    IF holder = "cli" THEN op["cli"] ELSE IF holder = "supervisor" THEN "automatic" ELSE "none"

Transactions == INSTANCE OutputTransactions WITH working <- Working, position <- pc

\* README "CLI and supervisor output changes are serialized to avoid competing
\* selections": as if one transaction ran after the other, whatever fails or dies half
\* way, no request is made and no intent stored outside one, and each is its own.
RefinesTransactions == Transactions!Spec
=============================================================================
