---------------------------- MODULE VolumeHandoff ----------------------------
(***************************************************************************)
(* volume_handoff.py: while another device plays, the monitor samples its   *)
(* volume and remembers a stable one; when playback moves to Soloist, known *)
(* from a trace of its activity, it gives Soloist that volume.  Beside it   *)
(* run the Soloist container, which starts at the remembered volume, and    *)
(* Spotify, whose only volume is that of the device that plays.             *)
(*                                                                         *)
(* Time is counted in sample intervals.  What Soloist writes to the trace   *)
(* is in the monitor's pipe by the next tick, unless the monitor is         *)
(* disconnected before.  Lines without an activity are left out.            *)
(***************************************************************************)
EXTENDS SoloistEntrypoint, Sequences

CONSTANTS
    SETTLE,            \* SETTLE_SECONDS, in ticks
    MaxMoves,          \* bound: moves of playback
    MaxDisturbances,   \* bound: every other outside event, failures and crashes
    MaxEvents          \* bound: moves and disturbances together

ASSUME HandoffAssumption ==
    /\ SETTLE \in Nat \ {0}
    /\ MaxMoves \in Nat
    /\ MaxDisturbances \in Nat
    /\ MaxEvents \in Nat

VARIABLES
    \* Spotify
    device,         \* what plays: "bridge" or the "source"
    source_volume, level,   \* the volumes of the source, and of Soloist
    inFlight,       \* trace lines written since the last tick
    connected,      \* does the trace reach Soloist?
    \* the monitor
    pc,
    pipe, batch,    \* lines in the pipe, and lines read from it
    saved, active, pending,  \* the tracker's; None where Python has None
    since,          \* ticks since pending_since, counted to 2 * SETTLE
    due,            \* next_sample has passed
    asked,          \* ticks since `now` was taken for the sample under way
    \* history
    remembered,     \* the volume save_volume stored last
    heard,          \* every volume the source had
    owed,           \* the trace shows this move to Soloist: it is owed the volume
    lost,           \* saving the tracker's volume failed
    doubtful,       \* a sample took longer than a tick, or was the first ever
    moves, disturbances

spotify == <<device, source_volume, level>>
trace   == <<inFlight, pipe, connected>>
tracker == <<saved, active, pending, since>>
clock   == <<due, asked>>
history == <<remembered, heard, owed, lost, doubtful>>
bounds  == <<moves, disturbances>>
monitor == <<pc, batch, tracker, clock>>
vars    == <<container, spotify, trace, monitor, history, bounds>>

HandoffTypeOK ==
    /\ ContainerTypeOK
    /\ device \in {"source", "bridge"}
    /\ source_volume \in Volumes
    /\ level \in Volumes
    /\ {inFlight, pipe, batch} \subseteq Seq({"active", "inactive"})
    /\ connected \in BOOLEAN
    /\ pc \in {"down", "connect", "select", "lines", "set", "asked", "save"}
    /\ saved \in Volumes \union {None}
    /\ active \in {"active", "inactive", None}
    /\ pending \in Volumes \union {None}
    /\ since \in 0 .. 2 * SETTLE
    /\ due \in BOOLEAN
    /\ asked \in 0 .. SETTLE
    /\ remembered \in Volumes \union {None}
    /\ heard \subseteq Volumes
    /\ {owed, lost, doubtful} \subseteq BOOLEAN
    /\ moves \in 0 .. MaxMoves
    /\ disturbances \in 0 .. MaxDisturbances

HandoffInit ==
    /\ ContainerInit
    /\ device = "source"
    /\ source_volume \in Volumes
    /\ level = initial_volume
    /\ inFlight = <<>>
    /\ connected = FALSE
    /\ pc = "down"
    /\ pipe = <<>>
    /\ batch = <<>>
    /\ saved = None
    /\ active = None
    /\ pending = None
    /\ since = 0
    /\ due = FALSE
    /\ asked = 0
    /\ remembered = file
    /\ heard = Volumes \intersect {source_volume, file}
    /\ owed = FALSE
    /\ lost = FALSE
    /\ doubtful = FALSE
    /\ moves = 0
    /\ disturbances = 0

Activity == IF device = "bridge" THEN "active" ELSE "inactive"

-----------------------------------------------------------------------------
(* Faults: wrong versions of definitions below, each refuting a property. *)

\* A handoff with no volume to hand over.
HandsOverUnknown(activity) == active = "inactive" /\ activity = "active"

\* Another reading restarts the settling time.
SettlingRestarts(volume) ==
    /\ volume # saved /\ saved # None
    /\ volume # pending \/ since - asked < SETTLE
    /\ pending' = volume
    /\ since' = asked
    /\ pc' = "select"
    /\ UNCHANGED saved

\* Any new reading is stable.
SettledAtOnce(volume) == volume # saved

\* The file is emptied, then written.
StoreInPlace ==
    IF file # Torn
    THEN file' = Torn /\ UNCHANGED <<pc, remembered, lost>>
    ELSE file' = saved /\ remembered' = saved /\ lost' = FALSE /\ pc' = "select"

\* The first reading is remembered, but not stored.
SettleUnstored(volume) ==
    /\ saved = None \/ (volume # saved /\ volume = pending /\ since - asked >= SETTLE)
    /\ saved' = volume
    /\ pending' = None
    /\ since' = 0
    /\ pc' = IF saved = None THEN "select" ELSE "save"

-----------------------------------------------------------------------------
(* VolumeTracker *)

AtMost(n, bound) == IF n < bound THEN n ELSE bound

\* observe_source_volume: the first reading, and one repeated for SETTLE, are
\* remembered; `now` was taken before the reading.
Settled(volume) ==
    \/ saved = None
    \/ (volume # saved /\ volume = pending /\ since - asked >= SETTLE)

Settle(volume) ==
    /\ Settled(volume)
    /\ saved' = volume
    /\ pending' = None
    /\ since' = 0
    /\ pc' = "save"

\* A new reading starts to settle, one that has not settled yet goes on.
Settling(volume) ==
    /\ volume # saved /\ ~Settled(volume)
    /\ pending' = volume
    /\ since' = IF volume = pending THEN since ELSE asked
    /\ pc' = "select"
    /\ UNCHANGED saved

Unchanged(volume) ==
    /\ volume = saved
    /\ pending' = None
    /\ since' = 0
    /\ pc' = "select"
    /\ UNCHANGED saved

observe_source_volume(volume) == Settle(volume) \/ Settling(volume) \/ Unchanged(volume)

\* observe_activity: only playback seen to begin is a handoff.
HandsOver(activity) == active = "inactive" /\ activity = "active" /\ saved # None

-----------------------------------------------------------------------------
(* monitor_trace *)

Quiet == UNCHANGED <<container, spotify, history, bounds>>

\* The trace begins with the present activity; the first sample is a tick away.
Connect ==
    /\ pc = "connect"
    /\ child = "running"
    /\ connected' = TRUE
    /\ inFlight' = <<Activity>>
    /\ due' = FALSE
    /\ pc' = "select"
    /\ UNCHANGED <<pipe, batch, tracker, asked>>
    /\ Quiet

\* What Soloist wrote to the trace and the monitor has not looked at.
Unread == batch \o (pipe \o inFlight)

Disconnected == connected' = FALSE /\ inFlight' = <<>> /\ pipe' = <<>>

ReadTrace ==
    /\ pc = "select"
    /\ pipe # <<>>
    /\ batch' = pipe
    /\ pipe' = <<>>
    /\ pc' = "lines"
    /\ UNCHANGED <<inFlight, connected, tracker, clock>>
    /\ Quiet

\* The end of the trace: reconnect, without an activity.
TraceEnds ==
    /\ pc = "select"
    /\ ~connected
    /\ pipe = <<>>
    /\ active' = None
    /\ due' = FALSE
    /\ pc' = "connect"
    /\ UNCHANGED <<trace, batch, saved, pending, since, asked>>
    /\ Quiet

\* A fault: of the lines read together only the last counts.
ReadLastLine ==
    /\ pc = "lines"
    /\ batch # <<>>
    /\ active' = batch[Len(batch)]
    /\ batch' = <<>>
    /\ pc' = IF HandsOver(active') THEN "set" ELSE "lines"
    /\ UNCHANGED <<trace, saved, pending, since, clock>>
    /\ Quiet

ReadLine ==
    /\ pc = "lines"
    /\ batch # <<>>
    /\ active' = Head(batch)
    /\ batch' = Tail(batch)
    /\ pc' = IF HandsOver(Head(batch)) THEN "set" ELSE "lines"
    /\ UNCHANGED <<trace, saved, pending, since, clock>>
    /\ Quiet

LinesRead ==
    /\ pc = "lines"
    /\ batch = <<>>
    /\ ~due
    /\ pc' = "select"
    /\ UNCHANGED <<trace, batch, tracker, clock>>
    /\ Quiet

\* set_soloist_volume: one of its attempts succeeds, ...
SetVolume ==
    /\ pc = "set"
    /\ child = "running"
    /\ level' = saved
    /\ pc' = "lines"
    /\ UNCHANGED <<container, device, source_volume, trace, batch, tracker, clock, history,
                   bounds>>

\* ... or all fail, as they do without Soloist.
SetFails ==
    /\ pc = "set"
    /\ level' \in IF child = "running" THEN {level, saved} ELSE {level}
    /\ owed' = (owed /\ Unread # <<>>)
    /\ pc' = "lines"
    /\ UNCHANGED <<container, device, source_volume, trace, batch, tracker, clock,
                   remembered, heard, lost, doubtful>>

\* The time of the sample is taken; it is made only while Soloist is inactive.
Ask ==
    /\ \/ pc = "select" /\ pipe = <<>>
       \/ pc = "lines" /\ batch = <<>>
    /\ due
    /\ due' = FALSE
    /\ asked' = 0
    /\ pc' = IF active = "inactive" THEN "asked" ELSE "select"
    /\ UNCHANGED <<trace, batch, tracker>>
    /\ Quiet

\* Spotify tells the volume of the device that plays.
ReadMpris ==
    /\ pc = "asked"
    /\ observe_source_volume(IF device = "bridge" THEN level ELSE source_volume)
    /\ asked' = 0
    /\ doubtful' = (doubtful \/ saved = None)
    /\ UNCHANGED <<container, spotify, trace, batch, active, due, remembered, heard, owed, lost,
                   bounds>>

MprisMissing ==
    /\ pc = "asked"
    /\ asked' = 0
    /\ pc' = "select"
    /\ UNCHANGED <<container, spotify, trace, batch, tracker, due, history>>

\* save_volume replaces the file by a complete one ...
Store ==
    /\ file' = saved
    /\ remembered' = saved
    /\ lost' = FALSE
    /\ pc' = "select"

Save ==
    /\ pc = "save"
    /\ Store
    /\ UNCHANGED <<script, child, sink, leaked, spotify, trace, batch, tracker, clock, heard,
                   owed, doubtful, bounds>>

\* ... or raises: the trace is closed, and the tracker keeps what was not stored.
SaveFails ==
    /\ pc = "save"
    /\ lost' = TRUE
    /\ Disconnected
    /\ owed' = FALSE
    /\ active' = None
    /\ due' = FALSE
    /\ pc' = "connect"
    /\ UNCHANGED <<container, spotify, batch, saved, pending, since, asked, remembered, heard,
                   doubtful>>

\* main() starts from what is stored.
Restart ==
    /\ pc = "down"
    /\ saved' = IF file \in Volumes THEN file ELSE None
    /\ pc' = "connect"
    /\ UNCHANGED <<trace, batch, active, pending, since, clock>>
    /\ Quiet

\* The monitor dies, or is asked to stop (request_stop).
Crash ==
    /\ pc # "down"
    /\ pc' = "down"
    /\ Disconnected
    /\ batch' = <<>>
    /\ saved' = None /\ active' = None /\ pending' = None /\ since' = 0
    /\ due' = FALSE /\ asked' = 0
    /\ owed' = FALSE /\ lost' = FALSE
    /\ UNCHANGED <<container, spotify, remembered, heard, doubtful>>

Monitor ==
    \/ Connect \/ ReadTrace \/ TraceEnds \/ ReadLine \/ LinesRead \/ SetVolume
    \/ (SetFails /\ child # "running" /\ UNCHANGED bounds)
    \/ Ask \/ ReadMpris \/ Save \/ Restart

-----------------------------------------------------------------------------
(* Time, Spotify and the container *)

Arrive ==
    /\ inFlight # <<>>
    /\ pipe' = pipe \o inFlight
    /\ inFlight' = <<>>
    /\ UNCHANGED <<connected, monitor>>
    /\ Quiet

\* A tick passes; a sample under way then is a slow one.
Pass ==
    /\ pipe' = pipe \o inFlight
    /\ inFlight' = <<>>
    /\ since' = IF pending = None THEN 0 ELSE AtMost(since + 1, 2 * SETTLE)
    /\ due' = (due \/ connected)
    /\ UNCHANGED <<container, spotify, connected, pc, batch, saved, active, pending,
                   remembered, heard, owed, lost>>

Tick == pc # "asked" /\ Pass /\ UNCHANGED <<asked, doubtful, bounds>>

SlowSample ==
    /\ pc = "asked"
    /\ asked < SETTLE
    /\ Pass
    /\ asked' = asked + 1
    /\ doubtful' = TRUE

\* The last the monitor was told, whether it has read it yet or not, is that Soloist
\* is inactive, and it has a volume for it.
Ready ==
    /\ connected
    /\ saved # None
    /\ IF Unread = <<>> THEN active = "inactive" ELSE Unread[Len(Unread)] = "inactive"

\* Playback moves to another device, and Soloist reports it.
Move ==
    /\ \/ /\ device = "source" /\ child = "running"
          /\ moves < MaxMoves /\ moves + disturbances < MaxEvents
          /\ device' = "bridge" /\ moves' = moves + 1
       \/ device = "bridge" /\ device' = "source" /\ UNCHANGED moves
    /\ inFlight' = IF ~connected THEN inFlight
                   ELSE Append(inFlight, IF device = "source" THEN "active" ELSE "inactive")
    /\ owed' = (device = "source" /\ Ready)
    /\ UNCHANGED <<container, source_volume, level, pipe, connected, monitor, remembered,
                   heard, lost, doubtful, disturbances>>

\* Somebody changes a volume.
SourceChanges ==
    /\ source_volume' \in Volumes \ {source_volume}
    /\ heard' = heard \union {source_volume'}
    /\ UNCHANGED <<container, device, level, trace, monitor, remembered, owed, lost, doubtful>>

LevelChanges ==
    /\ device = "bridge"
    /\ level' \in Volumes \ {level}
    /\ owed' = FALSE
    /\ UNCHANGED <<container, device, source_volume, trace, monitor, remembered, heard, lost,
                   doubtful>>

\* What a step of the container does to playback and to the trace.
Around(step) ==
    /\ step
    /\ level' = IF child = "none" /\ child' = "running" THEN start_at
                ELSE IF child' \in Alive THEN level ELSE initial_volume
    /\ IF child \in Alive /\ child' \notin Alive
       THEN device' = "source" /\ connected' = FALSE /\ inFlight' = <<>> /\ owed' = FALSE
       ELSE UNCHANGED <<device, connected, inFlight, owed>>
    /\ UNCHANGED <<source_volume, pipe, monitor, remembered, heard, lost, doubtful>>

Container == Around(Script \/ Start \/ SoloistStops) /\ UNCHANGED bounds

Disturbance ==
    /\ disturbances < MaxDisturbances
    /\ moves + disturbances < MaxEvents
    /\ disturbances' = disturbances + 1
    /\ UNCHANGED moves
    /\ \/ (SetFails /\ child = "running")
       \/ MprisMissing \/ SaveFails \/ Crash \/ SlowSample
       \/ SourceChanges \/ LevelChanges
       \/ Around(Stop) \/ Around(Kill) \/ Around(StartupFails) \/ Around(AnswerLost)
       \/ Around(PidFileFails) \/ Around(UnloadFails) \/ Around(SoloistEnds)

HandoffNext == Monitor \/ Arrive \/ Tick \/ Move \/ Container \/ Disturbance

HandoffSpec == HandoffInit /\ [][HandoffNext]_vars

\* systemd keeps the monitor running, the operating system the script of a started
\* container; neither waits for anything without a timeout, and Soloist stops when
\* asked to.  Nobody has to start a container.
HandoffFairSpec ==
    /\ HandoffSpec
    /\ WF_vars(Monitor)
    /\ WF_vars(Tick)
    /\ WF_vars(Around(Script) /\ UNCHANGED bounds)
    /\ WF_vars(Around(SoloistStops) /\ UNCHANGED bounds)

-----------------------------------------------------------------------------
(* Properties *)

\* "Start at the last stable Spotify source volume": a container started at any
\* moment, of a save or of a crash during one, reads the volume stored last.
StartsAtRemembered ==
    [][pid1 = "volume" /\ pid1' = "pulse" =>
         start_at' = IF remembered = None THEN initial_volume ELSE remembered]_vars

\* What the monitor remembers is what is stored for its next run and the next
\* container, but after a failed write: equal readings do not repeat it.
Stored ==
    pc \notin {"down", "save"} /\ saved # None /\ ~lost => file = saved

\* README "reapplies it when playback moves to the bridge": when the monitor comes to
\* rest after a move that the trace showed it, Soloist has the remembered volume,
\* also when the lines of a move away and back were read together.
HandoffApplied ==
    owed /\ pc = "select" /\ inFlight = <<>> /\ pipe = <<>> => level = saved

\* "Keep the last stable non-Soloist volume": a volume read in the time between a
\* move to Soloist and its line in the trace is that of Soloist; one such reading
\* does not make it the remembered one.  (Two readings do, of two moves: the first
\* stays pending while Soloist plays.  So does a slow one, for the settling time is
\* reckoned from before it, and a first one, which needs no second.)
SourceOnlyOnce == saved # None /\ moves < 2 /\ ~doubtful => saved \in heard

\* README "remembers the stable volume of the active Spotify device while the bridge
\* is inactive": after any failures, a volume the source keeps is remembered.
Remembers ==
    \A v \in Volumes :
        <>[](device = "source" /\ child = "running" /\ source_volume = v) => <>[](saved = v)
=============================================================================
