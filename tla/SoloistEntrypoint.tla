-------------------------- MODULE SoloistEntrypoint --------------------------
(***************************************************************************)
(* soloist-entrypoint.sh, the first process of the Soloist container: it    *)
(* reads the volume to start at, waits for the Pulse server, loads or       *)
(* adopts the private sink, launches Soloist and passes signals on to it.   *)
(*                                                                         *)
(* One step is one command of the script, from where its traps are set.  A  *)
(* signal is handled between two commands, those of the EXIT trap included, *)
(* or ends `wait`.  Docker starts the container, asks it to stop however    *)
(* often, and may kill it; when the script is gone, so is Soloist.  That    *)
(* the key is missing, the server not ready after a minute, or a sink of    *)
(* that name of another format is one way to fail.                          *)
(***************************************************************************)
EXTENDS Naturals

CONSTANTS
    Volumes,         \* volumes, 0 .. 100 in the code
    initial_volume   \* the volume to start at when none is stored

None == "none"

\* A file cut short, which the script takes for an invalid one.
Torn == "torn"

ASSUME VolumeAssumption ==
    /\ initial_volume \in Volumes
    /\ {None, Torn} \intersect Volumes = {}

VARIABLES
    pid1,        \* the script's next command
    soloist_pid, \* has the script recorded it?
    signalled,   \* a signal the script has not handled yet
    child,       \* Soloist
    module_id,   \* has the script loaded the sink itself?
    sink,        \* does the private sink exist?
    start_at,    \* the volume read from the file, or the default
    file,        \* cache/soloist/data/handoff-volume, written by the host
    leaked       \* history: a sink was left that no script will unload

script    == <<pid1, soloist_pid, signalled, module_id, start_at>>
container == <<script, child, sink, file, leaked>>

Alive == {"running", "stopping"}

ContainerTypeOK ==
    /\ pid1 \in {"down", "volume", "pulse", "sink", "launch", "assign", "record", "wait",
                "exit"}
    /\ soloist_pid \in BOOLEAN
    /\ signalled \in BOOLEAN
    /\ child \in Alive \union {"none", "zombie"}
    /\ module_id \in BOOLEAN
    /\ sink \in BOOLEAN
    /\ start_at \in Volumes
    /\ file \in Volumes \union {None, Torn}
    /\ leaked \in BOOLEAN

ContainerInit ==
    /\ pid1 = "down"
    /\ soloist_pid = FALSE
    /\ signalled = FALSE
    /\ child = "none"
    /\ module_id = FALSE
    /\ sink = FALSE
    /\ start_at = initial_volume
    /\ file \in Volumes \union {None}
    /\ leaked = FALSE

-----------------------------------------------------------------------------
(* The script *)

\* A pending signal is handled before the next command.
At(label) == pid1 = label /\ ~signalled

Goto1(label) == pid1' = label /\ UNCHANGED <<soloist_pid, signalled>>

ReadVolume ==
    /\ At("volume")
    /\ start_at' = IF file \in Volumes THEN file ELSE initial_volume
    /\ Goto1("pulse")
    /\ UNCHANGED <<child, module_id, sink, file, leaked>>

PulseReady ==
    /\ At("pulse")
    /\ Goto1("sink")
    /\ UNCHANGED <<child, module_id, sink, start_at, file, leaked>>

\* A sink left by a container that was killed is used, but not unloaded later.
PrepareSink ==
    /\ At("sink")
    /\ sink' = TRUE
    /\ module_id' = ~sink
    /\ Goto1("launch")
    /\ UNCHANGED <<child, start_at, file, leaked>>

Launch ==
    /\ At("launch")
    /\ child' = "running"
    /\ Goto1("assign")
    /\ UNCHANGED <<module_id, sink, start_at, file, leaked>>

\* soloist_pid=$!
RecordPid ==
    /\ At("assign")
    /\ soloist_pid' = TRUE
    /\ pid1' = "record"
    /\ UNCHANGED <<signalled, child, module_id, sink, start_at, file, leaked>>

\* The pid goes into a file.  A stop noticed only after that has been passed on.
WritePidFile ==
    /\ At("record")
    /\ Goto1("wait")
    /\ UNCHANGED <<child, module_id, sink, start_at, file, leaked>>

StartupFails ==
    /\ At("volume") \/ At("pulse") \/ At("sink")
    /\ Goto1("exit")
    /\ UNCHANGED <<child, module_id, sink, start_at, file, leaked>>

\* The sink is loaded, but `pactl load-module` fails to tell its number.
AnswerLost ==
    /\ At("sink")
    /\ ~sink
    /\ sink' = TRUE
    /\ leaked' = TRUE
    /\ Goto1("exit")
    /\ UNCHANGED <<child, module_id, start_at, file>>

\* The file cannot be written: `set -e` ends the script over the running Soloist.
PidFileFails ==
    /\ At("record")
    /\ Goto1("exit")
    /\ UNCHANGED <<child, module_id, sink, start_at, file, leaked>>

\* A fault: the signal is not passed on.
ForwardNothing == UNCHANGED child

\* forward_signal, with Soloist's pid recorded.
Forward == child' = IF child = "running" THEN "stopping" ELSE child

\* A fault: the wait is resumed once (`if` for `while`).
ResumesOnce == pid1' = IF child = "stopping" THEN "exit" ELSE pid1

\* `kill -0` finds the child, which `wait` did not reap: wait again.
Resumes == UNCHANGED pid1

\* Without PID 1 the kernel kills what is left in the container.
Gone ==
    /\ pid1' = "down"
    /\ soloist_pid' = FALSE
    /\ signalled' = FALSE
    /\ module_id' = FALSE
    /\ child' = "none"
    /\ start_at' = initial_volume
    /\ UNCHANGED file

\* What the container's end leaves, if its sink is not unloaded.
Abandon == leaked' = (leaked \/ module_id) /\ UNCHANGED sink

\* With the pid recorded, a signal is passed on and ends the wait only.
PassSignal ==
    /\ signalled
    /\ soloist_pid
    /\ signalled' = FALSE
    /\ Forward
    /\ Resumes
    /\ UNCHANGED <<soloist_pid, module_id, sink, start_at, file, leaked>>

\* Before, it ends the script, ...
ExitOnSignal ==
    /\ signalled
    /\ ~soloist_pid
    /\ pid1 # "exit"
    /\ signalled' = FALSE
    /\ pid1' = "exit"
    /\ UNCHANGED <<soloist_pid, child, module_id, sink, start_at, file, leaked>>

\* ... also from within the EXIT trap, the rest of which is not run.
CutShort ==
    /\ signalled
    /\ ~soloist_pid
    /\ pid1 = "exit"
    /\ Abandon
    /\ Gone

HandleSignal == PassSignal \/ ExitOnSignal \/ CutShort

\* `wait` reaps Soloist and returns its status.
Reap ==
    /\ At("wait")
    /\ child = "zombie"
    /\ child' = "none"
    /\ Goto1("exit")
    /\ UNCHANGED <<module_id, sink, start_at, file, leaked>>

\* A fault: the sink is left to the next container.
UnloadNot == sink

Unloaded == sink /\ ~module_id

\* The EXIT trap, and the end of the script.
Cleanup ==
    /\ At("exit")
    /\ sink' = Unloaded
    /\ Gone
    /\ UNCHANGED leaked

\* `pactl unload-module ... || true` fails, and nobody learns of it.
UnloadFails ==
    /\ At("exit")
    /\ module_id
    /\ Abandon
    /\ Gone

Script ==
    \/ ReadVolume \/ PulseReady \/ PrepareSink \/ Launch \/ RecordPid
    \/ WritePidFile \/ HandleSignal \/ Reap \/ Cleanup

-----------------------------------------------------------------------------
(* Docker and Soloist *)

Start ==
    /\ pid1 = "down"
    /\ pid1' = "volume"
    /\ UNCHANGED <<soloist_pid, signalled, child, module_id, sink, start_at, file, leaked>>

Stop ==
    /\ pid1 # "down"
    /\ ~signalled
    /\ signalled' = TRUE
    /\ UNCHANGED <<pid1, soloist_pid, child, module_id, sink, start_at, file, leaked>>

\* The grace period is over, or memory is short.
Kill ==
    /\ pid1 # "down"
    /\ Gone
    /\ Abandon

SoloistEnds ==
    /\ child \in Alive
    /\ child' = "zombie"
    /\ UNCHANGED <<script, sink, file, leaked>>

\* Asked to stop, Soloist flushes its state and ends.
SoloistStops == child = "stopping" /\ SoloistEnds

-----------------------------------------------------------------------------
(* Properties *)

\* "Exiting here would drop PID 1 while Soloist is still flushing its bind-mounted
\* state": once its pid is recorded, the script goes on to its end only without
\* Soloist, whenever and however often a signal comes, unless the pid's file cannot
\* be written.  (Between Soloist's launch and soloist_pid=$! the script takes it for
\* not started, and leaves it to be killed.)
OutlivesSoloist ==
    [][soloist_pid /\ pid1' = "exit" /\ pid1 # "exit" => child' = "none" \/ PidFileFails]_container

\* The private sink goes with the container that loaded it, however its start or its
\* stop ended, but for a container that is killed, an answer of pactl that is lost,
\* an unload that fails, and a signal that cuts the EXIT trap short.  Those after it
\* use what it left.
SinkReleased == pid1 = "down" /\ sink => leaked

\* "the script would ignore the stop": no stop is lost between two commands, at
\* `wait` or on its way to Soloist, and none needs docker to kill the container.
StopEnds == signalled ~> pid1 = "down"
=============================================================================
