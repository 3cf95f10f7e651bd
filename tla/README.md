# A verification of wiim-pc-bridge in TLA+

wiim-pc-bridge plays Spotify on a PC and on a WiiM group at once. A headless
Spotify client (Soloist) renders into a private PulseAudio sink, a relay copies the
PCM of that sink into a FIFO, and OwnTone plays the FIFO to two AirPlay outputs: a
Shairport receiver on the PC and the WiiM. Around that chain, three user services
(the supervisor, the volume handoff, an optional keepalive) work while network
sessions drop, audio devices come and go, containers restart, people press buttons,
and the services themselves are killed and restarted.

The program is short and its difficulty is in *when* things happen. This directory
holds TLA+ models of the parts where that matters, TLC configurations that check
them on small instances, and TLAPS proofs of the main properties for all values of
the parameters.

    tlasany M.tla                  parse
    tlc -config X.cfg M            model-check one run of the table below
    tlapm M_proofs.tla             check the proofs of a module

`PROJECT.json` lists the runs, the mutants that show each property to be falsifiable,
the source lines every definition stands for, and the hazards of the code.


## 1. Inventory

### 1.1 Components

| component | state it keeps | operations | what makes it correct |
|---|---|---|---|
| **PCM capture relay** `capture_relay.py` | bounded block backlog, an incomplete block, FIFO descriptor and its registration with the selector | read parec's pipe, append, drop on overrun, open/write/close the FIFO, stop | never stalls the recorder; keeps the *newest* PCM; nothing heard twice or out of order; no use of a closed descriptor |
| **Output policy and lock** `output_control.py` | `cache/output-policy.json` (auto, local, stopped, manual), an advisory `flock` | `mode`, `set_mode`, `locked` (polls 10 s, then raises) | one output transaction at a time; a dead process frees the lock; the intent survives |
| **Output commands** `bridge.py` | none of its own; OwnTone's selected outputs, levels, player and queue | `stop`, `select-local`, `select-all`, `reconcile`, `set-volume`, `set-offset` | a command's intent wins over the supervisor; a half-done transaction is repaired later |
| **Idle output controller** `volume_handoff.py`, `IdleOutputController` | `idle_since`, `pipe_paused`, `released`, retry time and delay | `observe`, `release` | playback gets the pair back; idleness gives it up, after its time and no earlier |
| **Playback supervisor: outputs** `bridge_supervisor.py`, `Runtime.reconcile`, `ensure_pc_playback`, `repair` | the mode and playback answer of the tick | reconcile, fall back to the PC, reconnect a stale session, resume the pipe | never acts against the stored intent; never silences a PC route that plays |
| **Playback supervisor: recovery policy** `Supervisor.tick`, `fault`, `persist`, `restore` | streak of equal findings, three budgets of time stamps, settle/probe/infrastructure deadlines, `runtime/supervisor-status.json` | observe, decide, store, repair, restore | budgets hold over crashes; destructive repairs are confirmed and leave time to buffer; repairs go on |
| **Playback supervisor: desktop audio guard** `guard_desktop_audio` | the claim `muted_desktop_stream`, in memory and in the status file | list, move, claim, mute, unmute, verify | only the bridge's own mute is removed, and it *is* removed, over crashes and recreated streams |
| Supervisor: observation (`infrastructure`, `capture_route`, `source_route`, `receiver_route`, `probe`) | none | read docker, pactl, pw-dump, WiiM and OwnTone; report a finding | reports in a fixed order; unknown is never a fault |
| **Volume handoff monitor** `volume_handoff.py`, `VolumeTracker`, `monitor_trace`, `main` | remembered volume, pending reading and its age, last activity; `cache/soloist/data/handoff-volume` | read the trace of Soloist's activity, sample MPRIS, save atomically, set Soloist's volume | what is remembered is a volume the source had, is on disk, and reaches Soloist at its start and at a move |
| **Soloist entrypoint** `soloist-entrypoint.sh` | pid of Soloist, module id of the sink, `stop_requested` | read the volume, prepare the sink, launch, forward signals, wait, unload | PID 1 outlives its child's shutdown; no stop is swallowed; the sink goes with its container |
| **Idle keepalive** `idle_keepalive.py` | time of the last audio, retry time, start, a lock of its own | listen, guard (six requests), recheck, burst; service or `--once` | bursts keep their distance, follow no sound or other use of the speakers, and keep coming |
| Startup reconcile, health audit, configuration, installation and update scripts, containers and units, repository checks | see `PROJECT.json` | | |

### 1.2 How they interact

* The command line and the supervisor share OwnTone, the policy file and the lock.
  Nothing else orders them. The supervisor reads the world *before* it takes the
  lock, and checks part of it again *under* it.
* A listener may use OwnTone's own web interface at any time; it takes no lock.
  `set-volume` and `set-offset` take none either.
* The supervisor is one thread: `main` calls `tick` every five seconds, `tick`
  returns early at the first fault, `fault` may call `repair`, and `persist` writes
  the status file, once before a repair and once at the end of each tick.
* systemd restarts the supervisor; Docker restarts the relay. What survives is the
  policy file, the status file and the kernel FIFO.
* The relay's only interfaces are parec's pipe, the FIFO and signals.
* The volume monitor and the Soloist container share one file, which the monitor
  replaces and the entrypoint reads once per start, and a pipe of trace lines, which
  ends with the container. Both act on Soloist: the entrypoint by its command line and
  signals, the monitor by `docker exec`.
* The keepalive's two users, the service and `--once`, exclude each other by a lock file
  they do not wait for. It reads OwnTone, Spotify and the WiiM and changes none of them:
  its only output is sound. A thread of it listens to the sink it plays into.

### 1.3 Hard behaviours

Concurrency: two processes and a listener interleave at every HTTP request. Time of
check and time of use: reads made outside the lock decide requests made under it.
Partial failure: any request of a multi-request transaction may fail, with or without
its effect. Crash recovery: the status file is written around repairs and mutes.
Timeouts and backoff: the lock, the retry delay, settling times and budgets. Bounded
buffers: backlog, FIFO and pipe can be full together. Signals: a shell handles one
between any two commands and inside `wait`. Stale answers: a volume is read while
playback moves, and a tone is allowed by requests that took seconds. `PROJECT.json`
lists each such hazard at its line, with the properties that cover it or why none does.


## 2. Modules

| module | models | shape |
|---|---|---|
| `LossyStream` | what the relay promises | abstract specification |
| `CaptureRelay` | `capture_relay.py` with parec, the kernel FIFO, OwnTone's reading end, signals, restarts | implements `LossyStream` |
| `CaptureRelay_proofs` | | proofs |
| `OwnTone` | the outside of the output model: OwnTone and the WiiM group, as far as `src/` relies on them (external) | variables and requests, extended below |
| `OutputTransactions` | what the output lock promises its users | abstract specification |
| `OutputControl` | `output_control.py` | policy and lock, extended below |
| `BridgeOutputs` | `bridge.py` commands beside the supervisor's reconciliation, idle controller and output repairs | composes the two above, implements `OutputTransactions` |
| `OutputHistory` | `BridgeOutputs` and what its state forgets (the look found the pair whole, source guard passed, idle ticks, nobody outside acted) | history variables for action properties |
| `BridgeOutputs_proofs`, `OutputHistory_proofs` | | proofs |
| `Supervisor` | the recovery policy | one process, its file, time |
| `Supervisor_proofs` | | proofs |
| `DesktopMute` | `guard_desktop_audio` beside PipeWire and a user | one process and its environment |
| `DesktopMute_proofs` | | proofs |
| `SoloistEntrypoint` | `soloist-entrypoint.sh` as PID 1, with docker and Soloist | actions, extended below |
| `VolumeHandoff` | the volume monitor beside that container and Spotify | composes `SoloistEntrypoint` |
| `VolumeHandoff_proofs` | | proofs |
| `Keepalive` | `idle_keepalive.py`, as a service and as `--once`, beside systemd and a household | one process and its environment |
| `Keepalive_proofs` | | proofs |

Each module has a section "Faults" with wrong versions of some definitions. The
specifications do not use them; they are the mutants of `PROJECT.json`, each of which
makes one property fail.

### 2.1 CaptureRelay

Blocks carry their capture number instead of PCM. `pc` follows the loop of `run`: test
the stop flag and register the writer (`Register`), `select` (`Select`), handle the
ready descriptors one by one (`NextEvent`, `ReadSource`, `AppendBlock`, `FifoEvent`),
`flush_fifo` (`OpenFifo`, `OpenNoReader`, `WriteBlock`, `FifoFull`, `FifoClosed`,
`FlushDone`), and the `finally` (`Leave`). The set `ready` is what one `select`
returned, so that an event can be stale when its turn comes. parec fills its pipe in
fragments of a block; the kernel FIFO loses its content when neither end is open
(`Kept`). The reader may stall, close and reopen between any two steps. The relay may
be told to stop or be killed, and is restarted.

A block is written whole or not at all: `BLOCK_SIZE` is 1024 bytes, below `PIPE_BUF`,
and the FIFO is written without blocking. The number of overruns is left out: it only
throttles a log line.

### 2.2 BridgeOutputs

Two processes, `"cli"` and `"supervisor"`, share `policy`, `holder` (the lock) and the
variables of `OwnTone`. For each, `op` names the operation and `pc` its next request;
`FirstStep`, `AfterRead` and `AfterPut` say which request follows, `Wanted` what a PUT
asks for. One step is one request, because that is where others can come between.
Read together are requests whose separation no property can tell: the four requests
that set a level, the reads before a player request.

The supervisor's tick begins with `TickPlaying`, `TickIdle` or `TickOther` (mode other
than `auto`), goes through the unlocked look (`OuterRead`, `SourceGuard`), `observe`
under the lock, and ends in `OperationDone`, `OperationDeclined` or `OperationFailed`;
a failure while playing falls back to the PC (`ensure_pc_playback`). `Probe` finds a
paused pipe or a stale WiiM session, and the second finding in a row is repaired; the
rest of the policy is the module `Supervisor`. `TickBlocked` is a tick that returns
early because of another fault.

Time passes in ticks: `idleSince` and `retryIn` count them, to the value beyond which nothing
changes; `Backoff` doubles `retryDelay` up to `MAX_DELAY`. A "disturbance" is an event outside the two processes'
normal course: an act of a listener, a dropped session, a WiiM that disappears or gets
another source, a regrouped WiiM, playback that starts, stops or is misreported, a
failing request (its effect lost, or only the answer), a killed command or
supervisor. Each may happen between any two steps; their number is bounded.

`OutputTransactions` is what README.md:146 promises, without requests, reads and retries: a
transaction of a command or of the supervisor is open or none is, a command stores
its intent (first, if it takes outputs away) and asks for what its name says, the supervisor
asks for what the stored policy permits, and any transaction may end half done. The
refinement mapping takes whose transaction is open from the holder of the lock (`Working`)
and `position` from `pc`, which every step of a process moves: a selection that changes while
`pc` stands still is not theirs. A request whose answer is lost is a request of the abstract
specification too, and a process that dies with the lock ends its transaction.

The PC's level is not modelled (only the WiiM's), nor are `status` and `group-status`,
which print.

### 2.3 Supervisor

The policy without the repairs themselves. `tick` is cut at the points where the
process can die with an effect: the checks, `Save` (the `persist` in `fault`),
`Repair`, `Persist` (the end of the tick), `Sleep`. Findings are chosen freely among
what each check can report (`infrastructure`, `capture_route`, `source_route`,
`receiver_route`, `probed`). Deadlines are what is left of them; time stamps are ages
in ticks. The code drops an attempt that is older than the window when it next looks at the
budget (bridge_supervisor.py:885) or restores it (756); the model drops it when it reaches that age
(`Recent`), in memory and in the file alike. `Limit`, `Affordable` and the rest count the same attempts.

`Crash` may happen anywhere, before or after the effect of a repair under way;
`SaveFails` is a failing `write_status`; `StayDown` lets time pass while the service is
down; `Restart` is `restore`, with an attempt's age read from the file.

Two abstractions matter. An attempt is dated at the beginning of its tick, as the code
does (`now`), and the tick takes no time. And there is one clock: the code converts
between the monotonic clock and the wall clock, so a wall clock that is set back
before a restart drops stored attempts (`0 <= wall - stamp < 600`,
bridge_supervisor.py:756); no property covers that. `stage`, which chooses between
restarting Shairport and restarting OwnTone with the capture, is left out, as are the
counters that are only reported.

### 2.4 DesktopMute

The desktop app's streams have indices that are never reused; a new stream is muted if
PipeWire remembers so. A mute is known by who made it, which the program cannot see:
every guard of the model tells muted from unmuted only. Listing, moving, muting and
verifying are separate steps, between which the user mutes, streams end or open, the
PC's sink vanishes (and PipeWire moves streams to the private sink), playback changes
or the supervisor dies. `claim` is `muted_desktop_stream`, `stored` its copy in the
status file.

### 2.5 SoloistEntrypoint

`pid1` is the next command of the script, from where its traps are set: the volume
(`ReadVolume`), the wait for the Pulse server (`PulseReady`), the sink (`PrepareSink`), the
launch, `soloist_pid=$!` (`RecordPid`), the file with that pid (`WritePidFile`), `wait` and its
loop (`Reap`, `Resumes`), and the EXIT trap (`Cleanup`). A signal waits in `signalled` until the
command under way is over (`At`), or ends `wait`. `HandleSignal` is `forward_signal`: with a pid it
sends TERM, and the loop of `kill -0` resumes the wait (`PassSignal`); without one it exits
(`ExitOnSignal`), also out of the EXIT trap, the rest of which is then not run (`CutShort`).
`Forward` and `Resumes` are operators of their own because each is a place where the script could
lose a stop or a child. Docker starts the container, asks it to stop as often as it likes (`Stop`),
and may kill it at any time (`Kill`); without PID 1 the kernel kills Soloist (`Gone`).

What can fail: the start before the launch (no key, no Pulse server after a minute, a sink of
another format, a pactl that does nothing: `StartupFails`); `pactl load-module` after it has loaded the
sink, so that its number is lost (`AnswerLost`); the pid's file, over which `set -e` ends the script
while Soloist runs (`PidFileFails`); and the unload in the EXIT trap, whose failure `|| true`
swallows (`UnloadFails`). `leaked` is history: a sink was left that no script will unload.
`Abandon` says when that is so: the container loaded the sink itself and ends without the unload.

The test of `stop_requested` at line 118 is part of `WritePidFile` and does nothing: the trap sets
the variable and, before the pid is known, exits at once; after it, the signal has been passed on.
Lines that only print are left out, and so is who reads `/tmp/soloist-child.pid` (the health check).

### 2.6 VolumeHandoff

A tick is the time between two samples, and `SETTLE`, in ticks, stands for the 0.6 s of
`SETTLE_SECONDS`. The run takes 2: a reading repeated once does not settle, one repeated
twice does (0.25 s a sample in the code, which makes it three repetitions). `since` is the age of
`pending_since`, `due` that `next_sample` has passed, `asked` the ticks since `now` was taken
for the sample under way: the code takes `now` before the `busctl` call, so a slow call
(`SlowSample`) dates its reading back.

`pc` follows `monitor_trace`: `select`, the lines that one read returned (`batch`), a
handoff (`set`), the sample (`Ask`, `ReadMpris`) and the write (`Save`). What Soloist writes is
first `inFlight`, then in the `pipe`, and a read takes all that is there. `observe_activity`
is `HandsOver` with the assignment of `active` in `ReadLine`; `observe_source_volume` is the
disjunction of `Settle`, `Settling` and `Unchanged`, whose guards partition its inputs. A
failed write raises out of `monitor_trace`: `main` forgets the activity and reconnects, with
the tracker as it was (`SaveFails`). `save_volume` writes another file and renames it, so that
the file changes in one step.

The volume a sample returns is that of the device that plays, Soloist's own included
(`ReadMpris`). `Move` is playback moving between Soloist and the source; it appends a line to the
trace if there is one. `Around` joins a step of the container with what it does to
playback: Soloist starts with `start_at`, and its end takes playback and trace with it.

`owed` is history: a move to Soloist of which the trace tells (`Ready`: the last the monitor was
told, read or not, is that Soloist is inactive), and that nothing has excused since. What
excuses it is a listener who changes Soloist's volume, playback that moves on, the end of Soloist or of
the monitor, and a `set_soloist_volume` whose attempts all fail for this move.

Left out: readings outside 0..100 and malformed trace lines (they are no readings), the
messages printed once, the number of attempts of `set_soloist_volume` (one succeeds, or all
fail), `RECONNECT_SECONDS` (a longer or shorter time in `connect`).

### 2.7 Keepalive

`pc` follows `run`: the top of the loop, the guard, the recheck, the burst. `BeginGuard` has the
conditions of the loop; `Check` is one request of `idle_guard`, in its order, with ticks
between two requests, so that each answer has an age of its own when the burst begins;
`Decide` is the recheck with all three of its outcomes; `BurstEnds` sets the new times. The
monitor's thread is `MonitorReady`, `MonitorFails` and the part of `Tick` that sets
`last_audio`; it hears the tone too (`Loud`). `against` is what a request could find
now, changed by `SituationChanges` at any time. A request that raises is `CheckFails`; a
`busctl` that ends with an error answers "not playing" (`PlayerUnanswered`).

`Start` and `Leave` take and free the lock; `--once` while the service runs finds it taken and
exits, which changes nothing and has no step. systemd's part is `unit`: it is false once
somebody stops the unit or systemd gives it up after `StartLimitBurst` failures, and
`StartUnit` is its restart otherwise.

`lastSound` is history: the age of the last sound of something else that a monitor could hear.
Left out of it are the sounds during which the program runs and its monitor is not yet, or no
longer, listening (`Audible`).

All times are ages or what is left of them, counted to `INTERVAL`. The constants of the
run are smaller than the code's and keep their order (tone 3 s, quiet time 5 s, READY 10 s,
ONCE 15 s, retry 30 s, interval 600 s); the proofs hold for all.

Left out: the waveform, the level and the peak of four sample steps that counts as sound (a
sound is audible or not), the configuration that disables the service, and where the
tone is played to.


## 3. Runs

All bounds are CONSTANTS of the modules, named in the .cfg files.

| run | module, cfg | properties | bounds |
|---|---|---|---|
| relay | `CaptureRelay` | `TypeOK` `BacklogIsNewest` `RegisteredIsOpen` `CaptureNeverStalls` `BacklogDrains` `RefinesStream` | 6 blocks through a backlog of 2 and a FIFO of 2, 2 fragments a block, a pipe of 3 |
| outputs | `OutputHistory` | `HistoryTypeOK` `ObeysIntent` `KeepsAudiblePc` `JoinsAtConfiguredLevel` `JoinsGuarded` `ReplacesAlone` `RefinesTransactions` `StopPrevails` `PlaybackRecovers` `IdleReleases` `CommandReturns` | 1 command, 1 disturbance, pause after 1 tick, release after 2, retry after 1 |
| policy | `Supervisor` | `TypeOK` `BudgetHolds` `TwoObservations` `GraceHolds` `KeepsRepairing` | window of 9 ticks, settling 3, and 4 after a destructive repair, limits 2 and 1, 1 crash or failed write |
| desktop_mute | `DesktopMute` | `OwnMuteClaimed` `OwnMuteEnds` `FeedbackSilenced` | 3 streams, 7 disturbances |
| handoff | `VolumeHandoff` | `HandoffTypeOK` `Stored` `HandoffApplied` `SourceOnlyOnce` `OutlivesSoloist` `SinkReleased` `StartsAtRemembered` `StopEnds` `Remembers` | 2 volumes, settling time 2, 2 moves, 2 disturbances, 3 of both together |
| keepalive | `Keepalive` | `TypeOK` `BurstsSpaced` `NotOverAudio` `SuppressedThroughout` `OnceReturns` `KeepsAwake` | interval 9, tone 1, quiet 2, READY 3, ONCE 4, retry 5, 4 disturbances |
| outputs_guard, outputs_unrelated, outputs_idle, desktop_mute_user, desktop_mute_overlap, keepalive_audio | see section 5 | one each, refuted | the fewest disturbances that show it |

Why these bounds are enough to be interesting:

* *relay*: six blocks overrun the backlog twice with the FIFO full in between, a pipe
  of three fragments ends inside a block, and a `select` can return both descriptors.
  Restarts and reader changes are not bounded.
* *outputs*: one command and one disturbance interleave with every request of the
  supervisor at every point, from a system at rest in which playback and the WiiM's
  source are arbitrary. Two disturbances appear in the refuting runs. The proofs of
  section 4 have no such bound for the properties they cover; `MaxDisturbances` and
  `MaxCommands` are arbitrary there. With `MAX_DELAY` 1 the retry delay ends, comes back and is
  bounded, but is never seen to double: with 2 the run takes twice the time and is too long to
  be repeated at every change.
* *policy*: destructive repairs can be 4 ticks apart, so that two of them are recent when a
  third is due 8 ticks after the first: in a window of 9 the destructive budget runs out, as it does
  in the code (60 s apart, three in 600 s), and so do the others. An attempt expires while others count,
  and both "budget exhausted" and "settling" occur; a crash falls before, between and after
  the writes. Two kinds of infrastructure fault alternate. One budget has the limit 1: every repair
  of it but the first waits for an attempt to expire.
* *desktop_mute*: three streams allow a mute to be inherited twice; seven disturbances
  are a conflict, its end, a recreated stream, a crash and more. With fairness
  of the tick alone, the liveness properties start from any state disturbances leave.
* *handoff*: two volumes tell what was remembered, what the source has and what Soloist has
  apart in every combination. The container starts, ends and restarts without bound. Three events
  are, for instance, two moves to Soloist and a crash, or a move, a stop and a second stop; two
  moves put the lines of leaving and of coming back into one read, and two signals reach one
  `wait`. Moves back to the source are not bounded. With two moves to Soloist `SourceOnlyOnce`
  says nothing after the second, as its comment explains.
* *keepalive*: the interval (9) is longer than the quiet time, the tone and the retry together
  (2, 1 and 5), so that a sound, a refusal or a burst can fall at each point of it. Four
  disturbances are a `--once` that starts, a sound that comes and goes, and a crash. The six
  requests of the guard may take any number of ticks.

### 3.1 Properties

*The relay.* `BacklogIsNewest`: the backlog is the gapless run of the newest blocks.
`NoReplay`: everything queued, in the FIFO and in the backlog, is newer than what
OwnTone has read, in order; a theorem (`HeardInOrder`) and no run's property of its own, since
what it says of the sound heard `RefinesStream` says too. `RegisteredIsOpen`: the selector never watches a
descriptor that `flush_fifo` closed. `CaptureNeverStalls`: a full parec pipe is read.
`BacklogDrains`: if OwnTone reads, the backlog empties although parec is silent.
`RefinesStream`: all of it implements a stream that loses but never repeats, reorders
or invents, and never loses the newest block at its capture.

*Outputs.* `ObeysIntent`: no request of the supervisor selects anything the policy in
force at that moment does not permit. `KeepsAudiblePc`: recovery never deselects a PC
route that it has seen, or an output beside it. `JoinsAtConfiguredLevel`: the WiiM is
joined at its configured level unless somebody outside interfered under the lock.
`StopPrevails`: a stored stop empties the selection, even if the command died
half-way. `PlaybackRecovers`: in a healthy system, active playback ends with the pair
selected and the pipe playing. `IdleReleases`: an idle system ends with nothing
selected. `CommandReturns`: a command does not wait for the lock for ever. `RefinesTransactions`: what
the two processes do to policy and outputs is a sequence of whole or broken-off
transactions, never two at a time, each with no other intent and no other selections than
its own. `JoinsGuarded` and `ReplacesAlone` say how far two promises hold that section 5 shows
broken: the supervisor joins the WiiM without a source guard only in `observe`, in a tick whose look
found the pair whole; undisturbed under the lock, recovery replaces an unrelated output only in
the repair of a stale session, and only one that was selected without the PC's.

*Recovery policy.* `BudgetHolds`: the repairs *carried out* within a window, over any
crashes, are within the limit. `TwoObservations`: a repair is of a fault that was found
twice, without another fault or a repair in between; only a misrouted capture is moved
at once. `GraceHolds`: nothing but a stream move follows a destructive repair sooner
than the settling time, a restart of the supervisor notwithstanding. The bound is
`SETTLE`, not the longer `REPAIR_SETTLE`: a stream move or a change of the outputs in
between replaces the longer deadline by its own (bridge_supervisor.py:907, 962).
`KeepsRepairing`: a fault that goes on being found goes on being repaired.

*Desktop mute.* `OwnMuteClaimed`: while a stream has the bridge's mute, the status file
has a claim. `OwnMuteEnds`: when the conflict is over, the bridge's mute goes.
`FeedbackSilenced`: a stream that is stuck on the capture sink ends up muted.

*Volume handoff.* `StartsAtRemembered`: a container started at any moment, of a save or of a
crash during one, starts at the volume stored last. `Stored`: what the monitor remembers
is in the file, except after a failed write. `HandoffApplied`: when the monitor comes to rest
after a move to Soloist that the trace showed it, Soloist has the remembered volume, whatever was
read in between, and also if the lines of a move away and back were read together. `SourceOnlyOnce`: one reading taken while playback moves does not
make Soloist's volume the source's. `OutlivesSoloist`: PID 1 does not exit over a child it has
recorded, whenever and however often a signal comes, unless the pid's file cannot be
written. `SinkReleased`: a sink without a container is one that a kill, a lost answer of
`load-module`, a failed unload or a signal in the EXIT trap left; nothing else leaves one. `StopEnds`: no stop is
swallowed. `Remembers`: a volume the source keeps is remembered, after any crashes and failures.

*Keepalive.* `BurstsSpaced`: the service's bursts keep the interval after any burst before,
`--once` and restarts included. `NotOverAudio`: no burst begins within `QUIET_SECONDS` of a
sound the monitor could hear, whatever it did not hear before. `SuppressedThroughout`: what spoke against a tone during all of the
guard suppresses it, although each request saw another moment. `OnceReturns`: `--once` gives up.
`KeepsAwake`: with nothing against them, bursts keep coming; the program's own tone is
not taken for a player for good.

### 3.2 Fairness

* `Relay` (weak): the operating system runs the relay's loop, in which no call blocks
  but `select`. Nothing is assumed of parec or OwnTone; `BacklogDrains` states the
  reader's fairness as its premise.
* The supervisor's steps and the command's steps (weak, per process): both run, every
  request has a timeout, `locked` raises after ten seconds. `CommandEnds` is strongly
  fair: `reconcile --wait-seconds` has a deadline, so it cannot retry for ever. `Probe`
  is strongly fair: the probe is due again after `PROBE_PERIOD`, so ticks that do not
  probe alternate with ticks that do.
* Commands, disturbances, crashes and findings are never fair. `KeepsRepairing` names
  as its premise that the infrastructure check goes on and finds the fault.
* `Restart` of the supervisor (weak): `Restart=` in its unit.
* `Monitor` (weak): the volume monitor is scheduled and restarted; each `busctl` and
  `docker exec` has a timeout. Its unit gives up after ten failures in five minutes,
  more than the disturbances of the run, and a failed write is no failure of the process.
* `Script`, `SoloistStops` and time (weak): the shell runs, and Soloist ends when asked to (else
  docker kills the container, which is `Kill`). Nobody has to start a container:
  `Remembers` has a running one as its premise.
* `Keepalive`: the process and time are weakly fair, and a unit that is on is started again.
  `MonitorReady` is strongly fair: PCM may come too late for one start, which raises, but
  not for all of them.

Deadlock is checked in every run. What people ask for (`Move`, `Stop`, `Start("once")`) is
never fair either.


## 4. Proofs

All proofs are for arbitrary values of the constants, under the named assumptions of
the modules (`RelayAssumption`, `OutputsAssumption`, `SupervisorAssumption`,
`MuteAssumption`, `VolumeAssumption`, `HandoffAssumption`, `KeepaliveAssumption`). They
say that sizes and periods are naturals and, for the policy, that a settling time is no
longer than the grace after a repair, and that this grace is shorter than the budget
window (20 s, 60 s and 600 s in the code); for the keepalive, that no other time is longer
than the interval (600 s in the code, against 30 s and less).

**CaptureRelay_proofs.** The invariant `IInv` adds to `TypeOK` and `BacklogIsNewest`
how the FIFO relates to the backlog (`FifoOrdered`: increasing, after `lastRead`, and
not beyond `captured - Len(buf)`) and where the writer can be registered
(`ControlInv`). `NoReplay` alone is not inductive: a write moves a block between
the two queues, and only the numbering of the backlog says that it is the next one.
Theorems: `Invariance`, `TypeCorrect`, `NewestBacklog`, `OpenWhileRegistered`,
`HeardInOrder`, and `Refinement`, which maps each step to a capture, a loss, a read or
a stutter of `LossyStream`.

**BridgeOutputs_proofs.** `IInv` says which operation can stand at which request
(`OperationFits`), that the lock excludes (`LockHeld`), that between the supervisor's
look under the lock and its last request the policy is still the one it saw
(`PolicyHeld`), and what recovery still knows of the selection it read
(`SelectionRead`). Theorems: `Invariance`, `TypeCorrect`, `IntentObeyed` (a PUT of the
supervisor is made under the lock, in an operation whose mode was checked, and nobody
stores another mode meanwhile), `AudiblePcKept`, `TransactionsRefined`. The refinement needs
`SerialInv` besides: the lock is free whenever its last holder is back at rest (`LockReleased`, or a
transaction would never end), a command that takes outputs away stands at its request with its
intent stored (`StoredFirst`), and the command's operation is a command's
(`CommandKnown`). `OuterShape` sorts the steps of the supervisor outside its requests, `StepRefines`
and `OuterRefines` map each step to a transaction's begin, intent, request or end, or to one that
touches neither policy nor outputs.

**Supervisor_proofs.** `IInv` follows an attempt: the decision is confirmed by two
observations (`Confirmed`); an attempt that was made is in the file and in memory for as
long as it counts (`Recorded`); the one about to be made is already there (`Pending`);
file and memory are within the limits (`WithinLimits`); every destructive repair
is old enough when the settling time ends (`Rested`). `BudgetHolds` is not inductive
by itself, since it speaks of repairs and the code only sees its file. Theorems:
`Invariance`, `TypeCorrect`, `BudgetKept`, `ConfirmedTwice`, `GraceKept`.

**OutputHistory_proofs.** Every step with its history is a step of `BridgeOutputs`
(`HistoryStep`), so `IInv` holds with it, and so does every theorem about `Spec` hold of `HSpec`, the
specification of the runs (`WithoutHistory`). To it is added `JoinReady`: an undisturbed process that
stands at the join has set the level. Only `RestoreLevel` leads to the join (`ComesToJoin`), and
while a process stands there it holds the lock, so that no request of the other one changes the
level (`StaysAtJoin`). `Looked` carries the guard, or the look that found the pair whole, from the tick
to the join, and `Spared` the selection from the read under the lock to the request that
follows. They are what remains true of the promises that the runs `outputs_guard` and
`outputs_unrelated` refute, and with those runs say exactly where these break. Theorems:
`WithoutHistory`, `HistoryInvariance`, `HistoryTypeCorrect`, `ConfiguredJoin`, `JoinGuarded`, `OthersSpared`.

**DesktopMute_proofs.** `TypeCorrect` is unconditional. `MuteClaimed` assumes `~Overlapping`, and
section 5 shows why. `OwnMuteClaimed` speaks of streams that exist, and a mute survives its
stream in what PipeWire remembers: `Claimed` says that a *remembered* mute of the bridge
is claimed in memory and on disk. For that a claim may be dropped only when nothing is
remembered, which rests on the listing (`ListedUnmuted`: a stream listed unmuted had nothing to
leave to its successor) and on `OneMute`: with one stream at a time, what the stream has is what
is remembered. `InStep`: until a tick ends, the file has the claim in memory.

**VolumeHandoff_proofs.** The container is proved first, alone: `ContainerInv` says what the
script has recorded and started where it stands (`Progress`) and that a sink that the script
will not unload is one that was left (`Orphaned`). The monitor touches nothing of it but the file.
`StoredInv` ties the tracker to the file. `LinkInv` says how a connection begins, and that a sample
is under way only with Soloist inactive. `Unread` are the lines between Soloist and the monitor, in
batch, pipe and flight; `Owing` carries a move from the line that Soloist writes (`Coming`: it is the
last unread, and those before it end with Soloist inactive, so that it is a handoff when
read) to its reading and the call that sets the volume (`Seen`), however many lines are read at once.

`SourceOnlyOnce` needs to know what the monitor does not know yet. `TraceInv` says that with the
unread lines its `active` catches up with playback, for each of the few ways a connection can have begun. `SourceInv` follows a volume from
reading to file: only `pending` can be Soloist's, and while Soloist plays such a reading is the last
(`Deaf`: no sample begins before the unread line is read), so that nothing confirms it. For
a sample follows the lines in the code's order, a connection starts with a trace line
(`LinkInv`), and a second move would be needed to confirm it. Theorems: `Invariance`,
`TypeCorrect`, `SoloistOutlived`, `SinkGone`, `RememberedStored`, `StartsRemembered`, `HandedOver`,
`Origins`, `SourceHeard`, for any number of moves and disturbances (`SourceHeard` says nothing after a
second move to Soloist, as section 5 explains).

**Keepalive_proofs.** The properties are about what was played and heard, the code knows times
only. `IInv` relates them: the process has been silent for at least as long as its `last_audio`
since a burst (`SilentSinceBurst`) and since a sound it could hear (`SilentSinceSound`), an
interval that has passed for the process has passed (`IntervalKept`), and what has been against
a tone throughout is among the checks that are left (`ChecksKept`). Theorems: `Invariance`,
`TypeCorrect`, `Spaced`, `ApartFromAudio`, `Suppressed`.

**Model-checked only.** All liveness properties (`CaptureNeverStalls`, `BacklogDrains`,
`StopPrevails`, `PlaybackRecovers`, `IdleReleases`, `CommandReturns`, `KeepsRepairing`,
`OwnMuteEnds`, `FeedbackSilenced`, `StopEnds`, `Remembers`, `OnceReturns`, `KeepsAwake`): they rest on
fairness, which is out of the prover's reach, as is the `ENABLED` inside it. Every invariant and
action property of the passing runs and both refinements are proved, `OwnMuteClaimed` with one stream
at a time, as its run checks it.

## 5. Where the code and its documentation part

Each of these is a run that TLC refutes.

1. `outputs_guard`: README.md:283 has active playback reconnect "only after
   topology/source guards". The source guard depends on a read outside the lock. A session
   that drops after that read is reconnected by `observe` without it
   (bridge_supervisor.py:471-480, volume_handoff.py:207).
2. `outputs_unrelated`: volume_handoff.py:204 "Leave unrelated user-selected outputs
   alone". The repair of a stale session decides on a probe made before its lock; an
   unrelated output that a listener selects alone in between is cleared
   (bridge_supervisor.py:650-661, bridge.py:355).
3. `outputs_idle`: README.md:280 "Idle playback disconnects the pair after 60 seconds".
   `idle_since` is reset only by `observe(True)`. Playback that never got there (a failing
   source guard and the PC-only fallback, or another mode) does not count, and the
   first idle tick afterwards releases at once.
4. `desktop_mute_user`: README.md:257 "restoring only a mute it applied itself". A user
   who mutes between the claim and the command loses that mute later.
5. `desktop_mute_overlap`: the comment at bridge_supervisor.py:814 wants an inherited mute
   not to "strand direct PC playback silently". If the new stream opens before
   the muted one closes, only the old one is unmuted and the claim is dropped.
6. `keepalive_audio`: README.md:376 "Later bursts wait the same interval after audio". The
   recheck before a burst looks back five seconds (idle_keepalive.py:268), and the guard may take
   longer. A sound that begins after the guard has and ends more than five seconds
   before it returns puts nothing off.

Without a run of its own:

* README.md:281 says "After five seconds without an active Soloist source" the pipe is paused;
  `IDLE_PIPE_PAUSE_SECONDS` is 15 (volume_handoff.py:44).
* Between the launch of Soloist and `soloist_pid=$!` a signal makes the entrypoint exit over a live
  child, although it says "No child exists yet" (soloist-entrypoint.sh:28). `OutlivesSoloist` begins
  at the assignment. The window is that between two commands of a shell.
* If `/tmp/soloist-child.pid` cannot be written (soloist-entrypoint.sh:116, under `set -e`), the
  entrypoint exits over the Soloist it has just launched. `OutlivesSoloist` excepts it by name.
* The private sink outlives its container not only when that is killed: when `pactl load-module` fails
  to answer after it has loaded the sink (soloist-entrypoint.sh:98), when the unload fails, which
  `|| true` swallows (17), and when a signal comes within the EXIT trap of a script that has
  recorded no pid, whose `exit 143` ends the trap (31). The next container adopts the sink and
  does not unload it. `SinkReleased` excepts these by name.
* `pending_volume` survives the time Soloist plays (volume_handoff.py:106-112): two readings taken at
  two moves may confirm Soloist's own volume as the source's. Likewise a slow `busctl`,
  since `now` is older than its answer, and the very first reading, which needs no second one.
  `SourceOnlyOnce` excludes these by name.
* A volume whose write failed is not written again until it changes or the monitor
  restarts (volume_handoff.py:121): `Stored` excludes it by name (`lost`).
* A move while the trace is reconnecting hands nothing over: the first activity after
  a connection is no move. This is what the code intends, and `owed` requires that the
  trace showed Soloist inactive before (`Ready`).
* What plays while the keepalive's monitor is starting, or after it failed, is not heard:
  `NotOverAudio` speaks of what it could hear.
* Attempts are stored by the wall clock (bridge_supervisor.py:756): one that is set back before
  a restart forgets them. `Supervisor` has one clock.

## 6. Plan

Order of work, the most important behaviour first. Done: 1 to 9.

1. `LossyStream`, `CaptureRelay` and its proofs: the data path.
2. `OutputControl`, `OwnTone`, `BridgeOutputs`, `OutputHistory` and proofs: the one place
   where two processes change shared state.
3. `Supervisor` and its proofs: when the system may intervene.
4. `DesktopMute` and its proofs.
5. `SoloistEntrypoint`: PID 1, its traps and its child.
6. `VolumeHandoff`, which composes it with the monitor, and proofs of both.
7. `Keepalive` and its proofs.
8. `SourceOnlyOnce` as a theorem: where a volume came from, followed from the reading through
   `pending` to `saved`. `OutputTransactions` and its refinement.
9. What remains true where section 5 refutes, as properties and theorems of the outputs.
10. Next: the same of `ReleasesAfterIdle` and of the desktop mute (which mutes of a user are lost).
11. `Supervisor` with a wall clock that may step, to say how far budgets depend on it.
12. `UpdateSoloist`: the pins and the container under failure at any step and rollback.

## 7. Not modelled

* `doctor.py`, `audio_flow_check.check_flow` and the repository checks read and report; they
  change no state of the system.
* `bridge_config.py`, `render-config.py`, `ensure-runtime.sh` and the installation scripts turn
  one input into files, once, in sequence: unit tests reach them better.
* `startup_reconcile.py` wraps one `reconcile` and nothing that is installed starts it; its
  effect is that command of `BridgeOutputs`. With it go the arguments of `reconcile` that only
  it passes.
* `recycle_local_receiver`, its output snapshots and `FlowFailureTracker` (volume_handoff.py) are
  called by nothing but their unit tests.
* `update-soloist.sh` replaces a binary and the container, once, by hand, with a rollback (12 of
  the plan).
* The parsing of docker, PulseAudio and PipeWire listings, and the docker and pactl commands of
  the container repairs, are behind the findings and behind `Repair` in `Supervisor`.
* Audio itself: sample peaks appear as whether PCM is live.
