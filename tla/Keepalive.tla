------------------------------ MODULE Keepalive ------------------------------
(***************************************************************************)
(* idle_keepalive.py: a service, or a user's `--once`, plays a short tone   *)
(* when the bridge has been silent for some time and nothing else wants the *)
(* speakers.  A thread listens to the bridge's sink meanwhile.              *)
(*                                                                         *)
(* The lock file, which nobody waits for, lets one of the two run at a      *)
(* time.  A step of the guard is one request, and ticks pass between them,  *)
(* as long as requests take.  What a request can find against a tone is a   *)
(* member of `against`; Spotify's players are asked for in one step each.   *)
(* A time in the past is its age, counted to INTERVAL.                      *)
(***************************************************************************)
EXTENDS Integers, Sequences

CONSTANTS
    INTERVAL,          \* KEEPALIVE_INTERVAL_SECONDS
    DURATION,          \* KEEPALIVE_DURATION_SECONDS
    QUIET_SECONDS, RETRY_SECONDS,
    ONCE_SECONDS,      \* how long --once looks for a quiet time
    READY_SECONDS,     \* how long the monitor may take to deliver PCM
    MaxDisturbances    \* bound: outside events, failures and crashes

ASSUME KeepaliveAssumption ==
    /\ {DURATION, QUIET_SECONDS, RETRY_SECONDS, ONCE_SECONDS, READY_SECONDS}
         \subseteq 1 .. INTERVAL
    /\ INTERVAL \in Nat
    /\ MaxDisturbances \in Nat

\* What idle_guard looks for, in its order: the WiiM is not selected, a Spotify
\* player plays, the group is not as configured, a device plays something else.
Checks == <<"disconnected", "spotify", "soloist", "topology", "leader", "follower">>

Reasons == {Checks[i] : i \in DOMAIN Checks}

VARIABLES
    \* outside
    against,    \* what speaks against a tone now
    sound,      \* something else is heard on the bridge's sink
    unit,       \* systemd keeps the service running: started, and not given up
    \* the process
    runner,     \* who holds the lock: "service", "once" or "none"
    pc, left,   \* checks, or ticks of the tone, that are left
    stop,
    reason,     \* the guard found one
    listening,  \* the monitor: "starting", "ready" or "error"
    last_audio, retry_at, started,
    \* history
    lastSound,  \* the last sound of something else, but for those a monitor that
                \* did not listen could not hear
    lastBurst,  \* the time a tone ended
    throughout, \* what has spoken against a tone since the guard began
    disturbances

outside == <<against, sound, unit>>
control == <<runner, pc, left, stop, reason>>
timing  == <<last_audio, retry_at, started>>
history == <<lastSound, lastBurst, throughout>>
vars    == <<outside, control, listening, timing, history, disturbances>>

Ages == 0 .. INTERVAL

TypeOK ==
    /\ against \subseteq Reasons
    /\ {sound, unit, stop, reason} \subseteq BOOLEAN
    /\ reason => pc = "recheck"
    /\ runner \in {"service", "once", "none"}
    /\ pc \in {"down", "loop", "guard", "recheck", "burst"}
    /\ left \in 0 .. DURATION + Len(Checks)
    /\ listening \in {"starting", "ready", "error"}
    /\ {last_audio, retry_at, started, lastSound, lastBurst} \subseteq Ages
    /\ throughout \subseteq Reasons
    /\ disturbances \in 0 .. MaxDisturbances

Init ==
    /\ against = {}
    /\ sound = FALSE
    /\ unit = TRUE
    /\ runner = "none" /\ pc = "down" /\ left = 0 /\ stop = FALSE /\ reason = FALSE
    /\ listening = "starting"
    /\ last_audio = 0 /\ retry_at = 0 /\ started = 0
    /\ lastSound = INTERVAL /\ lastBurst = INTERVAL
    /\ throughout = {}
    /\ disturbances = 0

-----------------------------------------------------------------------------
(* Faults: wrong versions of definitions below, each refuting a property. *)

\* The monitor starts as if nothing had been heard for long.
SilentSoFar == INTERVAL

\* Whatever arrives counts as audio.
AnyPeak == TRUE

\* Only the guard decides.
RecheckNot == reason

\* Only the leader is asked what it plays.
FindsLeader(check) == check \in against /\ check # "follower"

\* --once looks for a quiet time as long as it takes.
NeverExpired == FALSE

-----------------------------------------------------------------------------
(* run() *)

Older(age) == IF age < INTERVAL THEN age + 1 ELSE age

Sooner(wait) == IF wait > 0 THEN wait - 1 ELSE 0

\* ActivityMonitor dates last_audio to its own start.
FirstAudio == 0

Start(who) ==
    /\ runner = "none"
    /\ runner' = who
    /\ pc' = "loop"
    /\ left' = 0 /\ stop' = FALSE /\ reason' = FALSE
    /\ listening' = "starting"
    /\ last_audio' = FirstAudio /\ retry_at' = 0 /\ started' = 0
    /\ throughout' = {}
    /\ UNCHANGED <<outside, lastSound, lastBurst>>

\* run() returns or raises, and the lock is free.
Leave == runner' = "none" /\ pc' = "down" /\ left' = 0 /\ stop' = FALSE /\ reason' = FALSE

Goto(label, steps) == pc' = label /\ left' = steps /\ UNCHANGED <<runner, stop>>

\* --once has looked for a quiet time for too long.
Expired == runner = "once" /\ started > ONCE_SECONDS

Raises ==
    \/ listening = "error"
    \/ listening = "starting" /\ last_audio > READY_SECONDS

Ends ==
    /\ pc = "loop"
    /\ stop \/ Expired \/ Raises
    /\ Leave
    /\ UNCHANGED <<outside, listening, timing, history, disturbances>>

Interval == IF runner = "once" THEN QUIET_SECONDS ELSE INTERVAL

BeginGuard ==
    /\ pc = "loop"
    /\ ~(stop \/ Expired \/ Raises)
    /\ listening = "ready"
    /\ last_audio >= Interval
    /\ retry_at = 0
    /\ Goto("guard", Len(Checks))
    /\ reason' = FALSE
    /\ throughout' = against
    /\ UNCHANGED <<outside, listening, timing, lastSound, lastBurst, disturbances>>

\* One request of idle_guard; the first that finds something is the last.
Finds(check) == check \in against

Current == Checks[Len(Checks) + 1 - left]

\* A fault: every request is made, and the last one decides.
LastDecides ==
    /\ pc = "guard"
    /\ reason' = Finds(Current)
    /\ IF left = 1 THEN Goto("recheck", 0) ELSE Goto("guard", left - 1)
    /\ UNCHANGED <<outside, listening, timing, history, disturbances>>

Check ==
    /\ pc = "guard"
    /\ reason' = Finds(Current)
    /\ IF reason' \/ left = 1 THEN Goto("recheck", 0) ELSE Goto("guard", left - 1)
    /\ UNCHANGED <<outside, listening, timing, history, disturbances>>

\* A request fails: "Safety check unavailable".
CheckFails ==
    /\ pc = "guard"
    /\ reason' = TRUE
    /\ Goto("recheck", 0)
    /\ UNCHANGED <<outside, listening, timing, history>>

\* busctl ends with an error: no desktop player, as far as spotify_playing() can tell.
PlayerUnanswered ==
    /\ pc = "guard"
    /\ Current = "spotify"
    /\ Goto("guard", left - 1)
    /\ throughout' = throughout \ {"spotify"}
    /\ UNCHANGED <<outside, reason, listening, timing, lastSound, lastBurst>>

\* The guard's reason, or audio heard while it asked.
Refused == reason \/ last_audio < QUIET_SECONDS

Decide ==
    /\ pc = "recheck"
    /\ IF stop \/ (Refused /\ runner = "once")
       THEN Leave /\ UNCHANGED retry_at
       ELSE /\ IF Refused
               THEN Goto("loop", 0) /\ retry_at' = RETRY_SECONDS
               ELSE Goto("burst", DURATION) /\ UNCHANGED retry_at
            /\ reason' = FALSE
    /\ throughout' = {}
    /\ UNCHANGED <<outside, listening, last_audio, started, lastSound, lastBurst,
                   disturbances>>

BurstEnds ==
    /\ pc = "burst"
    /\ left = 0
    /\ last_audio' = 0
    /\ retry_at' = INTERVAL
    /\ lastBurst' = 0
    /\ IF runner = "once" THEN Leave ELSE Goto("loop", 0) /\ UNCHANGED reason
    /\ UNCHANGED <<outside, listening, started, lastSound, throughout, disturbances>>

\* pacat fails or hangs, or the process is killed; what was played was played.
Dies ==
    /\ runner # "none"
    /\ lastBurst' = IF pc = "burst" THEN 0 ELSE lastBurst
    /\ Leave
    /\ UNCHANGED <<outside, listening, timing, lastSound, throughout>>

Run == Ends \/ BeginGuard \/ Check \/ Decide \/ BurstEnds

-----------------------------------------------------------------------------
(* Time, the monitor's thread, and what is outside *)

MonitorReady ==
    /\ runner # "none"
    /\ listening = "starting"
    /\ listening' = "ready"
    /\ UNCHANGED <<outside, control, timing, history, disturbances>>

\* pcm_peak(...) >= ACTIVITY_PEAK: other sound, or the tone itself.
Loud == sound \/ pc = "burst"

Heard == runner # "none" /\ listening = "ready" /\ Loud

\* A process that starts takes it that there was sound until then.
Audible == runner = "none" \/ listening = "ready"

Tick ==
    /\ pc # "recheck"
    /\ pc = "burst" => left > 0
    /\ left' = IF pc = "burst" THEN left - 1 ELSE left
    /\ last_audio' = IF Heard THEN 0 ELSE Older(last_audio)
    /\ retry_at' = Sooner(retry_at)
    /\ started' = IF runner = "once" THEN Older(started) ELSE 0
    /\ lastSound' = IF sound /\ Audible THEN 0 ELSE Older(lastSound)
    /\ lastBurst' = Older(lastBurst)
    /\ UNCHANGED <<outside, runner, pc, stop, reason, listening, throughout, disturbances>>

SoundChanges == sound' = ~sound /\ UNCHANGED <<against, unit, throughout>>

SituationChanges ==
    /\ \E r \in Reasons : against' = IF r \in against THEN against \ {r} ELSE against \union {r}
    /\ throughout' = throughout \intersect against'
    /\ UNCHANGED <<sound, unit>>

\* systemctl starts or stops the unit, or too many failures end it (StartLimitBurst).
UnitChanges == unit' = ~unit /\ UNCHANGED <<against, sound, throughout>>

StopRequested ==
    /\ runner # "none"
    /\ runner = "service" => ~unit
    /\ stop' = TRUE
    /\ UNCHANGED <<outside, runner, pc, left, reason, listening, timing, history>>

MonitorFails ==
    /\ runner # "none"
    /\ listening' = "error"
    /\ UNCHANGED <<outside, control, timing, history>>

\* systemd restarts the service when it fails; the lock may still be taken.
StartUnit == unit /\ Start("service") /\ UNCHANGED disturbances

Disturbance ==
    /\ disturbances < MaxDisturbances
    /\ disturbances' = disturbances + 1
    /\ \/ Start("once") \/ CheckFails \/ PlayerUnanswered \/ Dies \/ MonitorFails \/ StopRequested
       \/ /\ SoundChanges \/ SituationChanges \/ UnitChanges
          /\ UNCHANGED <<control, listening, timing, lastSound, lastBurst>>

Next == Run \/ StartUnit \/ MonitorReady \/ Tick \/ Disturbance

Spec == Init /\ [][Next]_vars

\* The process is scheduled, a unit that is on is started, time passes, and parec,
\* sooner or later, delivers in time.
FairSpec ==
    Spec /\ WF_vars(Run) /\ WF_vars(StartUnit) /\ WF_vars(Tick) /\ SF_vars(MonitorReady)

-----------------------------------------------------------------------------
(* Properties *)

Bursts == pc # "burst" /\ pc' = "burst"

\* README "Later bursts wait the same interval after [...] the previous burst": the
\* service does, whoever sent that one and however it or its process ended.
BurstsSpaced == [][Bursts /\ runner = "service" => lastBurst = INTERVAL]_vars

\* "playback starting during them cancels this attempt": no burst joins what the
\* monitor could hear within QUIET_SECONDS, however long the checks took.
NotOverAudio == [][Bursts => lastSound >= QUIET_SECONDS]_vars

\* README "another WiiM source, invalid topology, failed safety checks, or a
\* disconnected WiiM output suppress the burst": whatever comes and goes meanwhile,
\* what lasted from the first check to the burst suppresses it.  (A desktop player
\* that does not answer is taken for none.)
SuppressedThroughout == [][Bursts => throughout = {}]_vars

\* README "Later bursts wait the same interval after audio": the service waits for
\* INTERVAL after all it could hear.
AudioSpaced == [][Bursts /\ runner = "service" => lastSound = INTERVAL]_vars

\* --once gives up after ONCE_SECONDS: a player that never pauses cannot keep it.
OnceReturns == runner = "once" ~> runner # "once"

\* With nothing against them bursts keep coming, after any failures: a refused one
\* is tried again, a failed service restarted, and the tone not taken for a player.
KeepsAwake == <>[](unit /\ ~sound /\ against = {}) => []<>(pc = "burst")
=============================================================================
